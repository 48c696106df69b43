--------------------------- MODULE BulkQueueProofs ---------------------------
(***************************************************************************)
(* Theorems about BulkQueue, for any number of handlers, accounts, files,  *)
(* rows, faults, crashes and logouts.                                      *)
(***************************************************************************)
EXTENDS BulkQueue, FiniteSetTheorems, TLAPS

(***************************************************************************)
(* The inductive invariant                                                 *)
(***************************************************************************)

Steps == {"idle", "ensure", "create", "act", "insert", "claim", "send", "mark"}
Kinds == Commands \cup {"none", "status", "import", "send"}
Locals == [kind : Kinds, file : Seq(Contents), pos : Nat, campaign : Nat,
           ids : SUBSET Accounts, n : Nat, id : 0..MaxRows, key : Keys \cup {NoKey},
           uid : Accounts \cup {0}, err : BOOLEAN]

\* Rows are below the sequence's next id, and a row is live exactly if it has a key.
TableOK ==
  /\ table \in [Ids -> Row] /\ nextId \in 1..(MaxRows + 1)
  /\ \A id \in Ids : Live(id) <=> table[id].key \in Keys
  /\ \A id \in Ids : Live(id) => id < nextId

\* A batch has accounts, and an import has a campaign of its own.
LocalsOK ==
  /\ pc \in [Workers -> Steps] /\ loc \in [Workers -> Locals]
  /\ \A w \in Workers : pc[w] \in {"claim", "send", "mark"} => loc[w].ids # {}
  /\ \A w \in Workers : pc[w] = "insert" => loc[w].campaign \in 1..campaigns

\* A worker that claimed a row remembers the key the row has or had.
Busy(w) == pc[w] \in {"send", "mark"}
Holds(w) ==
  /\ loc[w].id \in Ids /\ loc[w].id < nextId /\ loc[w].key \in Keys
  /\ Live(loc[w].id) => table[loc[w].id].key = loc[w].key
Claimed == \A w \in Workers : Busy(w) => Holds(w)

\* Every campaign was begun by a request of its own.
Importing == {h \in Handlers : loc[h].kind = "import" /\ pc[h] \in {"ensure", "create", "act"}}
Counted ==
  /\ campaigns \in Nat /\ actions \in Nat /\ IsFiniteSet(Importing)
  /\ campaigns + Cardinality(Importing) <= actions /\ actions <= MaxActions

HistoryOK == delivered \in [Keys -> Nat] /\ doubts \in [Keys -> Nat]
RestOK ==
  index \in BOOLEAN /\ sessions \subseteq Accounts /\ auto \in BOOLEAN /\ faults \in Nat

\* No two rows have one key: an INSERT finds the row that is there by the index, or is
\* refused.  The proof of DeliveredOnce rests on it.
UniqueKeys ==
  \A i, j \in Ids : i # j /\ Live(i) /\ Live(j) => table[i].key # table[j].key

Sound == TableOK /\ UniqueKeys /\ LocalsOK /\ Claimed /\ Counted /\ HistoryOK /\ RestOK

USE DEF world

-----------------------------------------------------------------------------
(***************************************************************************)
(* Lemmas about the operators of the model                                 *)
(***************************************************************************)

LEMMA NoKeyIsNone == NoKey \notin Keys
BY DEF NoKey, Keys

LEMMA NoRowType == NoRow \in Row
BY BulkAssumption DEF NoRow, Row

LEMMA NoLocalsType == NoLocals \in Locals
<1>1. <<>> \in Seq(Contents) /\ 0 \in 0..MaxRows /\ {} \in SUBSET Accounts /\ 0 \in Nat
  BY BulkAssumption
<1>2. NoKey \in Keys \cup {NoKey} /\ 0 \in Accounts \cup {0} /\ FALSE \in BOOLEAN
  OBVIOUS
<1>3. QED
  BY <1>1, <1>2 DEF NoLocals, Locals, Kinds

\* bulkSenderForIndex finds an account: ranks are distinct and below the number of
\* accounts, so every one of them is taken.
LEMMA SenderExists ==
  ASSUME NEW S \in SUBSET Accounts, S # {}, NEW i \in Nat
  PROVE  SenderForIndex(S, i) \in S
<1> DEFINE N == Cardinality(S)
           Below(a) == {b \in S : b < a}
           rank == [a \in S |-> Cardinality(Below(a))]
<1>1. IsFiniteSet(S) /\ N \in Nat /\ N # 0 /\ S \subseteq Nat
  BY BulkAssumption, FS_Subset, FS_CardinalityType, FS_EmptySet
<1>2. \A a \in S : IsFiniteSet(Below(a)) /\ Cardinality(Below(a)) \in Nat
                   /\ Cardinality(Below(a)) < N
  <2> TAKE a \in S
  <2>1. Below(a) \in SUBSET S /\ a \notin Below(a)
    BY <1>1
  <2>2. IsFiniteSet(Below(a)) /\ Cardinality(Below(a)) <= N /\ Cardinality(Below(a)) # N
    BY <1>1, <2>1, FS_Subset
  <2>3. QED
    BY <1>1, <2>2, FS_CardinalityType
<1>3. rank \in [S -> 0..(N - 1)]
  BY <1>1, <1>2
<1>4. \A a, b \in S : a < b => rank[a] # rank[b]
  <2> TAKE a, b \in S
  <2> HAVE a < b
  <2>1. a \in Nat /\ b \in Nat /\ \A c \in S : c \in Nat /\ (c < a => c < b)
    BY <1>1
  <2>2. Below(a) \in SUBSET Below(b)
    BY <2>1
  <2>. a \in Below(b) /\ a \notin Below(a)
    BY <2>1
  <2>3. Cardinality(Below(a)) # Cardinality(Below(b))
    BY <1>2, <2>2, FS_Subset
  <2>4. QED
    BY <2>3
<1>5. rank \in Injection(S, 0..(N - 1))
  <2>1. ASSUME NEW a \in S, NEW b \in S, rank[a] = rank[b] PROVE a = b
    BY <1>1, <1>4, <2>1
  <2>2. QED
    BY <1>3, <2>1 DEF Injection, IsInjective
<1>6. IsFiniteSet(0..(N - 1)) /\ Cardinality(0..(N - 1)) = N
  BY <1>1, FS_Interval
<1>7. rank \in Surjection(S, 0..(N - 1))
  BY <1>5, <1>6, FS_Injection
<1>8. i % N \in 0..(N - 1)
  BY <1>1
<1>9. \E a \in S : rank[a] = i % N
  BY <1>7, <1>8 DEF Surjection
<1>10. \E a \in S : Cardinality({b \in S : b < a}) = i % Cardinality(S)
  BY <1>9
<1>11. QED
  BY <1>10 DEF SenderForIndex

-----------------------------------------------------------------------------
(***************************************************************************)
(* What most steps have in common                                          *)
(***************************************************************************)

\* Every row is as live as it was, with the key it had, or is gone.
KeepsRows ==
  /\ table' \in [Ids -> Row] /\ nextId' = nextId
  /\ \A id \in Ids :
       \/ table'[id].status = "none" /\ table'[id].key = NoKey
       \/ Live(id) /\ table'[id].status # "none" /\ table'[id].key = table[id].key

\* No row starts or stops being sent, and none is or was marked.
Calm ==
  \A id \in Ids :
    table[id].status \in {"sending", "sent"} \/ table'[id].status \in {"sending", "sent"} =>
      /\ table'[id].status = table[id].status /\ table'[id].key = table[id].key
      /\ table'[id].sender = table[id].sender

\* At most w moves.
Moves(w) ==
  /\ pc' \in [Workers -> Steps] /\ loc' \in [Workers -> Locals]
  /\ \A v \in Workers \ {w} : pc'[v] = pc[v] /\ loc'[v] = loc[v]

\* What a step of w must not do to its own locals.
LocalsAllow(w) ==
  /\ pc'[w] \in {"claim", "send", "mark"} => loc'[w].ids # {}
  /\ pc'[w] = "insert" => loc'[w].campaign \in 1..campaigns'

LEMMA TableKept ==
  ASSUME TableOK, UniqueKeys, KeepsRows
  PROVE  TableOK' /\ UniqueKeys'
<1>1. TableOK'
  BY NoKeyIsNone DEF TableOK, KeepsRows, Live
<1>2. UniqueKeys'
  BY DEF TableOK, UniqueKeys, KeepsRows, Live
<1>3. QED
  BY <1>1, <1>2

LEMMA RowsUntouched ==
  ASSUME TableOK, UNCHANGED <<table, nextId>>
  PROVE  KeepsRows
<1>1. \A id \in Ids : ~Live(id) => table[id].key = NoKey
  BY DEF TableOK, Row
<1>2. QED
  BY <1>1 DEF TableOK, KeepsRows, Live

LEMMA LocalsKept ==
  ASSUME LocalsOK, NEW w \in Workers, Moves(w), LocalsAllow(w),
         campaigns \in Nat, campaigns' \in Nat, campaigns <= campaigns'
  PROVE  LocalsOK'
<1>1. ASSUME NEW v \in Workers
      PROVE  /\ pc'[v] \in {"claim", "send", "mark"} => loc'[v].ids # {}
             /\ pc'[v] = "insert" => loc'[v].campaign \in 1..campaigns'
  <2>1. CASE v = w
    BY <2>1 DEF LocalsAllow
  <2>2. CASE v # w
    <3>1. pc'[v] = pc[v] /\ loc'[v] = loc[v]
      BY <2>2 DEF Moves
    <3>2. 1..campaigns \subseteq 1..campaigns'
      OBVIOUS
    <3>3. QED
      BY <3>1, <3>2 DEF LocalsOK
  <2>3. QED
    BY <2>1, <2>2
<1>2. QED
  BY <1>1 DEF LocalsOK, Moves

LEMMA ClaimedKept ==
  ASSUME Claimed, NEW w \in Workers, Moves(w), KeepsRows,
         (Busy(w) => Holds(w))'
  PROVE  Claimed'
<1> SUFFICES ASSUME NEW v \in Workers, Busy(v)', v # w
             PROVE  Holds(v)'
  BY DEF Claimed
<1>1. pc'[v] = pc[v] /\ loc'[v] = loc[v]
  BY DEF Moves
<1>2. Holds(v)
  BY <1>1 DEF Claimed, Busy
<1>3. QED
  BY <1>1, <1>2 DEF Holds, KeepsRows, Live

LEMMA CountedKept ==
  ASSUME Counted, campaigns' = campaigns, actions' \in actions..MaxActions,
         Importing' \subseteq Importing
  PROVE  Counted'
<1>1. IsFiniteSet(Importing') /\ Cardinality(Importing') <= Cardinality(Importing)
  BY FS_Subset DEF Counted
<1>2. Cardinality(Importing') \in Nat /\ Cardinality(Importing) \in Nat
  BY <1>1, FS_CardinalityType DEF Counted
<1>3. QED
  BY <1>1, <1>2, BulkAssumption DEF Counted

\* The usual step: one worker moves, rows keep their keys, no campaign begins.
Usual(w) ==
  /\ Moves(w) /\ LocalsAllow(w) /\ (Busy(w) => Holds(w))' /\ KeepsRows
  /\ campaigns' = campaigns /\ actions' \in actions..MaxActions
  /\ Importing' \subseteq Importing

LEMMA UsualStep ==
  ASSUME Sound, NEW w \in Workers, Usual(w), HistoryOK', RestOK'
  PROVE  Sound'
<1> USE DEF Sound, Usual
<1>1. TableOK' /\ UniqueKeys'
  BY TableKept
<1>2. LocalsOK'
  BY LocalsKept DEF Counted
<1>3. Claimed'
  BY ClaimedKept
<1>4. Counted'
  BY CountedKept
<1>5. QED
  BY <1>1, <1>2, <1>3, <1>4

\* A worker that stops being, or never was, about to import adds no import.
LEMMA NoImport ==
  ASSUME NEW w \in Workers, Moves(w),
         w \in Importing' => w \in Importing
  PROVE  Importing' \subseteq Importing
BY DEF Importing, Moves, Workers

\* The end of a request.
LEMMA DoneMoves ==
  ASSUME LocalsOK, NEW w \in Workers, Done(w)
  PROVE  /\ Moves(w) /\ LocalsAllow(w) /\ pc'[w] = "idle" /\ ~Busy(w)'
         /\ Importing' \subseteq Importing
<1>1. Moves(w) /\ pc'[w] = "idle"
  BY NoLocalsType DEF LocalsOK, Done, Goto, Moves, Steps
<1>2. Importing' \subseteq Importing
  BY <1>1, NoImport DEF Importing
<1>3. QED
  BY <1>1, <1>2 DEF LocalsAllow, Busy

-----------------------------------------------------------------------------
(***************************************************************************)
(* Soundness, action by action                                             *)
(***************************************************************************)

LEMMA SoundInit == Init => Sound
<1> SUFFICES ASSUME Init PROVE Sound
  OBVIOUS
<1> USE BulkAssumption DEF Init
<1>1. TableOK /\ UniqueKeys
  BY NoRowType, NoKeyIsNone DEF TableOK, UniqueKeys, Live, NoRow
<1>2. LocalsOK /\ Claimed
  BY NoLocalsType DEF LocalsOK, Claimed, Busy, Steps
<1>3. Counted
  <2>1. Importing = {}
    BY DEF Importing, Workers
  <2>2. QED
    BY <2>1, FS_EmptySet DEF Counted
<1>4. QED
  BY <1>1, <1>2, <1>3 DEF Sound, HistoryOK, RestOK

LEMMA SoundRequest ==
  ASSUME Sound, NEW h \in Handlers, NEW k \in Commands \cup {"status", "import", "send"},
         Request(h, k)
  PROVE  Sound'
<1> USE DEF Sound, Request
<1>1. h \in Workers /\ k \in Kinds
  BY DEF Workers, Kinds
<1>2. Moves(h)
  <2>1. loc[h] \in Locals /\ pc \in [Workers -> Steps] /\ loc \in [Workers -> Locals]
    BY <1>1 DEF LocalsOK
  <2>2. [loc[h] EXCEPT !.kind = k] \in Locals
    BY <1>1, <2>1 DEF Locals
  <2>3. loc' = [loc EXCEPT ![h] = [loc[h] EXCEPT !.kind = k]] /\ pc' = [pc EXCEPT ![h] = "ensure"]
    BY <1>1, <2>1 DEF Goto
  <2>4. "ensure" \in Steps
    BY DEF Steps
  <2>5. QED
    BY <1>1, <2>1, <2>2, <2>3, <2>4 DEF Moves
<1>3. LocalsOK'
  <2>1. LocalsAllow(h)
    BY <1>1 DEF LocalsAllow, Goto, LocalsOK
  <2>2. QED
    BY <1>1, <1>2, <2>1, LocalsKept DEF Counted
<1>4. KeepsRows
  BY RowsUntouched
<1>5. TableOK' /\ UniqueKeys'
  BY <1>4, TableKept
<1>6. Claimed'
  BY <1>1, <1>2, <1>4, ClaimedKept DEF Goto, LocalsOK, Busy
<1>7. Counted'
  <2>1. CASE k # "import"
    <3>1. h \notin Importing'
      BY <1>1, <2>1 DEF Importing, LocalsOK, Locals
    <3>2. Importing' \subseteq Importing
      BY <1>1, <1>2, <3>1, NoImport
    <3>3. actions' \in actions..MaxActions
      BY BulkAssumption DEF Counted
    <3>4. QED
      BY <3>2, <3>3, CountedKept
  <2>2. CASE k = "import"
    <3>1. h \notin Importing
      BY DEF Importing
    <3>2. Importing' = Importing \cup {h}
      BY <1>1, <2>2 DEF Importing, Goto, LocalsOK, Locals, Workers
    <3>3. IsFiniteSet(Importing') /\ Cardinality(Importing') = Cardinality(Importing) + 1
      BY <3>1, <3>2, FS_AddElement DEF Counted
    <3>4. Cardinality(Importing) \in Nat
      BY FS_CardinalityType DEF Counted
    <3>5. QED
      BY <2>2, <3>3, <3>4, BulkAssumption DEF Counted
  <2>3. QED
    BY <2>1, <2>2
<1>8. QED
  BY <1>3, <1>5, <1>6, <1>7 DEF HistoryOK, RestOK, history

LEMMA DeduplicatedIsTable ==
  ASSUME TableOK, UniqueKeys
  PROVE  Deduplicated = table
BY DEF TableOK, UniqueKeys, Deduplicated, Ids

LEMMA ActionsStay ==
  ASSUME Counted, actions' = actions
  PROVE  actions' \in actions..MaxActions
BY BulkAssumption DEF Counted

LEMMA FaultType ==
  ASSUME RestOK, Fault
  PROVE  faults' \in Nat
BY DEF RestOK, Fault

\* A step of the request before it acts.
LEMMA EnsureMoves ==
  ASSUME LocalsOK, NEW h \in Handlers, pc[h] \in {"ensure", "create"},
         NEW x \in {"create", "act"}, Goto(h, x), UNCHANGED loc
  PROVE  /\ Moves(h) /\ LocalsAllow(h) /\ pc'[h] = x /\ ~Busy(h)'
         /\ Importing' \subseteq Importing
<1>1. h \in Workers
  BY DEF Workers
<1>2. Moves(h) /\ pc'[h] = x
  BY <1>1 DEF LocalsOK, Goto, Moves, Steps
<1>3. Importing' \subseteq Importing
  BY <1>1, <1>2, NoImport DEF Importing
<1>4. QED
  BY <1>2, <1>3 DEF LocalsAllow, Busy

LEMMA SoundEnsureDrop ==
  ASSUME Sound, NEW h \in Handlers, EnsureDrop(h)
  PROVE  Sound'
<1> USE DEF Sound
<1>1. h \in Workers /\ table' = table
  BY DeduplicatedIsTable DEF Workers, EnsureDrop
<1>2. KeepsRows
  BY <1>1, RowsUntouched DEF EnsureDrop
<1>3. Moves(h) /\ LocalsAllow(h) /\ ~Busy(h)' /\ Importing' \subseteq Importing
  BY <1>1, DoneMoves, EnsureMoves DEF EnsureDrop
<1>4. HistoryOK' /\ RestOK'
  BY FaultType DEF EnsureDrop, HistoryOK, RestOK, history
<1>5. QED
  BY <1>1, <1>2, <1>3, <1>4, UsualStep, ActionsStay DEF Usual, EnsureDrop

LEMMA SoundEnsureCreate ==
  ASSUME Sound, NEW h \in Handlers, EnsureCreate(h)
  PROVE  Sound'
<1> USE DEF Sound
<1>1. h \in Workers
  BY DEF Workers
<1>2. KeepsRows
  BY RowsUntouched DEF EnsureCreate
<1>3. Moves(h) /\ LocalsAllow(h) /\ ~Busy(h)' /\ Importing' \subseteq Importing
  BY <1>1, DoneMoves, EnsureMoves DEF EnsureCreate
<1>4. HistoryOK' /\ RestOK'
  BY FaultType DEF EnsureCreate, HistoryOK, RestOK, history
<1>5. QED
  BY <1>1, <1>2, <1>3, <1>4, UsualStep, ActionsStay DEF Usual, EnsureCreate

LEMMA MoveRows ==
  ASSUME TableOK, nextId' = nextId, NEW from, NEW to, Move(from, to),
         from \subseteq {"queued", "paused", "failed"},
         to \in {"queued", "paused", "cancelled"}
  PROVE  KeepsRows /\ Calm
<1>1. 0 \in 0..(Timeout + 1)
  BY BulkAssumption
<1>2. ASSUME NEW id \in Ids
      PROVE  /\ table'[id] \in Row
             /\ \/ table'[id] = table[id]
                \/ /\ Live(id) /\ table'[id].status = to /\ table'[id].key = table[id].key
                   /\ table[id].status \in from
  BY <1>1 DEF TableOK, Move, Row, Live, Statuses
<1>3. table' \in [Ids -> Row]
  BY <1>2 DEF Move
<1>4. \A id \in Ids : ~Live(id) => table[id].key = NoKey
  BY DEF TableOK, Row
<1>5. QED
  BY <1>2, <1>3, <1>4 DEF KeepsRows, Calm, Live

LEMMA RunRows ==
  ASSUME TableOK, nextId' = nextId, NEW c, Run(c)
  PROVE  KeepsRows /\ Calm
<1>1. 0 \in 0..(Timeout + 1) /\ 0 \in Accounts \cup {0}
  BY BulkAssumption
<1>2. \A id \in Ids : ~Live(id) => table[id].key = NoKey
  BY DEF TableOK, Row
<1>3. CASE Move({"queued"}, "paused") \/ Move({"paused"}, "queued")
           \/ Move({"queued", "paused", "failed"}, "cancelled")
  BY <1>3, MoveRows
<1>4. CASE Retry
  <2>1. ASSUME NEW id \in Ids
        PROVE  /\ table'[id] \in Row
               /\ \/ table'[id] = table[id]
                  \/ /\ Is(id, "failed") /\ table'[id].status = "queued"
                     /\ table'[id].key = table[id].key
    BY <1>1, <1>4 DEF TableOK, Retry, Row, Is, Statuses
  <2>2. table' \in [Ids -> Row]
    BY <1>4, <2>1 DEF Retry
  <2>3. QED
    BY <1>2, <2>1, <2>2 DEF KeepsRows, Calm, Live, Is
<1>5. CASE Clear
  <2>1. ASSUME NEW id \in Ids
        PROVE  /\ table'[id] \in Row
               /\ \/ table'[id] = table[id]
                  \/ table[id].status \notin {"sending", "sent"} /\ table'[id] = NoRow
    BY <1>5, NoRowType DEF TableOK, Clear
  <2>2. table' \in [Ids -> Row]
    BY <1>5, <2>1 DEF Clear
  <2>3. NoRow.status = "none" /\ NoRow.key = NoKey
    BY DEF NoRow
  <2>4. QED
    BY <1>2, <2>1, <2>2, <2>3 DEF KeepsRows, Calm, Live
<1>6. QED
  BY <1>3, <1>4, <1>5 DEF Run

LEMMA RowsUntouchedCalm ==
  ASSUME UNCHANGED table
  PROVE  Calm
BY DEF Calm

LEMMA SoundCommand ==
  ASSUME Sound, NEW h \in Handlers, Command(h)
  PROVE  Sound'
<1> USE DEF Sound
<1>1. h \in Workers
  BY DEF Workers
<1>2. KeepsRows
  BY RowsUntouched, RunRows DEF Command
<1>3. Moves(h) /\ LocalsAllow(h) /\ ~Busy(h)' /\ Importing' \subseteq Importing
  BY <1>1, DoneMoves DEF Command
<1>4. HistoryOK' /\ RestOK'
  BY FaultType DEF Command, HistoryOK, RestOK, history
<1>5. QED
  BY <1>1, <1>2, <1>3, <1>4, UsualStep, ActionsStay DEF Usual, Command

LEMMA RecoveredRows ==
  ASSUME TableOK, nextId' = nextId, table' = Recovered
  PROVE  KeepsRows
<1>1. 0 \in 0..(Timeout + 1) /\ 0 \in Accounts \cup {0}
  BY BulkAssumption
<1>2. \A id \in Ids : ~Live(id) => table[id].key = NoKey
  BY DEF TableOK, Row
<1>3. ASSUME NEW id \in Ids
      PROVE  /\ table'[id] \in Row
             /\ \/ table'[id] = table[id]
                \/ /\ Is(id, "sending") /\ table'[id].status = "queued"
                   /\ table'[id].key = table[id].key
  BY <1>1 DEF TableOK, Recovered, Stale, Row, Is, Statuses
<1>4. table' \in [Ids -> Row]
  BY <1>3 DEF Recovered
<1>5. QED
  BY <1>2, <1>3, <1>4 DEF KeepsRows, Live, Is

LEMMA DoubtType ==
  ASSUME HistoryOK, NEW ks, Doubt(ks)
  PROVE  doubts' \in [Keys -> Nat]
BY DEF HistoryOK, Doubt

LEMMA SoundStatus ==
  ASSUME Sound, NEW h \in Handlers, Status(h)
  PROVE  Sound'
<1> USE DEF Sound
<1>1. h \in Workers
  BY DEF Workers
<1>2. KeepsRows
  BY RowsUntouched, RecoveredRows DEF Status
<1>3. Moves(h) /\ LocalsAllow(h) /\ ~Busy(h)' /\ Importing' \subseteq Importing
  BY <1>1, DoneMoves DEF Status
<1>4. HistoryOK'
  BY DoubtType DEF Status, HistoryOK
<1>5. RestOK'
  BY FaultType DEF Status, RestOK
<1>6. QED
  BY <1>1, <1>2, <1>3, <1>4, <1>5, UsualStep, ActionsStay DEF Usual, Status

LEMMA SoundImportBegin ==
  ASSUME Sound, NEW h \in Handlers, ImportBegin(h)
  PROVE  Sound'
<1> USE DEF Sound
<1>1. h \in Workers
  BY DEF Workers
<1>2. PICK f \in Files :
        loc' = [loc EXCEPT ![h].file = f, ![h].pos = 1, ![h].campaign = campaigns + 1]
  BY DEF ImportBegin
<1>3. f \in Seq(Contents) /\ campaigns + 1 \in Nat /\ campaigns' = campaigns + 1
  BY BulkAssumption DEF Counted, ImportBegin
<1>4. Moves(h)
  <2>1. loc[h] \in Locals
    BY <1>1 DEF LocalsOK
  <2>2. [loc[h] EXCEPT !.file = f, !.pos = 1, !.campaign = campaigns + 1] \in Locals
    BY <1>3, <2>1 DEF Locals
  <2>3. loc' = [loc EXCEPT ![h] = [loc[h] EXCEPT !.file = f, !.pos = 1, !.campaign = campaigns + 1]]
    BY <1>1, <1>2 DEF LocalsOK
  <2>4. QED
    BY <1>1, <2>2, <2>3 DEF Moves, ImportBegin, Goto, LocalsOK, Steps
<1>5. LocalsAllow(h) /\ ~Busy(h)'
  BY <1>1, <1>2, <1>3 DEF LocalsAllow, ImportBegin, Goto, LocalsOK, Locals, Busy, Counted
<1>6. LocalsOK'
  BY <1>1, <1>3, <1>4, <1>5, LocalsKept DEF Counted
<1>7. KeepsRows
  BY RowsUntouched DEF ImportBegin
<1>8. TableOK' /\ UniqueKeys' /\ Claimed'
  BY <1>1, <1>4, <1>5, <1>7, TableKept, ClaimedKept
<1>9. Counted'
  <2>1. h \in Importing
    BY DEF Importing, ImportBegin
  <2>2. Importing' = Importing \ {h}
    BY <1>1, <1>4 DEF Importing, Moves, ImportBegin, Goto, LocalsOK, Workers
  <2>3. IsFiniteSet(Importing') /\ Cardinality(Importing') = Cardinality(Importing) - 1
    BY <2>1, <2>2, FS_RemoveElement DEF Counted
  <2>4. Cardinality(Importing) \in Nat
    BY FS_CardinalityType DEF Counted
  <2>5. QED
    BY <1>3, <2>3, <2>4 DEF Counted, ImportBegin, counters
<1>10. QED
  BY <1>6, <1>8, <1>9 DEF HistoryOK, RestOK, ImportBegin, history, counters

\* A new row takes an id that was never used.
LEMMA InsertRows ==
  ASSUME TableOK, UniqueKeys, NEW key \in Keys, Insert(key)
  PROVE  /\ TableOK' /\ UniqueKeys' /\ Calm /\ nextId <= nextId'
         /\ \A id \in Ids : id < nextId => table'[id] = table[id]
<1>1. CASE /\ ~Conflict(key) /\ nextId \in Ids /\ nextId' = nextId + 1
           /\ table' = [table EXCEPT ![nextId] = [NoRow EXCEPT !.key = key, !.status = "queued"]]
  <2> DEFINE new == [NoRow EXCEPT !.key = key, !.status = "queued"]
  <2>1. new \in Row /\ new.key = key /\ new.status = "queued"
    BY NoRowType DEF Row, NoRow, Statuses
  <2>2. nextId \in Nat /\ ~Live(nextId) /\ table[nextId].status = "none"
    BY <1>1 DEF TableOK, Live
  <2>3. table' \in [Ids -> Row] /\ table'[nextId] = new
        /\ \A id \in Ids \ {nextId} : table'[id] = table[id]
    BY <1>1, <2>1 DEF TableOK
  <2> HIDE DEF new
  <2>4. nextId' \in 1..(MaxRows + 1) /\ \A id \in Ids : id <= nextId => id < nextId'
    BY <1>1, BulkAssumption DEF Ids
  <2>5. TableOK'
    BY <2>1, <2>2, <2>3, <2>4 DEF TableOK, Live, Ids
  <2>6. UniqueKeys'
    BY <1>1, <2>1, <2>3 DEF UniqueKeys, Live, Conflict
  <2>7. Calm
    BY <2>1, <2>2, <2>3 DEF Calm
  <2>8. QED
    BY <1>1, <2>2, <2>3, <2>5, <2>6, <2>7
<1>2. CASE UNCHANGED <<table, nextId>>
  BY <1>2 DEF TableOK, UniqueKeys, Live, Calm
<1>3. QED
  BY <1>1, <1>2 DEF Insert

LEMMA SoundImport ==
  ASSUME Sound, NEW h \in Handlers, Import(h)
  PROVE  Sound'
<1> USE DEF Sound
<1>1. h \in Workers
  BY DEF Workers
<1>2. CASE loc[h].pos \in DOMAIN loc[h].file
  <2> DEFINE key == <<loc[h].campaign, loc[h].file[loc[h].pos]>>
  <2>1. /\ Insert(key) /\ loc' = [loc EXCEPT ![h].pos = @ + 1]
        /\ UNCHANGED <<pc, index, world, campaigns, history, actions, crashes, logouts>>
    BY <1>2 DEF Import
  <2>2. key \in Keys
    <3>1. loc[h].campaign \in 1..campaigns /\ campaigns <= MaxActions
      <4>1. Cardinality(Importing) \in Nat
        BY FS_CardinalityType DEF Counted
      <4>2. QED
        BY <1>1, <4>1, BulkAssumption DEF Import, LocalsOK, Counted
    <3>2. loc[h].file \in Seq(Contents)
      BY <1>1 DEF LocalsOK, Locals
    <3>3. loc[h].file[loc[h].pos] \in Contents
      BY <1>2, <3>2
    <3>4. QED
      BY <3>1, <3>3, BulkAssumption DEF Keys, Counted
  <2> HIDE DEF key
  <2>3. TableOK' /\ UniqueKeys' /\ nextId <= nextId'
        /\ \A id \in Ids : id < nextId => table'[id] = table[id]
    BY <2>1, <2>2, InsertRows
  <2>4. Moves(h)
    <3>1. loc[h] \in Locals
      BY <1>1 DEF LocalsOK
    <3>2. [loc[h] EXCEPT !.pos = @ + 1] \in Locals
      <4>1. loc[h].pos + 1 \in Nat
        BY <3>1 DEF Locals
      <4> DEFINE next == loc[h].pos + 1
      <4>2. next \in Nat
        BY <4>1
      <4> HIDE DEF next
      <4>3. [loc[h] EXCEPT !.pos = next] \in Locals
        BY <3>1, <4>2 DEF Locals
      <4>4. QED
        BY <4>3 DEF next
    <3>3. loc' = [loc EXCEPT ![h] = [loc[h] EXCEPT !.pos = @ + 1]]
      <4>1. loc' = [loc EXCEPT ![h].pos = @ + 1]
        BY <2>1
      <4>2. loc \in [Workers -> Locals]
        BY DEF LocalsOK
      <4>3. QED
        BY <1>1, <3>1, <4>1, <4>2 DEF Locals
    <3>4. QED
      BY <1>1, <2>1, <3>2, <3>3 DEF Moves, LocalsOK
  <2>5. LocalsAllow(h)
    BY <1>1, <2>1 DEF LocalsAllow, LocalsOK, Locals
  <2>6. LocalsOK'
    BY <1>1, <2>1, <2>4, <2>5, LocalsKept DEF Counted
  <2>7. Claimed'
    <3> SUFFICES ASSUME NEW v \in Workers, Busy(v)' PROVE Holds(v)'
      BY DEF Claimed
    <3>1. v # h /\ Busy(v) /\ loc'[v] = loc[v]
      BY <1>1, <2>1, <2>4 DEF Import, Busy, Moves
    <3>2. Holds(v)
      BY <3>1 DEF Claimed
    <3>3. loc[v].id \in Int /\ nextId \in Int /\ nextId' \in Int
      BY <2>3, <3>2 DEF Holds, Ids, TableOK
    <3>4. QED
      BY <2>3, <3>1, <3>2, <3>3 DEF Holds, Live
  <2>8. Counted'
    <3>1. Importing' \subseteq Importing
      BY <1>1, <2>1, <2>4, NoImport DEF Import, Importing
    <3>2. QED
      BY <2>1, <3>1, CountedKept, ActionsStay
  <2>9. RestOK'
    BY <2>1, FaultType DEF RestOK, Insert
  <2>10. QED
    BY <2>1, <2>3, <2>6, <2>7, <2>8, <2>9 DEF HistoryOK, history
<1>3. CASE loc[h].pos \notin DOMAIN loc[h].file
  <2>1. Done(h) /\ UNCHANGED <<table, nextId, faults, index, world, campaigns, history, actions>>
    BY <1>3 DEF Import
  <2>2. KeepsRows
    BY <2>1, RowsUntouched
  <2>3. Moves(h) /\ LocalsAllow(h) /\ ~Busy(h)' /\ Importing' \subseteq Importing
    BY <1>1, <2>1, DoneMoves
  <2>4. HistoryOK' /\ RestOK'
    BY <2>1 DEF HistoryOK, RestOK, history
  <2>5. QED
    BY <1>1, <2>1, <2>2, <2>3, <2>4, UsualStep, ActionsStay DEF Usual
<1>4. QED
  BY <1>2, <1>3

\* A batch begins, by a request or by the loop.
LEMMA BatchBegins ==
  ASSUME LocalsOK, NEW w \in Workers, NEW S \in SUBSET Accounts, S # {},
         loc' = [loc EXCEPT ![w].ids = S], Goto(w, "claim")
  PROVE  /\ Moves(w) /\ LocalsAllow(w) /\ ~Busy(w)' /\ pc'[w] = "claim"
         /\ Importing' \subseteq Importing
<1>1. Moves(w) /\ pc'[w] = "claim" /\ loc'[w].ids = S
  <2>1. loc[w] \in Locals /\ pc \in [Workers -> Steps] /\ loc \in [Workers -> Locals]
    BY DEF LocalsOK
  <2>2. [loc[w] EXCEPT !.ids = S] \in Locals /\ [loc[w] EXCEPT !.ids = S].ids = S
    BY <2>1 DEF Locals
  <2>3. loc' = [loc EXCEPT ![w] = [loc[w] EXCEPT !.ids = S]] /\ pc' = [pc EXCEPT ![w] = "claim"]
    BY <2>1 DEF Goto
  <2>4. "claim" \in Steps
    BY DEF Steps
  <2>5. QED
    BY <2>1, <2>2, <2>3, <2>4 DEF Moves
<1>2. Importing' \subseteq Importing
  BY <1>1, NoImport DEF Importing
<1>3. QED
  BY <1>1, <1>2 DEF LocalsAllow, Busy

LEMMA SoundSendBegin ==
  ASSUME Sound, NEW h \in Handlers, SendBegin(h)
  PROVE  Sound'
<1> USE DEF Sound
<1>1. h \in Workers /\ KeepsRows
  BY RowsUntouched DEF Workers, SendBegin
<1>2. Moves(h) /\ LocalsAllow(h) /\ ~Busy(h)' /\ Importing' \subseteq Importing
  <2>1. CASE Done(h)
    BY <1>1, <2>1, DoneMoves
  <2>2. CASE ~Done(h)
    <3>1. PICK S \in (SUBSET sessions) \ {{}} : loc' = [loc EXCEPT ![h].ids = S] /\ Goto(h, "claim")
      BY <2>2 DEF SendBegin
    <3>2. S \in SUBSET Accounts /\ S # {}
      BY DEF RestOK
    <3>3. QED
      BY <1>1, <3>1, <3>2, BatchBegins
  <2>3. QED
    BY <2>1, <2>2
<1>3. HistoryOK' /\ RestOK'
  BY DEF HistoryOK, RestOK, SendBegin, history, counters
<1>4. QED
  BY <1>1, <1>2, <1>3, UsualStep, ActionsStay DEF Usual, SendBegin, counters

LEMMA SoundLoopBegin ==
  ASSUME Sound, LoopBegin
  PROVE  Sound'
<1> USE DEF Sound
<1>1. Loop \in Workers /\ KeepsRows
  BY RowsUntouched DEF Workers, LoopBegin
<1>2. Moves(Loop) /\ LocalsAllow(Loop) /\ ~Busy(Loop)' /\ Importing' \subseteq Importing
  BY <1>1, BatchBegins DEF RestOK, LoopBegin
<1>3. HistoryOK' /\ RestOK'
  BY DEF HistoryOK, RestOK, LoopBegin, history, counters
<1>4. QED
  BY <1>1, <1>2, <1>3, UsualStep, ActionsStay DEF Usual, LoopBegin, counters

\* A claim takes row id for account a, or the batch is over.
Takes(w, id, a) ==
  /\ Is(id, "queued")
  /\ table' = [table EXCEPT ![id].status = "sending", ![id].sender = a, ![id].age = 0]
  /\ loc' = [loc EXCEPT ![w].id = id, ![w].key = table[id].key, ![w].uid = a, ![w].n = @ + 1]
  /\ Goto(w, "send")

LocalsWith(r, id, k, a) == [r EXCEPT !.id = id, !.key = k, !.uid = a, !.n = @ + 1]

LEMMA LocalsTake ==
  ASSUME NEW r \in Locals, NEW id \in 0..MaxRows, NEW k \in Keys, NEW a \in Accounts
  PROVE  /\ LocalsWith(r, id, k, a) \in Locals
         /\ LocalsWith(r, id, k, a).id = id /\ LocalsWith(r, id, k, a).key = k
         /\ LocalsWith(r, id, k, a).uid = a /\ LocalsWith(r, id, k, a).ids = r.ids
<1>1. r.n + 1 \in Nat /\ k \in Keys \cup {NoKey} /\ a \in Accounts \cup {0}
  BY DEF Locals
<1>2. QED
  BY <1>1 DEF Locals, LocalsWith

LEMMA ClaimTakes ==
  ASSUME Sound, NEW w \in Workers, Claim(w)
  PROVE  \/ Done(w) /\ UNCHANGED table
         \/ \E id \in Ids, a \in Accounts : Takes(w, id, a)
<1>1. CASE Done(w) /\ UNCHANGED table
  BY <1>1
<1>2. ASSUME NEW id \in Ids, Claimable(id),
             LET a == SenderForIndex(loc[w].ids, loc[w].n) IN
             /\ table' = [table EXCEPT ![id].status = "sending", ![id].sender = a,
                                       ![id].age = 0]
             /\ loc' = [loc EXCEPT ![w].id = id, ![w].key = table[id].key,
                                   ![w].uid = a, ![w].n = @ + 1],
             Goto(w, "send")
      PROVE  \E a \in Accounts : Takes(w, id, a)
  <2>1. loc[w].ids \in SUBSET Accounts /\ loc[w].ids # {} /\ loc[w].n \in Nat
    BY DEF Sound, LocalsOK, Locals, Claim
  <2>2. SenderForIndex(loc[w].ids, loc[w].n) \in Accounts
    BY <2>1, SenderExists
  <2>3. QED
    BY <1>2, <2>2 DEF Takes, Claimable
<1>3. QED
  BY <1>1, <1>2 DEF Claim

\* What the claim of a row changes.
LEMMA TakesShape ==
  ASSUME Sound, NEW w \in Workers, NEW id \in Ids, NEW a \in Accounts, Takes(w, id, a)
  PROVE  /\ Moves(w) /\ pc'[w] = "send"
         /\ loc'[w].id = id /\ loc'[w].key = table[id].key /\ loc'[w].uid = a
         /\ loc'[w].ids = loc[w].ids
         /\ table' \in [Ids -> Row] /\ Live(id) /\ table[id].key \in Keys
         /\ table'[id].status = "sending" /\ table'[id].key = table[id].key
         /\ table'[id].sender = a
         /\ \A o \in Ids \ {id} : table'[o] = table[o]
<1> USE DEF Sound
<1>1. Live(id) /\ table[id].key \in Keys /\ id \in 0..MaxRows
  BY DEF TableOK, Takes, Is, Live, Ids
<1>2. [table[id] EXCEPT !.status = "sending", !.sender = a, !.age = 0] \in Row
  <2>1. table[id] \in Row /\ 0 \in 0..(Timeout + 1)
    BY BulkAssumption DEF TableOK
  <2>2. QED
    BY <2>1 DEF Row, Statuses
<1>3. /\ table' \in [Ids -> Row]
      /\ table'[id] = [table[id] EXCEPT !.status = "sending", !.sender = a, !.age = 0]
      /\ \A o \in Ids \ {id} : table'[o] = table[o]
  BY <1>2 DEF TableOK, Takes
<1>4. table[id] \in Row
  BY DEF TableOK
<1>5. table'[id].status = "sending" /\ table'[id].key = table[id].key /\ table'[id].sender = a
  BY <1>3, <1>4 DEF Row
<1>6. loc[w] \in Locals /\ loc \in [Workers -> Locals]
  BY DEF LocalsOK
<1> DEFINE l == LocalsWith(loc[w], id, table[id].key, a)
<1>7. /\ l \in Locals /\ l.id = id /\ l.key = table[id].key /\ l.uid = a
      /\ l.ids = loc[w].ids
  BY <1>1, <1>6, LocalsTake
<1>8. loc' = [loc EXCEPT ![w] = l]
  BY <1>6 DEF Takes, LocalsWith
<1> HIDE DEF l
<1>9. Moves(w) /\ pc'[w] = "send" /\ loc'[w] = l
  <2>1. loc' \in [Workers -> Locals] /\ loc'[w] = l /\ \A v \in Workers \ {w} : loc'[v] = loc[v]
    BY <1>6, <1>7, <1>8
  <2>2. QED
    BY <2>1 DEF Moves, Takes, Goto, LocalsOK, Steps
<1>10. QED
  BY <1>1, <1>3, <1>5, <1>7, <1>9

LEMMA SoundClaim ==
  ASSUME Sound, NEW w \in Workers, Claim(w)
  PROVE  Sound'
<1> USE DEF Sound
<1>1. HistoryOK' /\ RestOK'
  BY FaultType DEF HistoryOK, RestOK, Claim, history
<1>2. UNCHANGED <<nextId, campaigns, actions>>
  BY DEF Claim
<1>3. CASE Done(w) /\ UNCHANGED table
  BY <1>1, <1>2, <1>3, DoneMoves, RowsUntouched, UsualStep, ActionsStay DEF Usual
<1>4. ASSUME NEW id \in Ids, NEW a \in Accounts, Takes(w, id, a)
      PROVE  Sound'
  <2>1. Moves(w) /\ pc'[w] = "send" /\ loc'[w].ids # {}
    <3>1. loc[w].ids # {}
      BY DEF LocalsOK, Claim
    <3>2. QED
      BY <1>4, <3>1, TakesShape
  <2>2. LocalsAllow(w) /\ Importing' \subseteq Importing
    BY <2>1, NoImport DEF LocalsAllow, Importing
  <2>3. KeepsRows
    <3>1. \A o \in Ids : ~Live(o) => table[o].key = NoKey
      BY DEF TableOK, Row
    <3>2. QED
      BY <1>2, <1>4, <3>1, TakesShape DEF KeepsRows, Live
  <2>4. Holds(w)'
    BY <1>2, <1>4, TakesShape DEF Holds, TableOK, Live
  <2>5. QED
    BY <1>1, <1>2, <2>1, <2>2, <2>3, <2>4, UsualStep, ActionsStay DEF Usual
<1>5. QED
  BY <1>3, <1>4, ClaimTakes

\* What a send changes.
LEMMA SendShape ==
  ASSUME Sound, NEW w \in Workers, Send(w)
  PROVE  /\ Moves(w) /\ pc[w] = "send" /\ pc'[w] = "mark" /\ loc[w].key \in Keys
         /\ loc'[w].id = loc[w].id /\ loc'[w].key = loc[w].key /\ loc'[w].uid = loc[w].uid
         /\ loc'[w].ids = loc[w].ids
         /\ UNCHANGED <<table, nextId, campaigns, actions>>
         /\ \/ Deliver(w) /\ loc'[w].err = FALSE /\ doubts' = doubts
            \/ Deliver(w) /\ loc'[w].err = TRUE /\ Doubt({loc[w].key})
            \/ UNCHANGED history /\ loc'[w].err = TRUE
<1> USE DEF Sound
<1>1. loc[w] \in Locals /\ loc \in [Workers -> Locals] /\ pc \in [Workers -> Steps]
  BY DEF LocalsOK
<1>2. pc[w] = "send" /\ loc[w].key \in Keys
  BY DEF Send, Claimed, Busy, Holds
<1>3. ASSUME NEW e \in BOOLEAN, loc' = [loc EXCEPT ![w].err = e]
      PROVE  /\ loc' \in [Workers -> Locals]
             /\ \A v \in Workers \ {w} : loc'[v] = loc[v]
             /\ loc'[w].id = loc[w].id /\ loc'[w].key = loc[w].key /\ loc'[w].uid = loc[w].uid
             /\ loc'[w].ids = loc[w].ids /\ loc'[w].err = e
  BY <1>1, <1>3 DEF Locals
<1>4. PICK e \in BOOLEAN : loc' = [loc EXCEPT ![w].err = e]
  BY DEF Send
<1>5. Moves(w) /\ pc'[w] = "mark"
  BY <1>1, <1>3, <1>4 DEF Moves, Send, Goto, Steps
<1>6. \/ Deliver(w) /\ loc'[w].err = FALSE /\ doubts' = doubts
      \/ Deliver(w) /\ loc'[w].err = TRUE /\ Doubt({loc[w].key})
      \/ UNCHANGED history /\ loc'[w].err = TRUE
  BY <1>3 DEF Send
<1>7. QED
  BY <1>2, <1>3, <1>4, <1>5, <1>6 DEF Send

LEMMA SoundSend ==
  ASSUME Sound, NEW w \in Workers, Send(w)
  PROVE  Sound'
<1> USE DEF Sound
<1>1. /\ Moves(w) /\ pc[w] = "send" /\ pc'[w] = "mark" /\ loc[w].key \in Keys
      /\ loc'[w].id = loc[w].id /\ loc'[w].key = loc[w].key /\ loc'[w].ids = loc[w].ids
      /\ UNCHANGED <<table, nextId, campaigns, actions>>
  BY SendShape
<1>2. LocalsAllow(w) /\ Importing' \subseteq Importing
  BY <1>1, NoImport DEF LocalsAllow, LocalsOK, Importing
<1>3. KeepsRows
  BY <1>1, RowsUntouched
<1>4. Holds(w)'
  BY <1>1 DEF Claimed, Busy, Holds, Live
<1>5. HistoryOK'
  <2>1. delivered' \in [Keys -> Nat]
    BY <1>1 DEF Send, Deliver, HistoryOK, history
  <2>2. doubts' \in [Keys -> Nat]
    BY DoubtType DEF Send, HistoryOK, history
  <2>3. QED
    BY <2>1, <2>2 DEF HistoryOK
<1>6. RestOK'
  BY FaultType DEF Send, RestOK
<1>7. QED
  BY <1>1, <1>2, <1>3, <1>4, <1>5, <1>6, UsualStep, ActionsStay DEF Usual

\* Marking a row keeps its key and changes no other row.
LEMMA MarkRows ==
  ASSUME TableOK, NEW id \in Ids, NEW status \in Statuses
  PROVE  /\ Mark(id, status) \in [Ids -> Row]
         /\ \A o \in Ids \ {id} : Mark(id, status)[o] = table[o]
         /\ ~Live(id) => Mark(id, status)[id] = table[id]
         /\ Live(id) => Mark(id, status)[id].key = table[id].key
                        /\ Mark(id, status)[id].status = status
<1>1. table[id] \in Row /\ 0 \in 0..(Timeout + 1)
  BY BulkAssumption DEF TableOK
<1>2. [table[id] EXCEPT !.status = status, !.age = 0] \in Row
  BY <1>1 DEF Row
<1>3. /\ [table[id] EXCEPT !.status = status, !.age = 0].key = table[id].key
      /\ [table[id] EXCEPT !.status = status, !.age = 0].status = status
  BY <1>1 DEF Row
<1>4. QED
  BY <1>1, <1>2, <1>3 DEF Mark, TableOK

LEMMA MarkKeeps ==
  ASSUME TableOK, NEW id \in Ids, NEW status \in Statuses, table' = Mark(id, status),
         nextId' = nextId
  PROVE  KeepsRows
<1>1. \A o \in Ids : ~Live(o) => table[o].key = NoKey
  BY DEF TableOK, Row
<1>2. \A o \in Ids : o # id => table'[o] = table[o]
  BY MarkRows
<1>3. CASE Live(id)
  <2>1. table'[id].key = table[id].key /\ table'[id].status = status
    BY <1>3, MarkRows
  <2>2. status # "none"
    BY DEF Statuses
  <2>3. QED
    BY <1>1, <1>2, <1>3, <2>1, <2>2, MarkRows DEF KeepsRows, Live
<1>4. CASE ~Live(id)
  BY <1>1, <1>2, <1>4, MarkRows DEF KeepsRows, Live
<1>5. QED
  BY <1>3, <1>4

LEMMA MarkShape ==
  ASSUME Sound, NEW w \in Workers, MarkRow(w)
  PROVE  /\ Moves(w) /\ pc[w] = "mark" /\ pc'[w] = "claim" /\ loc'[w].ids = loc[w].ids
         /\ loc[w].id \in Ids /\ loc[w].key \in Keys /\ loc'[w].key = NoKey
         /\ UNCHANGED <<nextId, campaigns, actions, delivered>>
<1> USE DEF Sound
<1>1. loc[w] \in Locals /\ loc \in [Workers -> Locals] /\ pc \in [Workers -> Steps]
  BY DEF LocalsOK
<1>2. pc[w] = "mark" /\ loc[w].key \in Keys /\ loc[w].id \in Ids
  BY DEF MarkRow, Claimed, Busy, Holds
<1>3. /\ loc' \in [Workers -> Locals]
      /\ \A v \in Workers \ {w} : loc'[v] = loc[v]
      /\ loc'[w].ids = loc[w].ids /\ loc'[w].key = NoKey
  <2>1. 0 \in 0..MaxRows
    BY BulkAssumption
  <2>2. QED
    BY <1>1, <2>1 DEF MarkRow, Locals
<1>4. Moves(w) /\ pc'[w] = "claim"
  BY <1>1, <1>3 DEF Moves, MarkRow, Goto, Steps
<1>5. QED
  BY <1>2, <1>3, <1>4 DEF MarkRow

LEMMA SoundMarkRow ==
  ASSUME Sound, NEW w \in Workers, MarkRow(w)
  PROVE  Sound'
<1> USE DEF Sound
<1>1. /\ Moves(w) /\ pc[w] = "mark" /\ pc'[w] = "claim" /\ loc'[w].ids = loc[w].ids
      /\ loc[w].id \in Ids /\ UNCHANGED <<nextId, campaigns, actions>>
  BY MarkShape
<1>2. LocalsAllow(w) /\ Importing' \subseteq Importing /\ ~Busy(w)'
  BY <1>1, NoImport DEF LocalsAllow, LocalsOK, Importing, Busy
<1>3. KeepsRows
  BY <1>1, MarkKeeps, RowsUntouched DEF MarkRow, Statuses
<1>4. HistoryOK'
  BY DoubtType DEF MarkRow, HistoryOK
<1>5. RestOK'
  BY FaultType DEF MarkRow, RestOK
<1>6. QED
  BY <1>1, <1>2, <1>3, <1>4, <1>5, UsualStep, ActionsStay DEF Usual

LEMMA SoundLogout ==
  ASSUME Sound, NEW a \in Accounts, Logout(a)
  PROVE  Sound'
BY DEF Sound, Logout, TableOK, UniqueKeys, LocalsOK, Claimed, Busy, Holds, Counted, Importing,
       HistoryOK, RestOK, Live, history

LEMMA SoundSaveAuto ==
  ASSUME Sound, NEW v \in BOOLEAN, SaveAuto(v)
  PROVE  Sound'
<1> USE DEF Sound
<1>1. TableOK' /\ UniqueKeys' /\ LocalsOK' /\ Claimed' /\ HistoryOK'
  BY DEF SaveAuto, TableOK, UniqueKeys, LocalsOK, Claimed, Busy, Holds, HistoryOK, Live, history
<1>2. Importing' = Importing
  BY DEF SaveAuto, Importing
<1>3. Counted'
  <2>1. Cardinality(Importing) \in Nat
    BY FS_CardinalityType DEF Counted
  <2>2. actions' = actions + 1 /\ actions < MaxActions /\ campaigns' = campaigns
    BY DEF SaveAuto
  <2>3. QED
    BY <1>2, <2>1, <2>2, BulkAssumption DEF Counted
<1>4. RestOK'
  BY FaultType DEF SaveAuto, RestOK
<1>5. QED
  BY <1>1, <1>3, <1>4

LEMMA SoundRestart ==
  ASSUME Sound, Restart
  PROVE  Sound'
<1> USE DEF Sound
<1>1. TableOK' /\ UniqueKeys' /\ RestOK'
  BY DEF Restart, TableOK, UniqueKeys, RestOK, Live
<1>2. LocalsOK' /\ Claimed'
  BY NoLocalsType DEF Restart, LocalsOK, Claimed, Busy, Steps
<1>3. Counted'
  <2>1. Importing' \subseteq Importing
    BY DEF Restart, Importing, Workers
  <2>2. QED
    BY <2>1, CountedKept, ActionsStay DEF Restart
<1>4. HistoryOK'
  BY DoubtType DEF Restart, HistoryOK
<1>5. QED
  BY <1>1, <1>2, <1>3, <1>4

LEMMA TickRows ==
  ASSUME TableOK, Tick
  PROVE  KeepsRows /\ Calm
<1>1. \A id \in Ids : ~Live(id) => table[id].key = NoKey
  BY DEF TableOK, Row
<1>2. ASSUME NEW id \in Ids
      PROVE  /\ table'[id] \in Row
             /\ table'[id].status = table[id].status /\ table'[id].key = table[id].key
             /\ table'[id].sender = table[id].sender
  <2>1. table[id] \in Row /\ table[id].age \in 0..(Timeout + 1) /\ Timeout \in Nat
    BY BulkAssumption DEF TableOK, Row
  <2>2. table[id].age <= Timeout => table[id].age + 1 \in 0..(Timeout + 1)
    BY <2>1
  <2>3. QED
    BY <2>1, <2>2 DEF Tick, Row
<1>3. table' \in [Ids -> Row]
  BY <1>2 DEF Tick
<1>4. QED
  BY <1>1, <1>2, <1>3 DEF KeepsRows, Calm, Live, Tick

LEMMA SoundTick ==
  ASSUME Sound, Tick
  PROVE  Sound'
<1> USE DEF Sound
<1>1. KeepsRows /\ UNCHANGED <<index, world, pc, loc, campaigns, history, counters>>
  BY TickRows DEF Tick
<1>2. TableOK' /\ UniqueKeys'
  BY <1>1, TableKept
<1>3. Claimed'
  BY <1>1 DEF Claimed, Busy, Holds, KeepsRows, Live
<1>4. LocalsOK' /\ Counted' /\ HistoryOK' /\ RestOK'
  BY <1>1 DEF LocalsOK, Counted, Importing, HistoryOK, RestOK, history, counters
<1>5. QED
  BY <1>2, <1>3, <1>4

LEMMA SoundStutter ==
  ASSUME Sound, UNCHANGED vars
  PROVE  Sound'
BY DEF Sound, vars, TableOK, UniqueKeys, LocalsOK, Claimed, Busy, Holds, Counted, Importing,
       HistoryOK, RestOK, Live, history, counters

LEMMA SoundStep == Sound /\ [Next]_vars => Sound'
<1> SUFFICES ASSUME Sound, [Next]_vars PROVE Sound'
  OBVIOUS
<1>1. ASSUME NEW h \in Handlers, Handle(h) PROVE Sound'
  BY <1>1, SoundEnsureDrop, SoundEnsureCreate, SoundCommand, SoundStatus, SoundImportBegin,
     SoundImport, SoundSendBegin DEF Handle
<1>2. ASSUME NEW w \in Workers, Work(w) PROVE Sound'
  BY <1>2, SoundClaim, SoundSend, SoundMarkRow DEF Work
<1>3. QED
  BY <1>1, <1>2, SoundRequest, SoundLoopBegin, SoundLogout, SoundSaveAuto, SoundRestart,
     SoundTick, SoundStutter DEF Next

LEMMA SoundAlways == Spec => []Sound
BY SoundInit, SoundStep, PTL DEF Spec

LEMMA SoundTypes == Sound => TypeOK
<1> SUFFICES ASSUME Sound PROVE TypeOK
  OBVIOUS
<1>1. campaigns \in 0..MaxActions
  <2>1. Cardinality(Importing) \in Nat
    BY FS_CardinalityType DEF Sound, Counted
  <2>2. QED
    BY <2>1, BulkAssumption DEF Sound, Counted
<1>2. \A w \in Workers : loc[w].id \in 0..MaxRows /\ loc[w].key \in Keys \cup {NoKey}
  BY DEF Sound, LocalsOK, Locals
<1>3. QED
  BY <1>1, <1>2 DEF Sound, TypeOK, TableOK, LocalsOK, HistoryOK, RestOK, Steps

\* TypeOK: among the rest, no status update of a worker (markBulkSent,
\* markBulkFailed) brings back a row that clear_queue deleted, and no import gets a
\* campaign beyond the requests made.
THEOREM TypeCorrect == Spec => []TypeOK
BY SoundAlways, SoundTypes, PTL

-----------------------------------------------------------------------------
(***************************************************************************)
(* An import has its index                                                 *)
(***************************************************************************)

\* A request that passed ensureBulkMessageTable had the index in its hands, and keeps
\* it unless somebody else drops it.
Excused == faults > 0 \/ \E o \in Handlers : pc[o] = "create"
IndexHeld == \A h \in Handlers : pc[h] \in {"act", "insert"} /\ ~index => Excused

\* Steps that leave the index alone, bring nobody past ensureBulkMessageTable and
\* take nobody out of it.
LEMMA IndexKept ==
  ASSUME RestOK, IndexHeld, index' = index, faults' \in Nat, faults' >= faults,
         \A h \in Handlers : pc'[h] \in {"act", "insert"} => pc[h] \in {"act", "insert"},
         \A h \in Handlers : pc[h] = "create" => pc'[h] = "create"
  PROVE  IndexHeld'
BY DEF RestOK, IndexHeld, Excused

LEMMA IndexHandle ==
  ASSUME Sound, IndexHeld, NEW h \in Handlers, Handle(h)
  PROVE  IndexHeld'
<1> USE DEF Sound
<1>1. h \in Workers /\ Handlers \subseteq Workers /\ pc \in [Workers -> Steps] /\ faults \in Nat
  BY DEF Workers, LocalsOK, RestOK
<1>2. CASE EnsureDrop(h)
  <2>1. CASE Fault /\ Done(h) /\ UNCHANGED index
    BY <1>1, <2>1 DEF Fault, IndexHeld, Excused
  <2>2. CASE Goto(h, "create")
    BY <1>1, <2>2 DEF Goto, IndexHeld, Excused
  <2>3. QED
    BY <1>2, <2>1, <2>2 DEF EnsureDrop
<1>3. CASE EnsureCreate(h)
  BY <1>1, <1>3 DEF EnsureCreate, Fault, IndexHeld, Excused
<1>4. CASE Command(h) \/ Status(h) \/ ImportBegin(h) \/ Import(h) \/ SendBegin(h)
  <2>1. index' = index /\ pc[h] \in {"act", "insert"}
    BY <1>4 DEF Command, Status, ImportBegin, Import, SendBegin
  <2>2. faults' \in Nat /\ faults' >= faults
    <3>1. Fault \/ faults' = faults
      <4>1. CASE Command(h) \/ Status(h)
        BY <4>1 DEF Command, Status
      <4>2. CASE Import(h)
        BY <4>2 DEF Import, Insert
      <4>3. CASE ImportBegin(h) \/ SendBegin(h)
        BY <4>3 DEF ImportBegin, SendBegin, counters
      <4>4. QED
        BY <1>4, <4>1, <4>2, <4>3
    <3>2. QED
      BY <1>1, <3>1 DEF Fault
  <2>3. \A o \in Handlers \ {h} : pc'[o] = pc[o]
    BY <1>1, <1>4 DEF Command, Status, ImportBegin, Import, SendBegin, Done, Goto
  <2>4. QED
    BY <2>1, <2>2, <2>3, IndexKept
<1>5. QED
  BY <1>2, <1>3, <1>4 DEF Handle

LEMMA IndexStep == Sound /\ IndexHeld /\ [Next]_vars => IndexHeld'
<1> SUFFICES ASSUME Sound, IndexHeld, [Next]_vars PROVE IndexHeld'
  OBVIOUS
<1> USE DEF Sound
<1>1. Handlers \subseteq Workers /\ Loop \in Workers /\ Loop \notin Handlers
      /\ pc \in [Workers -> Steps] /\ faults \in Nat
  BY BulkAssumption DEF Workers, LocalsOK, RestOK
<1>2. ASSUME NEW h \in Handlers, NEW k, Request(h, k) PROVE IndexHeld'
  <2>1. pc[h] = "idle" /\ pc'[h] = "ensure" /\ \A o \in Handlers \ {h} : pc'[o] = pc[o]
    BY <1>1, <1>2 DEF Request, Goto
  <2>2. index' = index /\ faults' = faults
    BY <1>2 DEF Request
  <2>3. QED
    BY <1>1, <2>1, <2>2, IndexKept
<1>3. ASSUME NEW w \in Workers, Work(w) PROVE IndexHeld'
  <2>1. index' = index /\ pc[w] \in {"claim", "send", "mark"}
    BY <1>3 DEF Work, Claim, Send, MarkRow
  <2>2. faults' \in Nat /\ faults' >= faults
    <3>1. Fault \/ faults' = faults
      BY <1>3 DEF Work, Claim, Send, MarkRow
    <3>2. QED
      BY <1>1, <3>1 DEF Fault
  <2>3. pc'[w] \in {"idle", "claim", "send", "mark"} /\ \A o \in Handlers \ {w} : pc'[o] = pc[o]
    BY <1>1, <1>3 DEF Work, Claim, Send, MarkRow, Done, Goto
  <2>4. QED
    BY <2>1, <2>2, <2>3, IndexKept
<1>4. CASE LoopBegin
  <2>1. index' = index /\ faults' = faults /\ \A o \in Handlers : pc'[o] = pc[o]
    BY <1>1, <1>4 DEF LoopBegin, Goto, counters
  <2>2. QED
    BY <1>1, <2>1, IndexKept
<1>5. CASE Restart
  BY <1>1, <1>5 DEF Restart, IndexHeld
<1>6. ASSUME UNCHANGED <<index, pc>>, faults' \in {faults, faults + 1} PROVE IndexHeld'
  BY <1>1, <1>6, IndexKept
<1>7. ASSUME NEW a \in Accounts, Logout(a) PROVE IndexHeld'
  BY <1>6, <1>7 DEF Logout
<1>8. ASSUME NEW v \in BOOLEAN, SaveAuto(v) PROVE IndexHeld'
  BY <1>6, <1>8 DEF SaveAuto, Fault
<1>9. CASE Tick \/ UNCHANGED vars
  BY <1>6, <1>9 DEF Tick, vars, counters
<1>10. QED
  BY <1>2, <1>3, <1>4, <1>5, <1>7, <1>8, <1>9, IndexHandle DEF Next

\* RefusedOnlyByRebuild: an import of bulkMessageImportHandler goes on without the
\* unique index only while another request of ensureBulkMessageTable is between DROP
\* and CREATE, or once a statement failed; a crash between the two is no excuse.
THEOREM ImportsHaveTheirIndex == Spec => []RefusedOnlyByRebuild
<1>1. Init => IndexHeld
  BY DEF Init, IndexHeld, Workers
<1>2. IndexHeld => RefusedOnlyByRebuild
  BY DEF IndexHeld, Excused, RefusedOnlyByRebuild
<1>3. QED
  BY SoundAlways, IndexStep, <1>1, <1>2, PTL DEF Spec

-----------------------------------------------------------------------------
(***************************************************************************)
(* Steps that do not touch rows being sent, nor the workers sending them   *)
(***************************************************************************)

Quiet ==
  /\ Calm /\ UNCHANGED history
  /\ \A v \in Workers : Busy(v) \/ Busy(v)' => pc'[v] = pc[v] /\ loc'[v] = loc[v]

LEMMA QuietMove ==
  ASSUME NEW w \in Workers, Moves(w), ~Busy(w), ~Busy(w)', Calm, UNCHANGED history
  PROVE  Quiet
BY DEF Quiet, Moves

LEMMA QuietHandle ==
  ASSUME Sound, NEW h \in Handlers, Handle(h), ~Status(h)
  PROVE  Quiet
<1> USE DEF Sound
<1>1. h \in Workers
  BY DEF Workers
<1>2. CASE EnsureDrop(h)
  <2>1. Moves(h) /\ ~Busy(h)' /\ ~Busy(h)
    BY <1>1, <1>2, DoneMoves, EnsureMoves DEF EnsureDrop, Busy
  <2>2. Calm
    BY <1>2, DeduplicatedIsTable, RowsUntouchedCalm DEF EnsureDrop
  <2>3. QED
    BY <1>1, <1>2, <2>1, <2>2, QuietMove DEF EnsureDrop
<1>3. CASE EnsureCreate(h)
  <2>1. Moves(h) /\ ~Busy(h)' /\ ~Busy(h)
    BY <1>1, <1>3, DoneMoves, EnsureMoves DEF EnsureCreate, Busy
  <2>2. QED
    BY <1>1, <1>3, <2>1, RowsUntouchedCalm, QuietMove DEF EnsureCreate
<1>4. CASE Command(h)
  <2>1. Moves(h) /\ ~Busy(h)' /\ ~Busy(h)
    BY <1>1, <1>4, DoneMoves DEF Command, Busy
  <2>2. Calm
    BY <1>4, RunRows, RowsUntouchedCalm DEF Command
  <2>3. QED
    BY <1>1, <1>4, <2>1, <2>2, QuietMove DEF Command
<1>5. CASE ImportBegin(h)
  <2>1. ~Busy(h)' /\ ~Busy(h)
    BY <1>1, <1>5 DEF ImportBegin, Busy, Goto, LocalsOK
  <2>2. \A v \in Workers \ {h} : pc'[v] = pc[v] /\ loc'[v] = loc[v]
    BY <1>1, <1>5 DEF ImportBegin, Goto, LocalsOK
  <2>3. QED
    BY <1>5, <2>1, <2>2, RowsUntouchedCalm DEF Quiet, ImportBegin
<1>6. CASE Import(h)
  <2>1. ~Busy(h)' /\ ~Busy(h)
    BY <1>1, <1>6 DEF Import, Busy, Done, Goto, LocalsOK
  <2>2. \A v \in Workers \ {h} : pc'[v] = pc[v] /\ loc'[v] = loc[v]
    BY <1>1, <1>6 DEF Import, Done, Goto, LocalsOK
  <2>3. Calm
    <3>1. CASE UNCHANGED table
      BY <3>1, RowsUntouchedCalm
    <3>2. CASE ~UNCHANGED table
      <4> DEFINE key == <<loc[h].campaign, loc[h].file[loc[h].pos]>>
                 new == [NoRow EXCEPT !.key = key, !.status = "queued"]
      <4>1. nextId \in Ids /\ table' = [table EXCEPT ![nextId] = new]
        BY <1>6, <3>2 DEF Import, Insert
      <4>2. new.status = "queued"
        BY DEF NoRow
      <4> HIDE DEF new
      <4>3. table[nextId].status = "none"
        BY <4>1 DEF TableOK, Live
      <4>4. table'[nextId].status = "queued" /\ \A id \in Ids \ {nextId} : table'[id] = table[id]
        BY <4>1, <4>2 DEF TableOK
      <4>5. QED
        BY <4>3, <4>4 DEF Calm
    <3>3. QED
      BY <3>1, <3>2
  <2>4. QED
    BY <1>6, <2>1, <2>2, <2>3 DEF Quiet, Import
<1>7. CASE SendBegin(h)
  <2>1. ~Busy(h)' /\ ~Busy(h)
    BY <1>1, <1>7 DEF SendBegin, Busy, Done, Goto, LocalsOK
  <2>2. \A v \in Workers \ {h} : pc'[v] = pc[v] /\ loc'[v] = loc[v]
    BY <1>1, <1>7 DEF SendBegin, Done, Goto, LocalsOK
  <2>3. QED
    BY <1>7, <2>1, <2>2, RowsUntouchedCalm DEF Quiet, SendBegin
<1>8. QED
  BY <1>2, <1>3, <1>4, <1>5, <1>6, <1>7 DEF Handle

LEMMA QuietRest ==
  ASSUME Sound,
         \/ \E h \in Handlers, k \in Commands \cup {"status", "import", "send"} : Request(h, k)
         \/ LoopBegin \/ Tick \/ UNCHANGED vars
         \/ \E a \in Accounts : Logout(a)
         \/ \E v \in BOOLEAN : SaveAuto(v)
         \/ \E w \in Workers : Claim(w) /\ Done(w) /\ UNCHANGED table
  PROVE  Quiet
<1> USE DEF Sound
<1>1. ASSUME NEW h \in Handlers, NEW k, Request(h, k) PROVE Quiet
  <2>1. h \in Workers
    BY DEF Workers
  <2>2. ~Busy(h)' /\ ~Busy(h) /\ \A v \in Workers \ {h} : pc'[v] = pc[v] /\ loc'[v] = loc[v]
    BY <1>1, <2>1 DEF Request, Busy, Goto, LocalsOK
  <2>3. QED
    BY <1>1, <2>2, RowsUntouchedCalm DEF Quiet, Request
<1>2. CASE LoopBegin
  <2>1. Loop \in Workers
    BY DEF Workers
  <2>2. ~Busy(Loop)' /\ ~Busy(Loop)
        /\ \A v \in Workers \ {Loop} : pc'[v] = pc[v] /\ loc'[v] = loc[v]
    BY <1>2, <2>1 DEF LoopBegin, Busy, Goto, LocalsOK
  <2>3. QED
    BY <1>2, <2>2, RowsUntouchedCalm DEF Quiet, LoopBegin
<1>3. CASE Tick
  BY <1>3, TickRows DEF Quiet, Tick
<1>4. CASE UNCHANGED vars
  BY <1>4, RowsUntouchedCalm DEF Quiet, vars
<1>5. ASSUME NEW a \in Accounts, Logout(a) PROVE Quiet
  BY <1>5, RowsUntouchedCalm DEF Quiet, Logout
<1>6. ASSUME NEW w \in Workers, Claim(w), Done(w), UNCHANGED table PROVE Quiet
  <2>1. Moves(w) /\ ~Busy(w)' /\ ~Busy(w)
    BY <1>6, DoneMoves DEF Claim, Busy
  <2>2. QED
    BY <1>6, <2>1, RowsUntouchedCalm, QuietMove DEF Claim
<1>7. ASSUME NEW v \in BOOLEAN, SaveAuto(v) PROVE Quiet
  BY <1>7, RowsUntouchedCalm DEF Quiet, SaveAuto
<1>8. QED
  BY <1>1, <1>2, <1>3, <1>4, <1>5, <1>6, <1>7

\* The recovery, by what it does to each row.
LEMMA StatusShape ==
  ASSUME Sound, NEW h \in Handlers, Status(h)
  PROVE  /\ h \in Workers /\ Moves(h) /\ ~Busy(h) /\ ~Busy(h)' /\ delivered' = delivered
         /\ \A id \in Ids :
              \/ table'[id] = table[id]
              \/ /\ Is(id, "sending") /\ table'[id].status = "queued"
                 /\ table'[id].key = table[id].key
                 /\ Owners(id) # {} => doubts'[table[id].key] = doubts[table[id].key] + 1
         /\ \A k \in Keys : doubts'[k] >= doubts[k]
<1> USE DEF Sound
<1>1. h \in Workers /\ Moves(h) /\ ~Busy(h) /\ ~Busy(h)' /\ delivered' = delivered
  BY DoneMoves DEF Workers, Status, Busy
<1>2. CASE UNCHANGED <<table, doubts>>
  BY <1>1, <1>2 DEF HistoryOK
<1>3. CASE /\ table' = Recovered
           /\ Doubt({table[id].key : id \in {i \in Ids : Stale(i) /\ Owners(i) # {}}})
  <2>1. ASSUME NEW id \in Ids, table'[id] # table[id]
        PROVE  /\ Stale(id) /\ Is(id, "sending") /\ table'[id].status = "queued"
               /\ table'[id].key = table[id].key
    <3>1. table[id] \in Row
      BY DEF TableOK
    <3>2. QED
      BY <1>3, <2>1, <3>1 DEF Recovered, Stale, Row
  <2>2. ASSUME NEW id \in Ids, table'[id] # table[id], Owners(id) # {}
        PROVE  doubts'[table[id].key] = doubts[table[id].key] + 1
    <3>1. table[id].key \in Keys
      BY <2>1, <2>2 DEF TableOK, Live, Is
    <3>2. table[id].key \in {table[i].key : i \in {i \in Ids : Stale(i) /\ Owners(i) # {}}}
      BY <2>1, <2>2
    <3>3. QED
      BY <1>3, <3>1, <3>2 DEF Doubt
  <2>3. \A k \in Keys : doubts'[k] >= doubts[k]
    BY <1>3 DEF Doubt, HistoryOK
  <2>4. QED
    BY <1>1, <2>1, <2>2, <2>3
<1>4. QED
  BY <1>2, <1>3 DEF Status

\* Every step is one of six kinds.
LEMMA StepKinds ==
  ASSUME Sound, [Next]_vars
  PROVE  \/ Quiet
         \/ \E h \in Handlers : Status(h)
         \/ \E w \in Workers, id \in Ids, a \in Accounts : Claim(w) /\ Takes(w, id, a)
         \/ \E w \in Workers : Send(w)
         \/ \E w \in Workers : MarkRow(w)
         \/ Restart
<1>1. ASSUME NEW w \in Workers, Claim(w)
      PROVE  Quiet \/ \E id \in Ids, a \in Accounts : Takes(w, id, a)
  BY <1>1, ClaimTakes, QuietRest
<1>2. ASSUME NEW h \in Handlers, Handle(h)
      PROVE  Quiet \/ Status(h)
  BY <1>2, QuietHandle
<1>3. QED
  BY <1>1, <1>2, QuietRest DEF Next, Work

-----------------------------------------------------------------------------
(***************************************************************************)
(* "sent" means delivered                                                  *)
(***************************************************************************)

\* A worker about to mark its row "sent" has delivered the message.
MarkedWasSent == \A w \in Workers : pc[w] = "mark" /\ ~loc[w].err => delivered[loc[w].key] > 0

SentOK == SentWasDelivered /\ MarkedWasSent

LEMMA SentStep ==
  ASSUME Sound, SentOK, [Next]_vars
  PROVE  SentOK'
<1> USE DEF SentOK
<1>1. CASE Quiet
  BY <1>1 DEF Quiet, Calm, SentWasDelivered, MarkedWasSent, Is, Busy, history
<1>2. ASSUME NEW h \in Handlers, Status(h) PROVE SentOK'
  <2>1. \A id \in Ids : table'[id] = table[id] \/ table'[id].status = "queued"
    BY <1>2, StatusShape
  <2>2. delivered' = delivered /\ Moves(h) /\ ~Busy(h)'
    BY <1>2, StatusShape
  <2>3. QED
    BY <2>1, <2>2 DEF SentWasDelivered, MarkedWasSent, Is, Moves, Busy
<1>3. ASSUME NEW w \in Workers, NEW id \in Ids, NEW a \in Accounts, Claim(w), Takes(w, id, a)
      PROVE  SentOK'
  <2>1. table'[id].status = "sending" /\ \A o \in Ids \ {id} : table'[o] = table[o]
    BY <1>3, TakesShape
  <2>2. Moves(w) /\ pc'[w] = "send" /\ delivered' = delivered
    BY <1>3, TakesShape DEF Claim, history
  <2>3. QED
    BY <2>1, <2>2 DEF SentWasDelivered, MarkedWasSent, Is, Moves
<1>4. ASSUME NEW w \in Workers, Send(w) PROVE SentOK'
  <2>1. /\ Moves(w) /\ pc'[w] = "mark" /\ loc[w].key \in Keys /\ loc'[w].key = loc[w].key
        /\ table' = table
        /\ Deliver(w) \/ (loc'[w].err = TRUE /\ delivered' = delivered)
    BY <1>4, SendShape DEF history
  <2>2. delivered \in [Keys -> Nat]
    BY DEF Sound, HistoryOK
  <2>3. \A k \in Keys : delivered[k] > 0 => delivered'[k] > 0
    BY <2>1, <2>2 DEF Deliver
  <2>4. SentWasDelivered'
    <3>1. \A id \in Ids : Is(id, "sent") => table[id].key \in Keys
      BY DEF Sound, TableOK, Is, Live
    <3>2. QED
      BY <2>1, <2>3, <3>1 DEF SentWasDelivered, Is
  <2>5. MarkedWasSent'
    <3> SUFFICES ASSUME NEW v \in Workers, pc'[v] = "mark", ~loc'[v].err
                 PROVE  delivered'[loc'[v].key] > 0
      BY DEF MarkedWasSent
    <3>1. CASE v = w
      BY <2>1, <2>2, <3>1 DEF Deliver
    <3>2. CASE v # w
      <4>1. pc'[v] = pc[v] /\ loc'[v] = loc[v]
        BY <2>1, <3>2 DEF Moves
      <4>2. loc[v].key \in Keys
        BY <4>1 DEF Sound, Claimed, Busy, Holds
      <4>3. QED
        BY <2>3, <4>1, <4>2 DEF MarkedWasSent
    <3>3. QED
      BY <3>1, <3>2
  <2>6. QED
    BY <2>4, <2>5
<1>5. ASSUME NEW w \in Workers, MarkRow(w) PROVE SentOK'
  <2>1. /\ Moves(w) /\ pc[w] = "mark" /\ pc'[w] = "claim" /\ loc[w].id \in Ids
        /\ delivered' = delivered
    BY <1>5, MarkShape
  <2>2. MarkedWasSent'
    BY <2>1 DEF MarkedWasSent, Moves
  <2>3. SentWasDelivered'
    <3> SUFFICES ASSUME NEW id \in Ids, table'[id].status = "sent"
                 PROVE  delivered[table'[id].key] > 0
      BY <2>1 DEF SentWasDelivered, Is
    <3>1. CASE table'[id] = table[id]
      BY <3>1 DEF SentWasDelivered, Is
    <3>2. CASE table'[id] # table[id]
      <4> DEFINE st == IF loc[w].err THEN "failed" ELSE "sent"
      <4>1. table' = Mark(loc[w].id, st)
        BY <1>5, <3>2 DEF MarkRow
      <4>2. st \in Statuses
        BY DEF Statuses
      <4> HIDE DEF st
      <4>3. /\ id = loc[w].id /\ Live(id) /\ table'[id].status = st
            /\ table'[id].key = table[id].key
        BY <2>1, <3>2, <4>1, <4>2, MarkRows DEF Sound
      <4>4. ~loc[w].err
        BY <4>3 DEF st
      <4>5. table[id].key = loc[w].key
        BY <2>1, <4>3 DEF Sound, Claimed, Busy, Holds
      <4>6. QED
        BY <2>1, <4>3, <4>4, <4>5 DEF MarkedWasSent
    <3>3. QED
      BY <3>1, <3>2
  <2>4. QED
    BY <2>2, <2>3
<1>6. CASE Restart
  BY <1>6 DEF Restart, SentWasDelivered, MarkedWasSent, Is
<1>7. QED
  BY <1>1, <1>2, <1>3, <1>4, <1>5, <1>6, StepKinds

\* SentWasDelivered: a row says "sent" only if its message was delivered, although
\* markBulkSent overwrites whatever status the row has by then.
THEOREM SentMeansDelivered == Spec => []SentWasDelivered
<1>1. Init => SentOK
  BY NoRowType DEF Init, SentOK, SentWasDelivered, MarkedWasSent, Is, NoRow
<1>2. Sound /\ SentOK /\ [Next]_vars => SentOK'
  BY SentStep
<1>3. SentOK => SentWasDelivered
  BY DEF SentOK
<1>4. QED
  BY SoundAlways, <1>1, <1>2, <1>3, PTL DEF Spec

-----------------------------------------------------------------------------
(***************************************************************************)
(* The claim of a worker is its own                                        *)
(***************************************************************************)

\* While nothing is in doubt about its message, the row of a worker is "sending" for
\* that worker's account, and no other worker has it.
Exclusive ==
  \A w \in Workers : Busy(w) /\ doubts[loc[w].key] = 0 =>
    /\ Is(loc[w].id, "sending") /\ table[loc[w].id].sender = loc[w].uid
    /\ \A v \in Workers : Busy(v) /\ loc[v].id = loc[w].id => v = w

LEMMA ExclusiveStep ==
  ASSUME Sound, Exclusive, [Next]_vars
  PROVE  Exclusive'
<1>0. ASSUME NEW v \in Workers, Busy(v)
      PROVE  loc[v].id \in Ids /\ loc[v].key \in Keys
             /\ (Live(loc[v].id) => table[loc[v].id].key = loc[v].key)
  BY <1>0 DEF Sound, Claimed, Holds
<1>1. CASE Quiet
  <2>1. \A u \in Workers : Busy(u)' => Busy(u) /\ loc'[u].id = loc[u].id
    BY <1>1 DEF Quiet, Busy
  <2> SUFFICES ASSUME NEW v \in Workers, Busy(v)', doubts'[loc'[v].key] = 0
               PROVE  /\ table'[loc'[v].id].status = "sending"
                      /\ table'[loc'[v].id].sender = loc'[v].uid
                      /\ \A u \in Workers : Busy(u)' /\ loc'[u].id = loc'[v].id => u = v
    BY DEF Exclusive, Is
  <2>2. pc'[v] = pc[v] /\ loc'[v] = loc[v] /\ Busy(v) /\ doubts' = doubts
    BY <1>1 DEF Quiet, Busy, history
  <2>3. QED
    BY <1>0, <1>1, <2>1, <2>2 DEF Quiet, Calm, Exclusive, Is
<1>2. ASSUME NEW h \in Handlers, Status(h) PROVE Exclusive'
  <2>1. /\ Moves(h) /\ ~Busy(h) /\ ~Busy(h)'
        /\ \A k \in Keys : doubts'[k] >= doubts[k]
        /\ \A id \in Ids : \/ table'[id] = table[id]
                           \/ Owners(id) # {} => doubts'[table[id].key] = doubts[table[id].key] + 1
    BY <1>2, StatusShape
  <2>2. \A u \in Workers : Busy(u)' => Busy(u) /\ loc'[u].id = loc[u].id
    BY <2>1 DEF Moves, Busy
  <2> SUFFICES ASSUME NEW v \in Workers, Busy(v)', doubts'[loc'[v].key] = 0
               PROVE  /\ table'[loc'[v].id].status = "sending"
                      /\ table'[loc'[v].id].sender = loc'[v].uid
                      /\ \A u \in Workers : Busy(u)' /\ loc'[u].id = loc'[v].id => u = v
    BY DEF Exclusive, Is
  <2>3. pc'[v] = pc[v] /\ loc'[v] = loc[v] /\ Busy(v)
    BY <2>1 DEF Moves, Busy
  <2>4. doubts[loc[v].key] = 0
    BY <1>0, <2>1, <2>3 DEF Sound, HistoryOK
  <2>5. Is(loc[v].id, "sending") /\ table[loc[v].id].sender = loc[v].uid 
        /\ \A u \in Workers : Busy(u) /\ loc[u].id = loc[v].id => u = v
    BY <2>3, <2>4 DEF Exclusive
  <2>6. table[loc[v].id].key = loc[v].key
    BY <1>0, <2>3, <2>5 DEF Live, Is
  <2>7. table'[loc[v].id] = table[loc[v].id]
    <3>1. v \in Owners(loc[v].id)
      BY <2>3 DEF Owners, Busy
    <3>2. QED
      BY <1>0, <2>1, <2>3, <2>4, <2>5, <2>6, <3>1
  <2>8. QED
    BY <2>2, <2>3, <2>5, <2>7 DEF Is
<1>3. ASSUME NEW w \in Workers, NEW id \in Ids, NEW a \in Accounts, Claim(w), Takes(w, id, a)
      PROVE  Exclusive'
  <2>1. /\ Moves(w) /\ pc'[w] = "send"
        /\ loc'[w].id = id /\ loc'[w].key = table[id].key /\ loc'[w].uid = a
        /\ Live(id) /\ table'[id].status = "sending" /\ table'[id].sender = a
        /\ \A o \in Ids \ {id} : table'[o] = table[o]
    BY <1>3, TakesShape
  <2>2. ~Busy(w) /\ doubts' = doubts /\ Is(id, "queued")
    BY <1>3 DEF Claim, Busy, Takes, history
  <2>3. \A u \in Workers \ {w} : Busy(u)' => Busy(u) /\ loc'[u] = loc[u]
    BY <2>1 DEF Moves, Busy
  <2>4. \A u \in Workers : Busy(u) /\ loc[u].id = id => doubts[table[id].key] # 0
    BY <1>0, <2>1, <2>2 DEF Exclusive, Is
  <2> SUFFICES ASSUME NEW v \in Workers, Busy(v)', doubts'[loc'[v].key] = 0
               PROVE  /\ table'[loc'[v].id].status = "sending"
                      /\ table'[loc'[v].id].sender = loc'[v].uid
                      /\ \A u \in Workers : Busy(u)' /\ loc'[u].id = loc'[v].id => u = v
    BY DEF Exclusive, Is
  <2>5. CASE v = w
    <3>1. \A u \in Workers : Busy(u) => loc[u].id # id
      BY <2>1, <2>2, <2>4, <2>5
    <3>2. QED
      BY <2>1, <2>3, <2>5, <3>1
  <2>6. CASE v # w
    <3>1. pc'[v] = pc[v] /\ loc'[v] = loc[v] /\ Busy(v)
      BY <2>1, <2>6 DEF Moves, Busy
    <3>2. Is(loc[v].id, "sending") /\ table[loc[v].id].sender = loc[v].uid 
        /\ \A u \in Workers : Busy(u) /\ loc[u].id = loc[v].id => u = v
      BY <2>2, <3>1 DEF Exclusive
    <3>3. loc[v].id # id /\ loc[v].id \in Ids
      BY <1>0, <2>2, <3>1, <3>2 DEF Is
    <3>4. QED
      BY <2>1, <2>3, <2>6, <3>1, <3>2, <3>3 DEF Is
  <2>7. QED
    BY <2>5, <2>6
<1>4. ASSUME NEW w \in Workers, Send(w) PROVE Exclusive'
  <2>1. /\ Moves(w) /\ pc[w] = "send" /\ pc'[w] = "mark" /\ table' = table /\ loc[w].key \in Keys
        /\ loc'[w].id = loc[w].id /\ loc'[w].key = loc[w].key /\ loc'[w].uid = loc[w].uid
        /\ doubts' = doubts \/ Doubt({loc[w].key})
    BY <1>4, SendShape DEF history
  <2>2. \A k \in Keys : doubts'[k] = 0 => doubts[k] = 0
    BY <2>1 DEF Sound, HistoryOK, Doubt
  <2>3. \A u \in Workers : Busy(u)' => Busy(u) /\ loc'[u].id = loc[u].id
    BY <2>1 DEF Moves, Busy
  <2> SUFFICES ASSUME NEW v \in Workers, Busy(v)', doubts'[loc'[v].key] = 0
               PROVE  /\ table'[loc'[v].id].status = "sending"
                      /\ table'[loc'[v].id].sender = loc'[v].uid
                      /\ \A u \in Workers : Busy(u)' /\ loc'[u].id = loc'[v].id => u = v
    BY DEF Exclusive, Is
  <2>4. /\ Busy(v) /\ loc'[v].id = loc[v].id /\ loc'[v].key = loc[v].key
        /\ loc'[v].uid = loc[v].uid
    BY <2>1 DEF Moves, Busy
  <2>5. doubts[loc[v].key] = 0
    BY <1>0, <2>2, <2>4
  <2>6. QED
    BY <2>1, <2>3, <2>4, <2>5 DEF Exclusive, Is
<1>5. ASSUME NEW w \in Workers, MarkRow(w) PROVE Exclusive'
  <2>1. /\ Moves(w) /\ pc[w] = "mark" /\ pc'[w] = "claim" /\ loc[w].id \in Ids
        /\ loc[w].key \in Keys
    BY <1>5, MarkShape
  <2>2. \A k \in Keys : doubts'[k] = 0 => doubts[k] = 0
    BY <1>5, <2>1 DEF MarkRow, Sound, HistoryOK, Doubt
  <2>3. \A o \in Ids \ {loc[w].id} : table'[o] = table[o]
    BY <1>5, <2>1, MarkRows DEF MarkRow, Statuses, Sound
  <2> SUFFICES ASSUME NEW v \in Workers, Busy(v)', doubts'[loc'[v].key] = 0
               PROVE  /\ table'[loc'[v].id].status = "sending"
                      /\ table'[loc'[v].id].sender = loc'[v].uid
                      /\ \A u \in Workers : Busy(u)' /\ loc'[u].id = loc'[v].id => u = v
    BY DEF Exclusive, Is
  <2>4. /\ v # w /\ loc'[v] = loc[v] /\ Busy(v)
        /\ \A u \in Workers : Busy(u)' => Busy(u) /\ loc'[u] = loc[u]
    BY <2>1 DEF Moves, Busy
  <2>5. Is(loc[v].id, "sending") /\ table[loc[v].id].sender = loc[v].uid 
        /\ \A u \in Workers : Busy(u) /\ loc[u].id = loc[v].id => u = v
    BY <1>0, <2>2, <2>4 DEF Exclusive
  <2>6. loc[v].id # loc[w].id /\ loc[v].id \in Ids
    BY <1>0, <2>1, <2>4, <2>5 DEF Busy
  <2>7. QED
    BY <2>3, <2>4, <2>5, <2>6 DEF Is
<1>6. CASE Restart
  BY <1>6 DEF Restart, Exclusive, Busy
<1>7. QED
  BY <1>1, <1>2, <1>3, <1>4, <1>5, <1>6, StepKinds

\* OnlyClaimedGoOut: while nothing is in doubt about a message, safeSendMessage is
\* called only for a row that is "sending" with that account as its sender, although
\* nothing reads the row again between claimBulkRow and the send.
THEOREM OnlyTheClaimantSends == Spec => OnlyClaimedGoOut
<1>1. Init => Exclusive
  BY DEF Init, Exclusive, Busy
<1>2. Sound /\ Exclusive /\ [Next]_vars => Exclusive'
  BY ExclusiveStep
<1>3. Sound /\ Exclusive /\ [Next]_vars =>
        [\A w \in Workers : Send(w) /\ doubts'[loc[w].key] = 0 =>
           Is(loc[w].id, "sending") /\ table[loc[w].id].sender = loc[w].uid]_vars
  <2> SUFFICES ASSUME Sound, Exclusive, NEW w \in Workers, Send(w), doubts'[loc[w].key] = 0
               PROVE  Is(loc[w].id, "sending") /\ table[loc[w].id].sender = loc[w].uid
    OBVIOUS
  <2>1. pc[w] = "send" /\ loc[w].key \in Keys /\ (doubts' = doubts \/ Doubt({loc[w].key}))
    BY SendShape DEF history
  <2>2. doubts[loc[w].key] = 0
    BY <2>1 DEF Sound, HistoryOK, Doubt
  <2>3. QED
    BY <2>1, <2>2 DEF Exclusive, Busy
<1>4. QED
  BY SoundAlways, <1>1, <1>2, <1>3, PTL DEF Spec, OnlyClaimedGoOut

-----------------------------------------------------------------------------
(***************************************************************************)
(* How often a message goes out                                            *)
(***************************************************************************)

\* Workers that may still deliver the message of key k, or did and returned an
\* error: what they do is not in delivered[k] or is in doubts[k].
Carriers(k) ==
  {w \in Workers : loc[w].key = k /\ (pc[w] = "send" \/ (pc[w] = "mark" /\ loc[w].err))}

\* Nobody can claim the row of k as things stand: it is sent, or a live worker has it.
Settled(k) ==
  \E id \in Ids : /\ table[id].key = k
                  /\ Is(id, "sent") \/ (Is(id, "sending") /\ Owners(id) # {})
Open(k) == IF Settled(k) THEN 0 ELSE 1

\* Deliveries made, under way and still possible are covered by the one the row
\* entitles to and by the doubts.
Covered(k) ==
  /\ IsFiniteSet(Carriers(k))
  /\ delivered[k] + Cardinality(Carriers(k)) + Open(k) <= 1 + doubts[k]
Budget == \A k \in Keys : Covered(k)

\* A worker that does not change what it sends owns what it owned.
LEMMA OwnersKept ==
  ASSUME \A v \in Workers : Busy(v) \/ Busy(v)' => Busy(v) /\ Busy(v)' /\ loc'[v].id = loc[v].id
  PROVE  \A id : Owners(id)' = Owners(id)
BY DEF Owners, Busy

\* The common case: nobody takes up or drops k, and k stays settled or a doubt is added.
LEMMA BudgetKept ==
  ASSUME Sound, HistoryOK', NEW k \in Keys, Covered(k), Carriers(k)' \subseteq Carriers(k),
         delivered'[k] = delivered[k], doubts'[k] >= doubts[k],
         Settled(k) => Settled(k)' \/ doubts'[k] > doubts[k]
                       \/ \E w \in Carriers(k) : w \notin Carriers(k)'
  PROVE  Covered(k)'
<1>1. /\ delivered[k] \in Nat /\ doubts[k] \in Nat /\ doubts'[k] \in Nat
  BY DEF Sound, HistoryOK
<1>2. /\ IsFiniteSet(Carriers(k)') /\ Cardinality(Carriers(k)') \in Nat
      /\ Cardinality(Carriers(k)) \in Nat
      /\ Cardinality(Carriers(k)') <= Cardinality(Carriers(k))
      /\ Cardinality(Carriers(k)') = Cardinality(Carriers(k)) => Carriers(k)' = Carriers(k)
  BY FS_Subset, FS_CardinalityType DEF Covered
<1>3. CASE ~Settled(k) \/ Settled(k)' \/ doubts'[k] > doubts[k]
  BY <1>1, <1>2, <1>3 DEF Covered, Open
<1>4. CASE \E w \in Carriers(k) : w \notin Carriers(k)'
  <2>1. Cardinality(Carriers(k)') < Cardinality(Carriers(k))
    BY <1>2, <1>4
  <2>2. QED
    BY <1>1, <1>2, <2>1 DEF Covered, Open
<1>5. QED
  BY <1>3, <1>4

LEMMA BudgetQuiet ==
  ASSUME Sound, HistoryOK', Budget, Quiet
  PROVE  Budget'
<1> SUFFICES ASSUME NEW k \in Keys PROVE Covered(k)'
  BY DEF Budget
<1>1. \A id : Owners(id)' = Owners(id)
  BY OwnersKept DEF Quiet, Busy
<1>2. Carriers(k)' = Carriers(k)
  BY DEF Carriers, Quiet, Busy
<1>3. Settled(k) => Settled(k)'
  BY <1>1 DEF Settled, Is, Quiet, Calm
<1>4. delivered' = delivered /\ doubts'[k] >= doubts[k]
  BY DEF Quiet, history, Sound, HistoryOK
<1>5. QED
  BY <1>2, <1>3, <1>4, BudgetKept DEF Budget

LEMMA BudgetStatus ==
  ASSUME Sound, HistoryOK', Budget, NEW h \in Handlers, Status(h)
  PROVE  Budget'
<1> SUFFICES ASSUME NEW k \in Keys PROVE Covered(k)'
  BY DEF Budget
<1>1. /\ h \in Workers /\ Moves(h) /\ ~Busy(h) /\ ~Busy(h)' /\ delivered' = delivered
      /\ doubts'[k] >= doubts[k]
  BY StatusShape
<1>2. \A id : Owners(id)' = Owners(id)
  BY <1>1, OwnersKept DEF Moves, Busy
<1>3. Carriers(k)' = Carriers(k)
  BY <1>1 DEF Carriers, Moves, Busy
<1>4. ASSUME NEW id \in Ids, table[id].key = k,
             Is(id, "sent") \/ (Is(id, "sending") /\ Owners(id) # {})
      PROVE  Settled(k)' \/ doubts'[k] > doubts[k]
  <2>1. CASE table'[id] = table[id]
    BY <1>2, <1>4, <2>1 DEF Settled, Is
  <2>2. CASE table'[id] # table[id]
    <3>1. Owners(id) # {} /\ doubts'[k] = doubts[k] + 1
      BY <1>4, <2>2, StatusShape DEF Is
    <3>2. QED
      BY <3>1 DEF Sound, HistoryOK
  <2>3. QED
    BY <2>1, <2>2
<1>5. QED
  BY <1>1, <1>3, <1>4, BudgetKept DEF Budget, Settled

LEMMA BudgetTakes ==
  ASSUME Sound, HistoryOK', Budget, NEW w \in Workers, NEW id \in Ids, NEW a \in Accounts,
         Claim(w), Takes(w, id, a)
  PROVE  Budget'
<1> SUFFICES ASSUME NEW k \in Keys PROVE Covered(k)'
  BY DEF Budget
<1>1. /\ Moves(w) /\ pc'[w] = "send" /\ loc'[w].id = id /\ loc'[w].key = table[id].key
      /\ Live(id) /\ table'[id].status = "sending" /\ table'[id].key = table[id].key
      /\ \A o \in Ids \ {id} : table'[o] = table[o]
  BY TakesShape
<1>2. ~Busy(w) /\ UNCHANGED history /\ Is(id, "queued")
  BY DEF Claim, Busy, Takes
<1>3. \A o \in Ids \ {id} : Owners(o)' = Owners(o)
  BY <1>1, <1>2 DEF Owners, Moves, Busy
<1>4. CASE k # table[id].key
  <2>1. Carriers(k)' = Carriers(k)
    BY <1>1, <1>2, <1>4 DEF Carriers, Moves, Busy
  <2>2. Settled(k) => Settled(k)'
    BY <1>1, <1>3, <1>4 DEF Settled, Is
  <2>3. delivered' = delivered /\ doubts'[k] >= doubts[k]
    BY <1>2 DEF history, Sound, HistoryOK
  <2>4. QED
    BY <2>1, <2>2, <2>3, BudgetKept DEF Budget
<1>5. CASE k = table[id].key
  <2>1. w \notin Carriers(k)
    BY <1>2 DEF Carriers, Busy
  <2>2. Carriers(k)' = Carriers(k) \cup {w}
    BY <1>1, <1>5 DEF Carriers, Moves
  <2>3. IsFiniteSet(Carriers(k)') /\ Cardinality(Carriers(k)') = Cardinality(Carriers(k)) + 1
    BY <2>1, <2>2, FS_AddElement DEF Budget, Covered
  <2>4. ~Settled(k)
    BY <1>1, <1>2, <1>5 DEF Settled, Is, Sound, UniqueKeys, Live
  <2>5. w \in Owners(id)'
    BY <1>1 DEF Owners
  <2>6. Settled(k)'
    BY <1>1, <1>5, <2>5 DEF Settled, Is
  <2>7. Cardinality(Carriers(k)) \in Nat /\ delivered[k] \in Nat /\ doubts[k] \in Nat
    BY FS_CardinalityType DEF Budget, Covered, Sound, HistoryOK
  <2>8. QED
    BY <1>2, <2>3, <2>4, <2>6, <2>7 DEF Budget, Covered, Open, history
<1>6. QED
  BY <1>4, <1>5

LEMMA BudgetSend ==
  ASSUME Sound, HistoryOK', Budget, NEW w \in Workers, Send(w)
  PROVE  Budget'
<1> SUFFICES ASSUME NEW k \in Keys PROVE Covered(k)'
  BY DEF Budget
<1> DEFINE key == loc[w].key
<1>1. /\ Moves(w) /\ pc[w] = "send" /\ pc'[w] = "mark" /\ key \in Keys
      /\ loc'[w].id = loc[w].id /\ loc'[w].key = key /\ table' = table
  BY SendShape
<1>2. \/ Deliver(w) /\ loc'[w].err = FALSE /\ doubts' = doubts
      \/ Deliver(w) /\ loc'[w].err = TRUE /\ Doubt({key})
      \/ delivered' = delivered /\ doubts' = doubts /\ loc'[w].err = TRUE
  BY SendShape DEF history
<1>3. \A id : Owners(id)' = Owners(id)
  BY <1>1, OwnersKept DEF Moves, Busy
<1>4. Settled(k)' = Settled(k)
  BY <1>1, <1>3 DEF Settled, Is
<1>5. /\ Cardinality(Carriers(k)) \in Nat /\ delivered[k] \in Nat /\ doubts[k] \in Nat
      /\ IsFiniteSet(Carriers(k))
      /\ delivered \in [Keys -> Nat] /\ doubts \in [Keys -> Nat]
  BY FS_CardinalityType DEF Budget, Covered, Sound, HistoryOK
<1>6. Open(k)' = Open(k) /\ Open(k) \in {0, 1}
  BY <1>4 DEF Open
<1>7. CASE k # key
  <2>1. Carriers(k)' = Carriers(k)
    BY <1>1, <1>7 DEF Carriers, Moves
  <2>2. delivered'[k] = delivered[k] /\ doubts'[k] = doubts[k]
    BY <1>1, <1>2, <1>5, <1>7 DEF Deliver, Doubt
  <2>3. QED
    BY <1>5, <1>6, <2>1, <2>2 DEF Budget, Covered
<1>8. CASE k = key /\ loc'[w].err = TRUE
  <2>1. Carriers(k)' = Carriers(k)
    BY <1>1, <1>8 DEF Carriers, Moves
  <2>2. \/ delivered'[k] = delivered[k] /\ doubts'[k] = doubts[k]
        \/ delivered'[k] = delivered[k] + 1 /\ doubts'[k] = doubts[k] + 1
    BY <1>1, <1>2, <1>5, <1>8 DEF Deliver, Doubt
  <2>3. QED
    BY <1>5, <1>6, <2>1, <2>2 DEF Budget, Covered
<1>9. CASE k = key /\ loc'[w].err # TRUE
  <2>1. w \in Carriers(k)
    BY <1>1, <1>9 DEF Carriers
  <2>2. Carriers(k)' = Carriers(k) \ {w}
    BY <1>1, <1>2, <1>9 DEF Carriers, Moves
  <2>3. IsFiniteSet(Carriers(k)') /\ Cardinality(Carriers(k)') = Cardinality(Carriers(k)) - 1
    BY <1>5, <2>1, <2>2, FS_RemoveElement
  <2>4. delivered'[k] = delivered[k] + 1 /\ doubts'[k] = doubts[k]
    BY <1>1, <1>2, <1>5, <1>9 DEF Deliver
  <2>5. QED
    BY <1>5, <1>6, <2>3, <2>4 DEF Budget, Covered
<1>10. QED
  BY <1>7, <1>8, <1>9

LEMMA BudgetMark ==
  ASSUME Sound, HistoryOK', Budget, NEW w \in Workers, MarkRow(w)
  PROVE  Budget'
<1> SUFFICES ASSUME NEW k \in Keys PROVE Covered(k)'
  BY DEF Budget
<1> DEFINE id == loc[w].id
<1>1. /\ Moves(w) /\ pc[w] = "mark" /\ pc'[w] = "claim" /\ id \in Ids /\ loc[w].key \in Keys
      /\ delivered' = delivered
  BY MarkShape
<1>2. Live(id) => table[id].key = loc[w].key
  BY <1>1 DEF Sound, Claimed, Busy, Holds
<1>3. Carriers(k)' = Carriers(k) \ {w}
  BY <1>1 DEF Carriers, Moves
<1>4. \A o \in Ids \ {id} : table'[o] = table[o] /\ Owners(o)' = Owners(o)
  <2>1. \A o \in Ids \ {id} : table'[o] = table[o]
    BY <1>1, MarkRows DEF MarkRow, Statuses, Sound
  <2>2. \A o \in Ids \ {id} : Owners(o)' = Owners(o)
    BY <1>1 DEF Owners, Moves
  <2>3. QED
    BY <2>1, <2>2
<1>5. doubts'[k] >= doubts[k]
  BY <1>1 DEF MarkRow, Doubt, Sound, HistoryOK
<1>6. ASSUME Settled(k), ~Settled(k)'
      PROVE  doubts'[k] > doubts[k] \/ \E v \in Carriers(k) : v \notin Carriers(k)'
  <2>1. k = loc[w].key /\ Live(id) /\ table[id].key = k
    BY <1>2, <1>4, <1>6 DEF Settled, Is, Live
  <2>2. CASE loc[w].err
    <3>1. w \in Carriers(k)
      BY <1>1, <2>1, <2>2 DEF Carriers
    <3>2. QED
      BY <1>3, <3>1
  <2>3. CASE ~loc[w].err
    <3>1. CASE table' = Mark(id, "sent")
      <4>1. table'[id].key = k /\ table'[id].status = "sent"
        BY <1>1, <2>1, <3>1, MarkRows DEF Statuses, Sound
      <4>2. QED
        BY <1>1, <1>6, <4>1 DEF Settled, Is
    <3>2. CASE Doubt({loc[w].key})
      BY <2>1, <3>2 DEF Doubt, Sound, HistoryOK
    <3>3. QED
      BY <2>3, <3>1, <3>2 DEF MarkRow
  <2>4. QED
    BY <2>2, <2>3
<1>7. QED
  BY <1>1, <1>3, <1>5, <1>6, BudgetKept DEF Budget

LEMMA BudgetRestart ==
  ASSUME Sound, HistoryOK', Budget, Restart
  PROVE  Budget'
<1> SUFFICES ASSUME NEW k \in Keys PROVE Covered(k)'
  BY DEF Budget
<1>1. Carriers(k)' = {}
  BY DEF Restart, Carriers
<1>2. delivered' = delivered /\ table' = table /\ doubts'[k] >= doubts[k]
  BY DEF Restart, Doubt, Sound, HistoryOK
<1>3. ASSUME Settled(k), ~Settled(k)'
      PROVE  doubts'[k] > doubts[k] \/ \E w \in Carriers(k) : w \notin Carriers(k)'
  <2>1. PICK id \in Ids : table[id].key = k /\ Is(id, "sending") /\ Owners(id) # {}
    BY <1>2, <1>3 DEF Settled, Is
  <2>2. PICK w \in Workers : pc[w] \in {"send", "mark"} /\ loc[w].id = id
    BY <2>1 DEF Owners
  <2>3. loc[w].key = k
    BY <2>1, <2>2 DEF Sound, Claimed, Busy, Holds, Live, Is
  <2>4. CASE w \in Carriers(k)
    BY <1>1, <2>4
  <2>5. CASE w \notin Carriers(k)
    <3>1. pc[w] = "mark" /\ ~loc[w].err
      BY <2>2, <2>3, <2>5 DEF Carriers
    <3>2. k \in {loc[v].key : v \in {v \in Workers : pc[v] = "mark" /\ ~loc[v].err}}
      BY <2>3, <3>1
    <3>3. QED
      BY <3>2 DEF Restart, Doubt, Sound, HistoryOK
  <2>6. QED
    BY <2>4, <2>5
<1>4. QED
  BY <1>1, <1>2, <1>3, BudgetKept DEF Budget

\* DeliveredOnce: a message goes out once, plus at most once for every time the
\* queue could not know of a delivery, whatever workers, requests, recoveries,
\* faults and restarts do.
THEOREM DeliveredAtMostOnce == Spec => []DeliveredOnce
<1>1. Init => Budget
  <2> SUFFICES ASSUME Init, NEW k \in Keys PROVE Covered(k)
    BY DEF Budget
  <2>1. Carriers(k) = {}
    BY DEF Init, Carriers
  <2>2. QED
    BY <2>1, FS_EmptySet DEF Init, Covered, Open
<1>2. Sound /\ Budget /\ Sound' /\ [Next]_vars => Budget'
  <2> SUFFICES ASSUME Sound, Budget, Sound', [Next]_vars PROVE Budget'
    OBVIOUS
  <2>1. HistoryOK'
    BY DEF Sound
  <2>2. QED
    BY <2>1, StepKinds, BudgetQuiet, BudgetStatus, BudgetTakes, BudgetSend, BudgetMark,
       BudgetRestart
<1>3. Sound /\ Budget => DeliveredOnce
  <2> SUFFICES ASSUME Sound, Budget, NEW k \in Keys PROVE delivered[k] <= 1 + doubts[k]
    BY DEF DeliveredOnce
  <2>1. /\ Cardinality(Carriers(k)) \in Nat /\ delivered[k] \in Nat /\ doubts[k] \in Nat
        /\ Open(k) \in Nat
    BY FS_CardinalityType DEF Budget, Covered, Sound, HistoryOK, Open
  <2>2. QED
    BY <2>1 DEF Budget, Covered
<1>4. QED
  BY SoundAlways, <1>1, <1>2, <1>3, PTL DEF Spec

=============================================================================
