--------------------------- MODULE SafeSendProofs ---------------------------
(***************************************************************************)
(* Proofs about SafeSend: its types and the Session mutex, for any         *)
(* number of senders, Sessions and processes, and the cooldown, the hourly *)
(* and daily limits and the pause after a 429, for the senders of one      *)
(* Session.                                                                *)
(***************************************************************************)
EXTENDS SafeSend, FiniteSetTheorems, TLAPS

\* A sender's message is one of those WhatsApp accepted.
MineOK ==
  \A s \in Senders :
    /\ mine[s] \in 0..Len(sends)
    /\ pc[s] \in {"record", "commit", "post"} => mine[s] > 0

TypeInv == TypeOK /\ MineOK

-----------------------------------------------------------------------------
(***************************************************************************)
(* Lemmas about the operators                                              *)
(***************************************************************************)

\* settingInt: whatever is stored, the result is in the setting's range.
LEMMA SettingIntInRange ==
  ASSUME NEW r, Spread(r), NEW v \in Raw
  PROVE  SettingInt(v, r) \in r.min..r.max
BY RangesAssumption DEF SettingInt, Spread, Raw

\* The limits read from admin_settings are limits in range.
LEMMA ReadLimitsType ==
  ASSUME settings \in Settings
  PROVE  ReadLimits \in Limits /\ ReadLimits.on = settings.on
<1>1. SettingInt(settings.interval, Interval) \in Interval.min..Interval.max
  BY SettingIntInRange, RangesAssumption DEF Settings
<1>2. SettingInt(settings.hour, PerHour) \in PerHour.min..PerHour.max
  BY SettingIntInRange, RangesAssumption DEF Settings
<1>3. SettingInt(settings.day, PerDay) \in PerDay.min..PerDay.max
  BY SettingIntInRange, RangesAssumption DEF Settings
<1>4. QED
  BY <1>1, <1>2, <1>3 DEF ReadLimits, Limits, Settings

LEMMA NoLimitsType == NoLimits \in Limits /\ ~NoLimits.on
BY RangesAssumption DEF NoLimits, Limits, Spread

\* The row recordMessageSafety writes is a row, and its last_sent_at is the time
\* of the update.
LEMMA RecordedType ==
  ASSUME row \in Row, NEW t \in Time
  PROVE  Recorded(t) \in Row /\ Recorded(t).exists /\ Recorded(t).last = t
BY TimeAssumption DEF Recorded, Row, HourCount, DayCount, Time

\* Flagging one message as recorded leaves everything else of the history alone.
LEMMA FlagRecorded ==
  ASSUME NEW q \in Seq(Message), NEW i \in 1..Len(q),
         NEW r, r = [q EXCEPT ![i].recorded = TRUE]
  PROVE  /\ r \in Seq(Message) /\ Len(r) = Len(q)
         /\ \A j \in 1..Len(q) : r[j].at = q[j].at
         /\ \A j \in 1..Len(q) : r[j].checked <=> q[j].checked
         /\ \A j \in 1..Len(q) : j # i => r[j] = q[j]
<1>1. q[i] \in Message
  OBVIOUS
<1>2. [q[i] EXCEPT !.recorded = TRUE] \in Message
  BY <1>1 DEF Message
<1>3. r = [q EXCEPT ![i] = [q[i] EXCEPT !.recorded = TRUE]]
  OBVIOUS
<1>4. r \in Seq(Message) /\ Len(r) = Len(q)
  BY <1>2, <1>3
<1>5. ASSUME NEW j \in 1..Len(q)
      PROVE  /\ r[j].at = q[j].at /\ (r[j].checked <=> q[j].checked)
             /\ j # i => r[j] = q[j]
  BY <1>1, <1>3, <1>5 DEF Message
<1>6. QED
  BY <1>4, <1>5

\* A message that is appended becomes the last one.
LEMMA AppendMessage ==
  ASSUME NEW q \in Seq(Message), NEW m \in Message
  PROVE  /\ Append(q, m) \in Seq(Message) /\ Len(Append(q, m)) = Len(q) + 1
         /\ \A j \in 1..Len(q) : Append(q, m)[j] = q[j]
         /\ Append(q, m)[Len(q) + 1] = m
OBVIOUS

-----------------------------------------------------------------------------
(***************************************************************************)
(* Types                                                                   *)
(***************************************************************************)

LEMMA TypeInit == Init => TypeInv
<1> SUFFICES ASSUME Init PROVE TypeInv
  OBVIOUS
<1> USE DEF Init
<1>1. row \in Row
  BY TimeAssumption DEF NoRow, Row, Time
<1>2. lim \in [Senders -> Limits]
  BY NoLimitsType
<1>3. settings \in Settings
  BY DEF Settings, Raw
<1>4. now \in Time /\ at \in [Senders -> Time]
  BY TimeAssumption DEF Time
<1>5. pc \in [Senders -> Outside \cup Inside] /\ mu \in [Sessions -> Senders \cup {NoOne}]
  BY DEF Outside, Inside
<1>6. paused \in [Procs -> Int] /\ sends \in Seq(Message) /\ mine \in [Senders -> Nat]
  OBVIOUS
<1>7. MineOK
  BY <1>6 DEF MineOK
<1>8. QED
  BY <1>1, <1>2, <1>3, <1>4, <1>5, <1>6, <1>7 DEF TypeInv, TypeOK

\* What a sender does to its own locals when it returns or goes on.
LEMMA ReturnType ==
  ASSUME TypeInv, NEW s \in Senders, Return(s), UNCHANGED sends
  PROVE  /\ pc' \in [Senders -> Outside \cup Inside] /\ mu' \in [Sessions -> Senders \cup {NoOne}]
         /\ at' \in [Senders -> Time] /\ lim' \in [Senders -> Limits]
         /\ mine' \in [Senders -> Nat] /\ MineOK'
<1> USE SendersAssumption DEF TypeInv, TypeOK, Return, Forget, Goto
<1>1. pc' \in [Senders -> Outside \cup Inside] /\ mu' \in [Sessions -> Senders \cup {NoOne}]
  BY DEF Outside
<1>2. at' \in [Senders -> Time] /\ lim' \in [Senders -> Limits]
  BY NoLimitsType, TimeAssumption DEF Time
<1>3. mine' \in [Senders -> Nat]
  OBVIOUS
<1>4. MineOK'
  BY DEF MineOK
<1>5. QED
  BY <1>1, <1>2, <1>3, <1>4

LEMMA ProceedType ==
  ASSUME TypeInv, NEW s \in Senders, NEW where \in Inside \ {"record", "commit", "post"},
         Goto(s, where), UNCHANGED <<sends, mine>>
  PROVE  pc' \in [Senders -> Outside \cup Inside] /\ MineOK'
BY DEF TypeInv, TypeOK, Goto, MineOK, Inside

LEMMA TypeStep == TypeInv /\ [Next]_vars => TypeInv'
<1> SUFFICES ASSUME TypeInv, [Next]_vars PROVE TypeInv'
  OBVIOUS
<1> USE DEF TypeInv
<1>1. ASSUME NEW s \in Senders, Request(s) PROVE TypeInv'
  <2>1. pc' \in [Senders -> Outside \cup Inside]
    BY <1>1 DEF Request, Goto, TypeOK, Outside
  <2>2. MineOK'
    BY <1>1 DEF Request, Goto, TypeOK, MineOK
  <2>3. QED
    BY <1>1, <2>1, <2>2 DEF Request, TypeOK
<1>2. ASSUME NEW s \in Senders, Lock(s) PROVE TypeInv'
  <2>1. pc' \in [Senders -> Outside \cup Inside] /\ MineOK'
    BY <1>2, ProceedType DEF Lock, Inside
  <2>2. mu' \in [Sessions -> Senders \cup {NoOne}]
    BY <1>2, SendersAssumption DEF Lock, TypeOK
  <2>3. QED
    BY <1>2, <2>1, <2>2 DEF Lock, TypeOK
<1>3. ASSUME NEW s \in Senders, Enter(s) PROVE TypeInv'
  <2>1. CASE Return(s)
    BY <1>3, <2>1, ReturnType DEF Enter, TypeOK
  <2>2. CASE Proceed(s, "check") /\ UNCHANGED mine
    <3>1. pc' \in [Senders -> Outside \cup Inside] /\ MineOK'
      BY <1>3, <2>2, ProceedType DEF Enter, Proceed, Inside
    <3>2. QED
      BY <1>3, <2>2, <3>1 DEF Enter, Proceed, TypeOK
  <2>3. QED
    BY <1>3, <2>1, <2>2 DEF Enter
<1>4. ASSUME NEW s \in Senders, CheckBegin(s) PROVE TypeInv'
  <2>1. pc' \in [Senders -> Outside \cup Inside] /\ MineOK'
    BY <1>4, ProceedType DEF CheckBegin, Inside
  <2>2. lim' \in [Senders -> Limits] /\ at' \in [Senders -> Time]
    BY <1>4, ReadLimitsType DEF CheckBegin, TypeOK
  <2>3. QED
    BY <1>4, <2>1, <2>2 DEF CheckBegin, TypeOK
<1>5. ASSUME NEW s \in Senders, CheckRow(s) PROVE TypeInv'
  <2>1. CASE Return(s)
    BY <1>5, <2>1, ReturnType DEF CheckRow, TypeOK
  <2>2. CASE Proceed(s, "health") /\ UNCHANGED mine
    <3>1. pc' \in [Senders -> Outside \cup Inside] /\ MineOK'
      BY <1>5, <2>2, ProceedType DEF CheckRow, Proceed, Inside
    <3>2. QED
      BY <1>5, <2>2, <3>1 DEF CheckRow, Proceed, TypeOK
  <2>3. QED
    BY <1>5, <2>1, <2>2 DEF CheckRow
<1>6. ASSUME NEW s \in Senders, Health(s) PROVE TypeInv'
  <2>1. CASE Return(s)
    BY <1>6, <2>1, ReturnType DEF Health, TypeOK
  <2>2. CASE Proceed(s, "resolve") /\ UNCHANGED mine
    <3>1. pc' \in [Senders -> Outside \cup Inside] /\ MineOK'
      BY <1>6, <2>2, ProceedType DEF Health, Proceed, Inside
    <3>2. QED
      BY <1>6, <2>2, <3>1 DEF Health, Proceed, TypeOK
  <2>3. QED
    BY <1>6, <2>1, <2>2 DEF Health
<1>7. ASSUME NEW s \in Senders, Resolve(s) PROVE TypeInv'
  <2>1. paused' \in [Procs -> Int]
    BY <1>7, TimeAssumption DEF Resolve, Pause, TypeOK, Time
  <2>2. CASE Return(s)
    BY <1>7, <2>1, <2>2, ReturnType DEF Resolve, TypeOK
  <2>3. CASE Proceed(s, "send") /\ UNCHANGED <<mine, paused>>
    <3>1. pc' \in [Senders -> Outside \cup Inside] /\ MineOK'
      BY <1>7, <2>3, ProceedType DEF Resolve, Proceed, Inside
    <3>2. QED
      BY <1>7, <2>3, <3>1 DEF Resolve, Proceed, TypeOK
  <2>4. QED
    BY <1>7, <2>2, <2>3 DEF Resolve
<1>8. ASSUME NEW s \in Senders, Send(s) PROVE TypeInv'
  <2>1. CASE UNCHANGED <<sends, mine>>
    <3>1. pc' \in [Senders -> Outside \cup Inside] /\ MineOK'
      BY <1>8, <2>1, ProceedType DEF Send, Proceed, Inside
    <3>2. QED
      BY <1>8, <2>1, <3>1 DEF Send, Proceed, TypeOK
  <2>2. CASE /\ sends' = Append(sends, [at |-> now, checked |-> lim[s].on, recorded |-> FALSE])
             /\ mine' = [mine EXCEPT ![s] = Len(sends) + 1]
    <3>1. [at |-> now, checked |-> lim[s].on, recorded |-> FALSE] \in Message
      BY DEF TypeOK, Message, Limits
    <3>2. sends' \in Seq(Message) /\ Len(sends') = Len(sends) + 1 /\ Len(sends) \in Nat
      BY <2>2, <3>1, AppendMessage DEF TypeOK
    <3>3. pc' \in [Senders -> Outside \cup Inside]
      BY <1>8 DEF Send, Proceed, Goto, Inside, TypeOK
    <3>4. mine' \in [Senders -> Nat] /\ MineOK'
      BY <1>8, <2>2, <3>2 DEF MineOK, TypeOK, Send, Proceed, Goto
    <3>5. QED
      BY <1>8, <3>2, <3>3, <3>4 DEF Send, Proceed, TypeOK
  <2>3. QED
    BY <1>8, <2>1, <2>2 DEF Send
<1>9. ASSUME NEW s \in Senders, Await(s) PROVE TypeInv'
  <2>1. paused' \in [Procs -> Int]
    BY <1>9, TimeAssumption DEF Await, Pause, TypeOK, Time
  <2>2. CASE Return(s)
    BY <1>9, <2>1, <2>2, ReturnType DEF Await, TypeOK
  <2>3. CASE mine[s] > 0 /\ Proceed(s, "record") /\ UNCHANGED <<mine, paused>>
    <3>1. pc' \in [Senders -> Outside \cup Inside]
      BY <2>3 DEF Proceed, Goto, Inside, TypeOK
    <3>2. MineOK'
      BY <1>9, <2>3 DEF Await, Proceed, Goto, TypeOK, MineOK
    <3>3. QED
      BY <1>9, <2>3, <3>1, <3>2 DEF Await, Proceed, TypeOK
  <2>4. QED
    BY <1>9, <2>2, <2>3 DEF Await
<1>10. ASSUME NEW s \in Senders, RecordBegin(s) PROVE TypeInv'
  <2>1. pc' \in [Senders -> Outside \cup Inside] /\ at' \in [Senders -> Time]
    BY <1>10 DEF RecordBegin, Goto, Inside, TypeOK
  <2>2. MineOK'
    BY <1>10 DEF RecordBegin, Goto, TypeOK, MineOK
  <2>3. QED
    BY <1>10, <2>1, <2>2 DEF RecordBegin, TypeOK
<1>11. ASSUME NEW s \in Senders, RecordCommit(s) PROVE TypeInv'
  <2>1. pc' \in [Senders -> Outside \cup Inside]
    BY <1>11 DEF RecordCommit, Proceed, Goto, Inside, TypeOK
  <2>2. mine[s] \in 1..Len(sends)
    BY <1>11 DEF RecordCommit, MineOK, TypeOK
  <2>3. row' \in Row
    BY <1>11, RecordedType DEF RecordCommit, TypeOK
  <2>4. sends' \in Seq(Message) /\ Len(sends') = Len(sends)
    <3>1. CASE UNCHANGED sends
      BY <3>1 DEF TypeOK
    <3>2. CASE sends' = [sends EXCEPT ![mine[s]].recorded = TRUE]
      BY <2>2, <3>2, FlagRecorded DEF TypeOK
    <3>3. QED
      BY <1>11, <3>1, <3>2 DEF RecordCommit
  <2>5. MineOK'
    BY <1>11, <2>2, <2>4 DEF RecordCommit, Proceed, Goto, TypeOK, MineOK
  <2>6. QED
    BY <1>11, <2>1, <2>3, <2>4, <2>5 DEF RecordCommit, Proceed, TypeOK
<1>12. ASSUME NEW s \in Senders, Post(s) PROVE TypeInv'
  BY <1>12, ReturnType DEF Post, TypeOK
<1>13. ASSUME SaveSettings PROVE TypeInv'
  <2>1. settings' \in Settings
    BY <1>13 DEF SaveSettings, TypeOK, Settings, Raw
  <2>2. QED
    BY <1>13, <2>1 DEF SaveSettings, TypeOK, MineOK
<1>14. ASSUME NEW p \in Procs, Restart(p) PROVE TypeInv'
  <2>1. pc' \in [Senders -> Outside \cup Inside] /\ mu' \in [Sessions -> Senders \cup {NoOne}]
    BY <1>14 DEF Restart, Outside, TypeOK
  <2>2. at' \in [Senders -> Time] /\ lim' \in [Senders -> Limits]
    BY <1>14, NoLimitsType, TimeAssumption DEF Restart, TypeOK, Time
  <2>3. mine' \in [Senders -> Nat] /\ paused' \in [Procs -> Int]
    BY <1>14 DEF Restart, TypeOK
  <2>4. MineOK'
    BY <1>14 DEF Restart, MineOK, TypeOK
  <2>5. QED
    BY <1>14, <2>1, <2>2, <2>3, <2>4 DEF Restart, TypeOK
<1>15. ASSUME Tick PROVE TypeInv'
  BY <1>15, TimeAssumption DEF Tick, TypeOK, MineOK, Time
<1>16. ASSUME UNCHANGED vars PROVE TypeInv'
  BY <1>16 DEF vars, TypeOK, MineOK
<1>17. QED
  BY <1>1, <1>2, <1>3, <1>4, <1>5, <1>6, <1>7, <1>8, <1>9, <1>10, <1>11, <1>12, <1>13,
     <1>14, <1>15, <1>16 DEF Next, Step

\* Every variable keeps its type, and a limit in force is always in the range
\* settingInt promises, whatever is stored and however many goroutines run.
THEOREM TypeCorrect == Spec => []TypeOK
<1>1. TypeInv => TypeOK
  BY DEF TypeInv
<1>2. QED
  BY TypeInit, TypeStep, <1>1, PTL DEF Spec

-----------------------------------------------------------------------------
(***************************************************************************)
(* The Session mutex                                                       *)
(***************************************************************************)

\* Steps that do not change who is inside keep the mutex consistent; so do the
\* step that takes a free mutex and the one that gives it back.
LEMMA MutexStay ==
  ASSUME TypeInv, MutualExclusion, NEW s \in Senders, NEW where \in Inside,
         pc[s] \in Inside, Goto(s, where), UNCHANGED mu
  PROVE  MutualExclusion'
BY DEF TypeInv, TypeOK, MutualExclusion, Goto

LEMMA MutexReturn ==
  ASSUME TypeInv, MutualExclusion, NEW s \in Senders, pc[s] \in Inside, Return(s)
  PROVE  MutualExclusion'
BY SendersAssumption DEF TypeInv, TypeOK, MutualExclusion, Return, Forget, Goto, Inside

LEMMA MutexStep == TypeInv /\ MutualExclusion /\ [Next]_vars => MutualExclusion'
<1> SUFFICES ASSUME TypeInv, MutualExclusion, [Next]_vars PROVE MutualExclusion'
  OBVIOUS
<1>1. ASSUME NEW s \in Senders, Request(s) PROVE MutualExclusion'
  BY <1>1 DEF Request, Goto, MutualExclusion, Inside, TypeInv, TypeOK
<1>2. ASSUME NEW s \in Senders, Lock(s) PROVE MutualExclusion'
  <2>1. SessionOf[s] \in Sessions /\ mu[SessionOf[s]] = NoOne
    BY <1>2, SendersAssumption DEF Lock
  <2>2. ASSUME NEW t \in Senders PROVE pc'[t] \in Inside <=> mu'[SessionOf[t]] = t
    <3>1. CASE t = s
      BY <1>2, <2>1, <3>1 DEF Lock, Goto, Inside, TypeInv, TypeOK
    <3>2. CASE t # s /\ SessionOf[t] = SessionOf[s]
      <4>1. pc'[t] = pc[t] /\ mu'[SessionOf[t]] = s
        BY <1>2, <2>1, <3>2 DEF Lock, Goto, TypeInv, TypeOK
      <4>2. pc[t] \notin Inside
        BY <2>1, <3>2, SendersAssumption DEF MutualExclusion
      <4>3. QED
        BY <3>2, <4>1, <4>2
    <3>3. CASE t # s /\ SessionOf[t] # SessionOf[s]
      <4>1. pc'[t] = pc[t] /\ mu'[SessionOf[t]] = mu[SessionOf[t]]
        BY <1>2, <2>1, <3>3, SendersAssumption DEF Lock, Goto, TypeInv, TypeOK
      <4>2. QED
        BY <4>1 DEF MutualExclusion
    <3>4. QED
      BY <3>1, <3>2, <3>3
  <2>3. QED
    BY <2>2 DEF MutualExclusion
<1>3. ASSUME NEW s \in Senders, Enter(s) PROVE MutualExclusion'
  BY <1>3, MutexStay, MutexReturn DEF Enter, Proceed, Inside
<1>4. ASSUME NEW s \in Senders, CheckBegin(s) PROVE MutualExclusion'
  BY <1>4, MutexStay DEF CheckBegin, Inside
<1>5. ASSUME NEW s \in Senders, CheckRow(s) PROVE MutualExclusion'
  BY <1>5, MutexStay, MutexReturn DEF CheckRow, Proceed, Inside
<1>6. ASSUME NEW s \in Senders, Health(s) PROVE MutualExclusion'
  BY <1>6, MutexStay, MutexReturn DEF Health, Proceed, Inside
<1>7. ASSUME NEW s \in Senders, Resolve(s) PROVE MutualExclusion'
  BY <1>7, MutexStay, MutexReturn DEF Resolve, Proceed, Inside
<1>8. ASSUME NEW s \in Senders, Send(s) PROVE MutualExclusion'
  BY <1>8, MutexStay DEF Send, Proceed, Inside
<1>9. ASSUME NEW s \in Senders, Await(s) PROVE MutualExclusion'
  BY <1>9, MutexStay, MutexReturn DEF Await, Proceed, Inside
<1>10. ASSUME NEW s \in Senders, RecordBegin(s) PROVE MutualExclusion'
  BY <1>10, MutexStay DEF RecordBegin, Inside
<1>11. ASSUME NEW s \in Senders, RecordCommit(s) PROVE MutualExclusion'
  BY <1>11, MutexStay DEF RecordCommit, Proceed, Inside
<1>12. ASSUME NEW s \in Senders, Post(s) PROVE MutualExclusion'
  BY <1>12, MutexReturn DEF Post, Inside
<1>13. ASSUME NEW p \in Procs, Restart(p) PROVE MutualExclusion'
  BY <1>13, SendersAssumption DEF Restart, Dies, MutualExclusion, Inside, TypeInv, TypeOK
<1>14. ASSUME SaveSettings \/ Tick \/ UNCHANGED vars PROVE MutualExclusion'
  BY <1>14 DEF SaveSettings, Tick, vars, MutualExclusion
<1>15. QED
  BY <1>1, <1>2, <1>3, <1>4, <1>5, <1>6, <1>7, <1>8, <1>9, <1>10, <1>11, <1>12, <1>13,
     <1>14 DEF Next, Step

\* Whatever the senders, Sessions and processes: a goroutine inside safeSendMessage
\* holds its Session's mutex and no other does, through every error path and crash.
THEOREM Mutex == Spec => []MutualExclusion
<1>1. Init => MutualExclusion
  BY SendersAssumption DEF Init, MutualExclusion, Inside
<1>2. QED
  BY TypeInit, TypeStep, MutexStep, <1>1, PTL DEF Spec

-----------------------------------------------------------------------------
(***************************************************************************)
(* The cooldown                                                            *)
(***************************************************************************)

\* All senders of the account use one Session.
OneSession == \A s, t \in Senders : SessionOf[s] = SessionOf[t]

\* Every recorded message is covered by the row, and the row is not from the future.
RowCovers ==
  \A i \in 1..Len(sends) :
    /\ sends[i].at <= now
    /\ sends[i].recorded => row.exists /\ sends[i].at <= row.last

\* What the sender inside knows: the time it captured has passed; once it passed the
\* check its message may leave; its own message is the last; and when it records
\* it, every message has left.
Clear == \A i \in 1..Len(sends) : sends[i].recorded => now - sends[i].at >= Interval.min
HolderKnows ==
  \A s \in Senders :
    /\ pc[s] \in {"limits", "commit"} => at[s] <= now
    /\ pc[s] = "limits" => lim[s].on
    /\ pc[s] \in {"health", "resolve", "send"} /\ lim[s].on => Clear
    /\ pc[s] \in {"await", "record", "commit"} /\ mine[s] > 0 => mine[s] = Len(sends)
    /\ pc[s] \notin {"await", "record", "commit", "post"} => mine[s] = 0
    /\ pc[s] = "commit" => \A i \in 1..Len(sends) : sends[i].at <= at[s]

SpacedInv == TypeInv /\ MutualExclusion /\ RowCovers /\ HolderKnows /\ SpacedSends

\* The messages of the history have a time.
LEMMA HistoryType ==
  ASSUME TypeInv, NEW i \in 1..Len(sends)
  PROVE  sends[i] \in Message /\ sends[i].at \in Int
<1>1. sends[i] \in Message
  BY DEF TypeInv, TypeOK
<1>2. QED
  BY <1>1, TimeAssumption DEF Message, Time

\* With one Session only one sender is inside.
LEMMA OnlyOneInside ==
  ASSUME OneSession, MutualExclusion,
         NEW s \in Senders, NEW t \in Senders, pc[s] \in Inside, pc[t] \in Inside
  PROVE  s = t
BY DEF OneSession, MutualExclusion

\* A step that leaves the history, the row and the clock alone.
LEMMA SameHistory ==
  ASSUME SpacedInv, UNCHANGED <<now, row, sends>>
  PROVE  RowCovers' /\ SpacedSends' /\ (Clear => Clear')
BY DEF SpacedInv, RowCovers, SpacedSends, Clear

\* Returning puts a sender outside, where it knows nothing.
LEMMA ReturnKnows ==
  ASSUME SpacedInv, NEW s \in Senders, Return(s), UNCHANGED <<now, row, sends>>
  PROVE  HolderKnows'
BY SameHistory DEF SpacedInv, TypeInv, TypeOK, HolderKnows, Return, Forget, Goto, Clear

\* Going on to a step at which the sender knows nothing new.
LEMMA StayKnows ==
  ASSUME SpacedInv, NEW s \in Senders, NEW where, Goto(s, where),
         UNCHANGED <<now, row, sends, at, lim, mine>>,
         \/ pc[s] \in {"idle", "lock", "enter"} /\ where \in {"lock", "enter", "check"}
         \/ where = "post"
         \/ pc[s] \in {"health", "resolve"} /\ where \in {"resolve", "send"}
         \/ pc[s] = "await" /\ where = "record"
  PROVE  HolderKnows'
BY SameHistory DEF SpacedInv, TypeInv, TypeOK, HolderKnows, Goto, Clear

LEMMA SpacedStep == OneSession /\ SpacedInv /\ [Next]_vars => RowCovers' /\ HolderKnows' /\ SpacedSends'
<1> SUFFICES ASSUME OneSession, SpacedInv, [Next]_vars
             PROVE  RowCovers' /\ HolderKnows' /\ SpacedSends'
  OBVIOUS
<1> DEFINE Goal == RowCovers' /\ HolderKnows' /\ SpacedSends'
<1>1. ASSUME NEW s \in Senders, Request(s) PROVE Goal
  BY <1>1, SameHistory, StayKnows DEF Request
<1>2. ASSUME NEW s \in Senders, Lock(s) PROVE Goal
  BY <1>2, SameHistory, StayKnows DEF Lock
<1>3. ASSUME NEW s \in Senders, Enter(s) PROVE Goal
  BY <1>3, SameHistory, StayKnows, ReturnKnows DEF Enter, Proceed
<1>4. ASSUME NEW s \in Senders, CheckBegin(s) PROVE Goal
  <2>1. RowCovers' /\ SpacedSends' /\ (Clear => Clear')
    BY <1>4, SameHistory DEF CheckBegin
  <2>2. ReadLimits.on = settings.on /\ now \in Int
    BY ReadLimitsType, TimeAssumption DEF SpacedInv, TypeInv, TypeOK, Time
  <2>3. HolderKnows'
    BY <1>4, <2>1, <2>2 DEF CheckBegin, Goto, HolderKnows, SpacedInv, TypeInv, TypeOK, Clear
  <2>4. QED
    BY <2>1, <2>3
<1>5. ASSUME NEW s \in Senders, CheckRow(s) PROVE Goal
  <2>1. RowCovers' /\ SpacedSends' /\ (Clear => Clear')
    BY <1>5, SameHistory DEF CheckRow
  <2>2. CASE Return(s)
    BY <1>5, <2>1, <2>2, ReturnKnows DEF CheckRow
  <2>3. CASE ~Blocked(lim[s], at[s]) /\ Proceed(s, "health") /\ UNCHANGED mine
    <3>1. lim[s].interval \in Int /\ lim[s].interval >= Interval.min /\ Interval.min \in Int
      BY RangesAssumption DEF SpacedInv, TypeInv, TypeOK, Limits, Spread
    <3>2. at[s] \in Int /\ now \in Int /\ row.last \in Int /\ at[s] <= now
      BY <1>5, TimeAssumption DEF CheckRow, SpacedInv, TypeInv, TypeOK, HolderKnows, Time, Row
    <3>3. row.exists => at[s] - row.last >= lim[s].interval
      BY <2>3, <3>1, <3>2 DEF Blocked
    <3>4. ASSUME NEW i \in 1..Len(sends), sends[i].recorded PROVE now - sends[i].at >= Interval.min
      <4>1. row.exists /\ sends[i].at <= row.last /\ sends[i].at \in Int
        BY <3>4, HistoryType DEF SpacedInv, RowCovers
      <4>2. QED
        BY <3>1, <3>2, <3>3, <4>1
    <3>5. Clear
      BY <3>4 DEF Clear
    <3>6. HolderKnows'
      BY <1>5, <2>1, <2>3, <3>5 DEF CheckRow, Proceed, Goto, HolderKnows, SpacedInv, TypeInv, TypeOK
    <3>7. QED
      BY <2>1, <3>6
  <2>4. QED
    BY <1>5, <2>2, <2>3 DEF CheckRow
<1>6. ASSUME NEW s \in Senders, Health(s) PROVE Goal
  BY <1>6, SameHistory, StayKnows, ReturnKnows DEF Health, Proceed
<1>7. ASSUME NEW s \in Senders, Resolve(s) PROVE Goal
  BY <1>7, SameHistory, StayKnows, ReturnKnows DEF Resolve, Proceed
<1>8. ASSUME NEW s \in Senders, Send(s) PROVE Goal
  <2>1. \A t \in Senders : t # s => pc[t] \notin Inside
    BY <1>8, OnlyOneInside DEF Send, Inside, SpacedInv
  <2>2. CASE UNCHANGED <<sends, mine>>
    <3>1. RowCovers' /\ SpacedSends' /\ (Clear => Clear')
      BY <1>8, <2>2, SameHistory DEF Send
    <3>2. mine[s] = 0
      BY <1>8 DEF Send, SpacedInv, HolderKnows
    <3>3. HolderKnows'
      BY <1>8, <2>1, <2>2, <3>1, <3>2 DEF Send, Proceed, Goto, HolderKnows, SpacedInv, TypeInv, TypeOK, Inside
    <3>4. QED
      BY <3>1, <3>3
  <2>3. CASE /\ sends' = Append(sends, [at |-> now, checked |-> lim[s].on, recorded |-> FALSE])
             /\ mine' = [mine EXCEPT ![s] = Len(sends) + 1]
    <3>1. /\ Len(sends) \in Nat /\ Len(sends') = Len(sends) + 1
          /\ \A j \in 1..Len(sends) : sends'[j] = sends[j]
          /\ sends'[Len(sends) + 1] = [at |-> now, checked |-> lim[s].on, recorded |-> FALSE]
      <4>1. [at |-> now, checked |-> lim[s].on, recorded |-> FALSE] \in Message
        BY DEF SpacedInv, TypeInv, TypeOK, Message, Limits
      <4>2. QED
        BY <2>3, <4>1, AppendMessage DEF SpacedInv, TypeInv, TypeOK
    <3>2. now \in Int /\ now' = now /\ row' = row
      BY <1>8, TimeAssumption DEF Send, SpacedInv, TypeInv, TypeOK, Time
    <3>3. RowCovers'
      <4>1. ASSUME NEW i \in 1..Len(sends')
            PROVE  sends'[i].at <= now' /\ (sends'[i].recorded => row'.exists /\ sends'[i].at <= row'.last)
        <5>1. CASE i \in 1..Len(sends)
          BY <3>1, <3>2, <5>1 DEF SpacedInv, RowCovers
        <5>2. CASE i = Len(sends) + 1
          BY <3>1, <3>2, <5>2
        <5>3. QED
          BY <3>1, <4>1, <5>1, <5>2
      <4>2. QED
        BY <4>1 DEF RowCovers
    <3>4. SpacedSends'
      <4>1. ASSUME NEW i \in 1..Len(sends'), NEW j \in 1..Len(sends'),
                   i < j, sends'[i].recorded, sends'[j].checked
            PROVE  sends'[j].at - sends'[i].at >= Interval.min
        <5>1. i \in 1..Len(sends) /\ sends'[i] = sends[i]
          BY <3>1, <4>1
        <5>2. CASE j \in 1..Len(sends)
          BY <3>1, <4>1, <5>1, <5>2 DEF SpacedInv, SpacedSends
        <5>3. CASE j = Len(sends) + 1
          <6>1. lim[s].on /\ sends'[j].at = now
            BY <3>1, <4>1, <5>3
          <6>2. Clear
            BY <1>8, <6>1 DEF Send, SpacedInv, HolderKnows
          <6>3. QED
            BY <4>1, <5>1, <6>1, <6>2 DEF Clear
        <5>4. QED
          BY <3>1, <4>1, <5>2, <5>3
      <4>2. QED
        BY <4>1 DEF SpacedSends
    <3>5. HolderKnows'
      BY <1>8, <2>1, <2>3, <3>1 DEF Send, Proceed, Goto, HolderKnows, SpacedInv, TypeInv, TypeOK, Inside
    <3>6. QED
      BY <3>3, <3>4, <3>5
  <2>4. QED
    BY <1>8, <2>2, <2>3 DEF Send
<1>9. ASSUME NEW s \in Senders, Await(s) PROVE Goal
  BY <1>9, SameHistory, StayKnows, ReturnKnows DEF Await, Proceed
<1>10. ASSUME NEW s \in Senders, RecordBegin(s) PROVE Goal
  <2>1. RowCovers' /\ SpacedSends' /\ (Clear => Clear')
    BY <1>10, SameHistory DEF RecordBegin
  <2>2. HolderKnows'
    BY <1>10, <2>1, TimeAssumption
    DEF RecordBegin, Goto, HolderKnows, RowCovers, SpacedInv, TypeInv, TypeOK, Time
  <2>3. QED
    BY <2>1, <2>2
<1>11. ASSUME NEW s \in Senders, RecordCommit(s) PROVE Goal
  <2>1. \A t \in Senders : t # s => pc[t] \notin Inside
    BY <1>11, OnlyOneInside DEF RecordCommit, Inside, SpacedInv
  <2>2. CASE UNCHANGED <<row, sends>>
    BY <1>11, <2>2, SameHistory, StayKnows DEF RecordCommit, Proceed
  <2>3. CASE row' = Recorded(at[s]) /\ sends' = [sends EXCEPT ![mine[s]].recorded = TRUE]
    <3>1. mine[s] \in 1..Len(sends) /\ mine[s] = Len(sends) /\ Len(sends) \in Nat
      BY <1>11 DEF RecordCommit, SpacedInv, HolderKnows, TypeInv, TypeOK, MineOK
    <3>2. /\ Len(sends') = Len(sends)
          /\ \A j \in 1..Len(sends) : sends'[j].at = sends[j].at
          /\ \A j \in 1..Len(sends) : sends'[j].checked <=> sends[j].checked
          /\ \A j \in 1..Len(sends) : j # mine[s] => sends'[j] = sends[j]
      BY <2>3, <3>1, FlagRecorded DEF SpacedInv, TypeInv, TypeOK
    <3>3. row'.exists /\ row'.last = at[s]
      BY <2>3, RecordedType DEF SpacedInv, TypeInv, TypeOK
    <3>4. now' = now /\ \A i \in 1..Len(sends) : sends[i].at <= at[s] /\ sends[i].at <= now
      BY <1>11 DEF RecordCommit, SpacedInv, HolderKnows, RowCovers
    <3>5. RowCovers'
      <4>1. ASSUME NEW i \in 1..Len(sends')
            PROVE  sends'[i].at <= now' /\ (sends'[i].recorded => row'.exists /\ sends'[i].at <= row'.last)
        <5>1. i \in 1..Len(sends) /\ sends[i].at \in Int
          BY <3>2, <4>1, HistoryType DEF SpacedInv
        <5>2. QED
          BY <3>2, <3>3, <3>4, <5>1
      <4>2. QED
        BY <4>1 DEF RowCovers
    <3>6. SpacedSends'
      <4>1. ASSUME NEW i \in 1..Len(sends'), NEW j \in 1..Len(sends'),
                   i < j, sends'[i].recorded, sends'[j].checked
            PROVE  sends'[j].at - sends'[i].at >= Interval.min
        <5>1. i \in 1..Len(sends) /\ j \in 1..Len(sends) /\ i # mine[s]
          BY <3>1, <3>2, <4>1
        <5>2. sends'[i] = sends[i] /\ sends[i].recorded /\ sends[j].checked
          <6>1. sends'[i] = sends[i]
            BY <3>2, <5>1
          <6>2. sends'[j].checked <=> sends[j].checked
            BY <3>2, <5>1
          <6>3. QED
            BY <4>1, <6>1, <6>2
        <5>3. sends[j].at - sends[i].at >= Interval.min
          BY <4>1, <5>1, <5>2 DEF SpacedInv, SpacedSends
        <5>4. QED
          <6>1. sends'[j].at = sends[j].at
            BY <3>2, <5>1
          <6>2. QED
            BY <5>2, <5>3, <6>1
      <4>2. QED
        BY <4>1 DEF SpacedSends
    <3>7. HolderKnows'
      BY <1>11, <2>1 DEF RecordCommit, Proceed, Goto, HolderKnows, SpacedInv, TypeInv, TypeOK, Inside
    <3>8. QED
      BY <3>5, <3>6, <3>7
  <2>4. QED
    BY <1>11, <2>2, <2>3 DEF RecordCommit
<1>12. ASSUME NEW s \in Senders, Post(s) PROVE Goal
  BY <1>12, SameHistory, ReturnKnows DEF Post
<1>13. ASSUME NEW p \in Procs, Restart(p) PROVE Goal
  <2>1. RowCovers' /\ SpacedSends' /\ (Clear => Clear')
    BY <1>13, SameHistory DEF Restart
  <2>2. HolderKnows'
    BY <1>13, <2>1 DEF Restart, HolderKnows, SpacedInv, TypeInv, TypeOK
  <2>3. QED
    BY <2>1, <2>2
<1>14. ASSUME Tick PROVE Goal
  <2>1. now \in Int /\ now' = now + 1 /\ Interval.min \in Int
    BY <1>14, TimeAssumption, RangesAssumption DEF Tick, SpacedInv, TypeInv, TypeOK, Time, Spread
  <2>2. \A i \in 1..Len(sends) : sends[i].at \in Int
    BY HistoryType DEF SpacedInv
  <2>3. \A s \in Senders : at[s] \in Int
    BY TimeAssumption DEF SpacedInv, TypeInv, TypeOK, Time
  <2>4. RowCovers' /\ SpacedSends' /\ (Clear => Clear')
    BY <1>14, <2>1, <2>2 DEF Tick, SpacedInv, RowCovers, SpacedSends, Clear
  <2>5. HolderKnows'
    BY <1>14, <2>1, <2>3, <2>4 DEF Tick, SpacedInv, HolderKnows
  <2>6. QED
    BY <2>4, <2>5
<1>15. ASSUME SaveSettings \/ UNCHANGED vars PROVE Goal
  <2>1. UNCHANGED <<now, pc, row, at, lim, sends, mine>>
    BY <1>15 DEF SaveSettings, vars
  <2>2. RowCovers' /\ SpacedSends' /\ (Clear => Clear')
    BY <2>1, SameHistory
  <2>3. HolderKnows'
    BY <2>1, <2>2 DEF SpacedInv, HolderKnows
  <2>4. QED
    BY <2>2, <2>3
<1>16. QED
  BY <1>1, <1>2, <1>3, <1>4, <1>5, <1>6, <1>7, <1>8, <1>9, <1>10, <1>11, <1>12, <1>13,
     <1>14, <1>15 DEF Next, Step

\* For any number of senders of one Session, any settings and any crashes: a message
\* checkMessageSafety approved leaves at least the smallest configurable interval
\* after every earlier message recordMessageSafety recorded.
THEOREM Spaced == ASSUME OneSession PROVE Spec => []SpacedSends
<1>1. Init => SpacedInv
  <2>1. ASSUME Init PROVE sends = <<>> /\ Len(sends) = 0 /\ \A s \in Senders : pc[s] = "idle" /\ mine[s] = 0
    BY <2>1 DEF Init
  <2>2. ASSUME Init PROVE MutualExclusion
    BY <2>2, SendersAssumption DEF Init, MutualExclusion, Inside
  <2>3. ASSUME Init PROVE RowCovers /\ HolderKnows /\ SpacedSends
    BY <2>1, <2>3 DEF RowCovers, HolderKnows, SpacedSends
  <2>4. QED
    BY <2>2, <2>3, TypeInit DEF SpacedInv
<1>2. SpacedInv /\ [Next]_vars => SpacedInv'
  BY TypeStep, MutexStep, SpacedStep DEF SpacedInv
<1>3. SpacedInv => SpacedSends
  BY DEF SpacedInv
<1>4. QED
  BY <1>1, <1>2, <1>3, PTL DEF Spec


-----------------------------------------------------------------------------
(***************************************************************************)
(* The pause after a 429                                                   *)
(***************************************************************************)

\* A sender that is past the gate of recipientRateLimited found no pause, and only a
\* sender inside can start one.
PastGate == {"check", "limits", "health"} \cup Calling
NotPaused == \A s \in Senders : pc[s] \in PastGate => ~RateLimited(s)
PauseInv == TypeInv /\ MutualExclusion /\ NotPaused

\* A step of s that leaves the pauses and the clock alone: only s can be newly past
\* the gate.
LEMMA PauseStay ==
  ASSUME PauseInv, NEW s \in Senders, NEW where, Goto(s, where), UNCHANGED <<now, paused>>,
         where \in PastGate => ~RateLimited(s)
  PROVE  NotPaused'
BY DEF PauseInv, NotPaused, Goto, RateLimited, TypeInv, TypeOK

\* The only sender inside returns: nobody is past the gate any more.
LEMMA PauseReturn ==
  ASSUME OneSession, PauseInv, NEW s \in Senders, pc[s] \in Inside, Return(s)
  PROVE  NotPaused'
<1>1. \A t \in Senders : t # s => pc[t] \notin Inside
  BY OnlyOneInside DEF PauseInv
<1>2. \A t \in Senders : pc'[t] \notin PastGate
  BY <1>1 DEF Return, Forget, Goto, PauseInv, TypeInv, TypeOK, Inside, PastGate, Calling
<1>3. QED
  BY <1>2 DEF NotPaused

LEMMA PauseStep == OneSession /\ PauseInv /\ [Next]_vars => NotPaused'
<1> SUFFICES ASSUME OneSession, PauseInv, [Next]_vars PROVE NotPaused'
  OBVIOUS
<1>1. ASSUME NEW s \in Senders, Request(s) \/ Lock(s) PROVE NotPaused'
  BY <1>1, PauseStay DEF Request, Lock, PastGate, Calling
<1>2. ASSUME NEW s \in Senders, Enter(s) PROVE NotPaused'
  BY <1>2, PauseStay, PauseReturn DEF Enter, Proceed, Inside
<1>3. ASSUME NEW s \in Senders, CheckBegin(s) PROVE NotPaused'
  <2>1. ~RateLimited(s)
    BY <1>3 DEF CheckBegin, PauseInv, NotPaused, PastGate
  <2>2. QED
    BY <1>3, <2>1, PauseStay DEF CheckBegin
<1>4. ASSUME NEW s \in Senders, CheckRow(s) \/ Health(s) PROVE NotPaused'
  <2>1. ~RateLimited(s) /\ pc[s] \in Inside
    BY <1>4 DEF CheckRow, Health, PauseInv, NotPaused, PastGate, Inside
  <2>2. QED
    BY <1>4, <2>1, PauseStay, PauseReturn DEF CheckRow, Health, Proceed
<1>5. ASSUME NEW s \in Senders, Resolve(s) \/ Await(s) PROVE NotPaused'
  <2>1. ~RateLimited(s) /\ pc[s] \in Inside
    BY <1>5 DEF Resolve, Await, PauseInv, NotPaused, PastGate, Calling, Inside
  <2>2. QED
    BY <1>5, <2>1, PauseStay, PauseReturn DEF Resolve, Await, Proceed
<1>6. ASSUME NEW s \in Senders, Send(s) PROVE NotPaused'
  <2>1. ~RateLimited(s)
    BY <1>6 DEF Send, PauseInv, NotPaused, PastGate, Calling
  <2>2. QED
    BY <1>6, <2>1, PauseStay DEF Send, Proceed
<1>7. ASSUME NEW s \in Senders, RecordBegin(s) \/ RecordCommit(s) PROVE NotPaused'
  BY <1>7, PauseStay DEF RecordBegin, RecordCommit, Proceed, PastGate, Calling
<1>8. ASSUME NEW s \in Senders, Post(s) PROVE NotPaused'
  BY <1>8, PauseReturn DEF Post, Inside
<1>9. ASSUME NEW p \in Procs, Restart(p) PROVE NotPaused'
  BY <1>9, SendersAssumption DEF Restart, Dies, PauseInv, NotPaused, RateLimited, PastGate, Calling,
     TypeInv, TypeOK
<1>10. ASSUME Tick PROVE NotPaused'
  <2>1. now \in Int /\ now' = now + 1 /\ \A s \in Senders : paused[ProcOf[SessionOf[s]]] \in Int
    BY <1>10, TimeAssumption, SendersAssumption DEF Tick, PauseInv, TypeInv, TypeOK, Time
  <2>2. QED
    BY <1>10, <2>1 DEF Tick, PauseInv, NotPaused, RateLimited
<1>11. ASSUME SaveSettings \/ UNCHANGED vars PROVE NotPaused'
  BY <1>11 DEF SaveSettings, vars, PauseInv, NotPaused, RateLimited
<1>12. QED
  BY <1>1, <1>2, <1>3, <1>4, <1>5, <1>6, <1>7, <1>8, <1>9, <1>10, <1>11 DEF Next, Step

\* For any number of senders of one Session: once WhatsApp answered 429, no sender has
\* a lookup or a message in flight until setRecipientRateLimit's pause is over, also
\* the ones that passed the gate of recipientRateLimited before the answer came.
THEOREM PauseHolds == ASSUME OneSession PROVE Spec => []NoCallsWhilePaused
<1>1. Init => PauseInv
  BY TypeInit, SendersAssumption DEF Init, PauseInv, NotPaused, MutualExclusion, Inside, PastGate, Calling
<1>2. PauseInv /\ [Next]_vars => PauseInv'
  BY TypeStep, MutexStep, PauseStep DEF PauseInv
<1>3. PauseInv => NoCallsWhilePaused
  BY DEF PauseInv, NotPaused, NoCallsWhilePaused, RateLimited, PastGate
<1>4. QED
  BY <1>1, <1>2, <1>3, PTL DEF Spec


-----------------------------------------------------------------------------
(***************************************************************************)
(* The hourly and the daily limit                                          *)
(***************************************************************************)

\* The approved and recorded messages of a history q in from..to.
CountedIn(q, from, to) ==
  {i \in 1..Len(q) : q[i].checked /\ q[i].recorded /\ q[i].at \in from..to}

\* The row's counters are no smaller than what is counted in its windows (they may be
\* larger: a message that was not checked, because the limiter was off then, is
\* recorded when the limiter is on again).
RowCounts ==
  row.exists =>
    /\ Cardinality(Counted(row.ws, row.ws + Hour - 1)) <= row.hc
    /\ Cardinality(Counted(row.ds, row.ds + Day - 1)) <= row.dc

\* What an approved sender knows of the counters until it records its message.
Below(t) == HourCount(t) < PerHour.max /\ DayCount(t) < PerDay.max
WindowKnown ==
  \A s \in Senders :
    /\ pc[s] \in {"await", "record", "commit"} /\ mine[s] > 0
         => (sends[mine[s]].checked <=> lim[s].on)
    /\ pc[s] \in {"health", "resolve", "send", "await", "record"} /\ lim[s].on => Below(now)
    /\ pc[s] = "commit" /\ lim[s].on => Below(at[s])

WindowInv == SpacedInv /\ RowCounts /\ WindowKnown /\ WindowLimits

LEMMA CountedFinite ==
  ASSUME NEW q \in Seq(Message), NEW from \in Int, NEW to \in Int
  PROVE  IsFiniteSet(CountedIn(q, from, to)) /\ Cardinality(CountedIn(q, from, to)) \in Nat
<1>1. IsFiniteSet(1..Len(q)) /\ CountedIn(q, from, to) \in SUBSET (1..Len(q))
  BY FS_Interval DEF CountedIn
<1>2. QED
  BY <1>1, FS_Subset, FS_CardinalityType

\* Recording message i counts it, if it was approved, and no other message.
LEMMA CountedGrows ==
  ASSUME NEW q \in Seq(Message), NEW i \in 1..Len(q), NEW from \in Int, NEW to \in Int,
         NEW r, r = [q EXCEPT ![i].recorded = TRUE]
  PROVE  /\ Cardinality(CountedIn(r, from, to)) <= Cardinality(CountedIn(q, from, to)) + 1
         /\ ~q[i].checked => Cardinality(CountedIn(r, from, to)) <= Cardinality(CountedIn(q, from, to))
<1> DEFINE A == CountedIn(q, from, to)
           B == CountedIn(r, from, to)
<1>1. /\ Len(r) = Len(q)
      /\ \A j \in 1..Len(q) : j # i => r[j] = q[j]
      /\ r[i].checked <=> q[i].checked
  BY FlagRecorded
<1>2. IsFiniteSet(A) /\ Cardinality(A) \in Nat
  BY CountedFinite
<1>3. B \in SUBSET (A \cup {i}) /\ (~q[i].checked => B \in SUBSET A)
  BY <1>1 DEF CountedIn
<1> HIDE DEF A, B
<1>4. IsFiniteSet(A \cup {i}) /\ Cardinality(A \cup {i}) <= Cardinality(A) + 1
      /\ Cardinality(A \cup {i}) \in Nat
  <2>1. IsFiniteSet(A \cup {i})
        /\ Cardinality(A \cup {i}) = IF i \in A THEN Cardinality(A) ELSE Cardinality(A) + 1
    BY <1>2, FS_AddElement
  <2>2. QED
    BY <1>2, <2>1
<1>5. Cardinality(B) <= Cardinality(A \cup {i}) /\ Cardinality(B) \in Nat
  BY <1>3, <1>4, FS_Subset, FS_CardinalityType
<1>6. ~q[i].checked => Cardinality(B) <= Cardinality(A)
  BY <1>2, <1>3, FS_Subset
<1>7. QED
  BY <1>2, <1>4, <1>5, <1>6 DEF A, B

\* A window that begins with the latest time of the history has at most one message,
\* because approved messages are apart.
LEMMA CountedOne ==
  ASSUME NEW q \in Seq(Message), NEW t \in Int, NEW to \in Int,
         \A i \in 1..Len(q) : q[i].at \in Int /\ q[i].at <= t,
         \A i, j \in 1..Len(q) : i < j /\ q[i].recorded /\ q[j].checked => q[j].at > q[i].at
  PROVE  Cardinality(CountedIn(q, t, to)) <= 1
<1> DEFINE A == CountedIn(q, t, to)
<1>1. \A i, j \in A : i = j
  BY DEF CountedIn
<1> HIDE DEF A
<1>2. ASSUME A = {} PROVE Cardinality(A) <= 1
  BY <1>2, FS_EmptySet
<1>3. ASSUME A # {} PROVE Cardinality(A) <= 1
  <2>1. PICK i \in A : TRUE
    BY <1>3
  <2>2. A = {i}
    BY <1>1, <2>1
  <2>3. Cardinality({i}) = 1
    BY FS_Singleton
  <2>4. QED
    BY <2>2, <2>3
<1>4. QED
  BY <1>2, <1>3 DEF A

\* The counters only fall as time goes by.
LEMMA BelowLater ==
  ASSUME row \in Row, NEW t \in Int, NEW u \in Int, t <= u, Below(t)
  PROVE  Below(u)
<1>1. row.ws \in Int /\ row.ds \in Int /\ row.hc \in Int /\ row.dc \in Int
  BY TimeAssumption DEF Row, Time
<1>2. PerHour.max \in Int /\ PerHour.max > 0 /\ PerDay.max \in Int /\ PerDay.max > 0
      /\ Hour \in Int /\ Day \in Int
  BY RangesAssumption, TimeAssumption DEF Spread
<1>3. QED
  BY <1>1, <1>2 DEF Below, HourCount, DayCount


\* Counted is CountedIn of the history.
LEMMA CountedIs ==
  ASSUME NEW from, NEW to
  PROVE  Counted(from, to) = CountedIn(sends, from, to)
BY DEF Counted, CountedIn

\* Steps that leave the history and the row alone.
LEMMA SameWindows ==
  ASSUME WindowInv, UNCHANGED <<row, sends>>
  PROVE  RowCounts' /\ WindowLimits'
BY DEF WindowInv, RowCounts, WindowLimits, Counted

LEMMA ReturnWindow ==
  ASSUME WindowInv, NEW s \in Senders, Return(s), UNCHANGED <<now, row, sends>>
  PROVE  WindowKnown'
<1>1. \A t : Below(t)' <=> Below(t)
  BY DEF Below, HourCount, DayCount
<1>2. ASSUME NEW u \in Senders
      PROVE  /\ pc'[u] = IF u = s THEN "idle" ELSE pc[u]
             /\ u # s => lim'[u] = lim[u] /\ at'[u] = at[u] /\ mine'[u] = mine[u]
  BY DEF Return, Forget, Goto, WindowInv, SpacedInv, TypeInv, TypeOK
<1>3. QED
  BY <1>1, <1>2 DEF WindowInv, WindowKnown, Below, HourCount, DayCount


\* A step of s inside, up to the recording, that leaves the clock, the row and the
\* history alone and whose locals stay.
LEMMA StayWindow ==
  ASSUME WindowInv, NEW s \in Senders, NEW where, Goto(s, where),
         UNCHANGED <<now, row, sends, at, lim, mine>>,
         \/ where \in {"lock", "enter", "check", "post"}
         \/ pc[s] \in {"health", "resolve"} /\ where \in {"resolve", "send"}
         \/ pc[s] = "await" /\ where = "record"
  PROVE  WindowKnown'
<1>1. \A u \in Senders : pc'[u] = IF u = s THEN where ELSE pc[u]
  BY DEF Goto, WindowInv, SpacedInv, TypeInv, TypeOK
<1>2. QED
  BY <1>1 DEF WindowInv, WindowKnown, Below, HourCount, DayCount

\* recordMessageSafety: the window goes on and has one message more, or begins anew
\* with this one.
LEMMA RecordWindow ==
  ASSUME OneSession, WindowInv, NEW s \in Senders, RecordCommit(s),
         row' = Recorded(at[s]), sends' = [sends EXCEPT ![mine[s]].recorded = TRUE],
         SpacedSends', RowCovers'
  PROVE  RowCounts' /\ WindowLimits'
<1> DEFINE t == at[s]
           i == mine[s]
<1>1. /\ pc[s] = "commit" /\ i \in 1..Len(sends) /\ sends \in Seq(Message) /\ sends' \in Seq(Message)
      /\ Len(sends') = Len(sends)
      /\ \A j \in 1..Len(sends) : sends'[j].at = sends[j].at
  <2>1. pc[s] = "commit" /\ i \in 1..Len(sends) /\ sends \in Seq(Message)
    BY DEF RecordCommit, WindowInv, SpacedInv, TypeInv, TypeOK, MineOK
  <2>2. QED
    BY <2>1, FlagRecorded
<1>2. /\ t \in Int /\ row \in Row /\ row.ws \in Int /\ row.ds \in Int /\ row.hc \in Nat /\ row.dc \in Nat
      /\ row.exists \in BOOLEAN
  BY TimeAssumption DEF WindowInv, SpacedInv, TypeInv, TypeOK, Row, Time
<1>3. /\ PerHour.max \in Int /\ PerHour.max > 0 /\ PerDay.max \in Int /\ PerDay.max > 0
      /\ Hour \in Int /\ Hour > 0 /\ Day \in Int /\ Day > 0 /\ Interval.min \in Int /\ Interval.min > 0
  BY RangesAssumption, TimeAssumption DEF Spread
<1>4. /\ \A j \in 1..Len(sends') : sends'[j].at \in Int /\ sends'[j].at <= t
      /\ \A j, k \in 1..Len(sends') : j < k /\ sends'[j].recorded /\ sends'[k].checked => sends'[k].at > sends'[j].at
  <2>1. \A j \in 1..Len(sends) : sends[j].at \in Int /\ sends[j].at <= t
    BY <1>1, HistoryType DEF WindowInv, SpacedInv, HolderKnows
  <2>2. \A j \in 1..Len(sends') : sends'[j].at \in Int /\ sends'[j].at <= t
    BY <1>1, <2>1
  <2>3. ASSUME NEW j \in 1..Len(sends'), NEW k \in 1..Len(sends'),
               j < k, sends'[j].recorded, sends'[k].checked
        PROVE  sends'[k].at > sends'[j].at
    <3>1. sends'[k].at - sends'[j].at >= Interval.min
      BY <2>3 DEF SpacedSends
    <3>2. sends'[k].at \in Int /\ sends'[j].at \in Int
      BY <2>2
    <3>3. \A x, y, z \in Int : z > 0 /\ x - y >= z => x > y
      OBVIOUS
    <3>4. Interval.min \in Int /\ Interval.min > 0
      BY <1>3
    <3>5. QED
      BY <3>1, <3>2, <3>3, <3>4
  <2>4. QED
    BY <2>2, <2>3
<1>5. \A to \in Int : Cardinality(CountedIn(sends', t, to)) <= 1
  BY <1>1, <1>2, <1>4, CountedOne
<1>6. \A from, to \in Int :
        /\ Cardinality(CountedIn(sends', from, to)) <= Cardinality(CountedIn(sends, from, to)) + 1
        /\ ~sends[i].checked => Cardinality(CountedIn(sends', from, to)) <= Cardinality(CountedIn(sends, from, to))
        /\ Cardinality(CountedIn(sends', from, to)) \in Nat /\ Cardinality(CountedIn(sends, from, to)) \in Nat
  BY <1>1, CountedGrows, CountedFinite
<1>7. sends[i].checked => Below(t)
  BY <1>1 DEF WindowInv, WindowKnown
<1>8. row' = [exists |-> TRUE, last |-> t,
              ws |-> IF ~row.exists \/ t - row.ws >= Hour THEN t ELSE row.ws,
              hc |-> HourCount(t) + 1,
              ds |-> IF ~row.exists \/ t - row.ds >= Day THEN t ELSE row.ds,
              dc |-> DayCount(t) + 1]
  BY DEF Recorded
<1> HIDE DEF t, i
<1>9. /\ Cardinality(CountedIn(sends', row'.ws, row'.ws + Hour - 1)) <= row'.hc
      /\ Cardinality(CountedIn(sends', row'.ws, row'.ws + Hour - 1)) <= PerHour.max
  <2>1. CASE ~row.exists \/ t - row.ws >= Hour
    <3>1. row'.ws = t /\ row'.hc = 1
      BY <1>8, <2>1 DEF HourCount
    <3>2. t + Hour - 1 \in Int
      BY <1>2, <1>3
    <3>3. Cardinality(CountedIn(sends', t, t + Hour - 1)) <= 1
          /\ Cardinality(CountedIn(sends', t, t + Hour - 1)) \in Nat
      BY <1>2, <1>5, <1>6, <3>2
    <3>4. QED
      BY <1>3, <3>1, <3>3
  <2>2. CASE row.exists /\ ~(t - row.ws >= Hour)
    <3>1. row'.ws = row.ws /\ row'.hc = row.hc + 1 /\ HourCount(t) = row.hc
      BY <1>8, <2>2 DEF HourCount
    <3>2. Cardinality(CountedIn(sends, row.ws, row.ws + Hour - 1)) <= row.hc
          /\ Cardinality(CountedIn(sends, row.ws, row.ws + Hour - 1)) <= PerHour.max
      BY <2>2 DEF WindowInv, RowCounts, WindowLimits, Counted, CountedIn
    <3>3. sends[i].checked => row.hc < PerHour.max
      BY <1>7, <3>1 DEF Below
    <3>4. row.ws + Hour - 1 \in Int
      BY <1>2, <1>3
    <3> DEFINE old == Cardinality(CountedIn(sends, row.ws, row.ws + Hour - 1))
               new == Cardinality(CountedIn(sends', row.ws, row.ws + Hour - 1))
    <3>5. /\ new \in Nat /\ old \in Nat /\ new <= old + 1
          /\ ~sends[i].checked => new <= old
      BY <1>2, <1>6, <3>4
    <3>6. new <= row.hc + 1 /\ new <= PerHour.max
      <4> HIDE DEF new
      <4>1. old <= row.hc /\ old <= PerHour.max
        BY <3>2
      <4> HIDE DEF old
      <4>2. QED
        BY <1>2, <1>3, <3>3, <3>5, <4>1
    <3>7. QED
      BY <3>1, <3>6
  <2>3. QED
    BY <2>1, <2>2
<1>10. /\ Cardinality(CountedIn(sends', row'.ds, row'.ds + Day - 1)) <= row'.dc
       /\ Cardinality(CountedIn(sends', row'.ds, row'.ds + Day - 1)) <= PerDay.max
  <2>1. CASE ~row.exists \/ t - row.ds >= Day
    <3>1. row'.ds = t /\ row'.dc = 1
      BY <1>8, <2>1 DEF DayCount
    <3>2. t + Day - 1 \in Int
      BY <1>2, <1>3
    <3>3. Cardinality(CountedIn(sends', t, t + Day - 1)) <= 1
          /\ Cardinality(CountedIn(sends', t, t + Day - 1)) \in Nat
      BY <1>2, <1>5, <1>6, <3>2
    <3>4. QED
      BY <1>3, <3>1, <3>3
  <2>2. CASE row.exists /\ ~(t - row.ds >= Day)
    <3>1. row'.ds = row.ds /\ row'.dc = row.dc + 1 /\ DayCount(t) = row.dc
      BY <1>8, <2>2 DEF DayCount
    <3>2. Cardinality(CountedIn(sends, row.ds, row.ds + Day - 1)) <= row.dc
          /\ Cardinality(CountedIn(sends, row.ds, row.ds + Day - 1)) <= PerDay.max
      BY <2>2 DEF WindowInv, RowCounts, WindowLimits, Counted, CountedIn
    <3>3. sends[i].checked => row.dc < PerDay.max
      BY <1>7, <3>1 DEF Below
    <3>4. row.ds + Day - 1 \in Int
      BY <1>2, <1>3
    <3> DEFINE old == Cardinality(CountedIn(sends, row.ds, row.ds + Day - 1))
               new == Cardinality(CountedIn(sends', row.ds, row.ds + Day - 1))
    <3>5. /\ new \in Nat /\ old \in Nat /\ new <= old + 1
          /\ ~sends[i].checked => new <= old
      BY <1>2, <1>6, <3>4
    <3>6. new <= row.dc + 1 /\ new <= PerDay.max
      <4> HIDE DEF new
      <4>1. old <= row.dc /\ old <= PerDay.max
        BY <3>2
      <4> HIDE DEF old
      <4>2. QED
        BY <1>2, <1>3, <3>3, <3>5, <4>1
    <3>7. QED
      BY <3>1, <3>6
  <2>3. QED
    BY <2>1, <2>2
<1>11. QED
  BY <1>9, <1>10 DEF RowCounts, WindowLimits, Counted, CountedIn


LEMMA WindowStep ==
  OneSession /\ WindowInv /\ SpacedInv' /\ [Next]_vars => RowCounts' /\ WindowKnown' /\ WindowLimits'
<1> SUFFICES ASSUME OneSession, WindowInv, SpacedInv', [Next]_vars
             PROVE  RowCounts' /\ WindowKnown' /\ WindowLimits'
  OBVIOUS
<1> DEFINE Goal == RowCounts' /\ WindowKnown' /\ WindowLimits'
<1>1. ASSUME NEW s \in Senders, Request(s) \/ Lock(s) PROVE Goal
  BY <1>1, SameWindows, StayWindow DEF Request, Lock
<1>2. ASSUME NEW s \in Senders, Enter(s) PROVE Goal
  BY <1>2, SameWindows, StayWindow, ReturnWindow DEF Enter, Proceed
<1>3. ASSUME NEW s \in Senders, CheckBegin(s) PROVE Goal
  <2>1. ReadLimits.on = settings.on
    BY ReadLimitsType DEF WindowInv, SpacedInv, TypeInv, TypeOK
  <2>2. ASSUME NEW u \in Senders
        PROVE  /\ u = s => pc'[u] \in {"limits", "health"} /\ (pc'[u] = "health" => ~lim'[u].on)
               /\ u # s => pc'[u] = pc[u] /\ lim'[u] = lim[u] /\ at'[u] = at[u]
    BY <1>3, <2>1 DEF CheckBegin, Goto, WindowInv, SpacedInv, TypeInv, TypeOK
  <2>3. WindowKnown'
    BY <1>3, <2>2 DEF CheckBegin, WindowInv, WindowKnown, Below, HourCount, DayCount
  <2>4. QED
    BY <1>3, <2>3, SameWindows DEF CheckBegin
<1>4. ASSUME NEW s \in Senders, CheckRow(s) PROVE Goal
  <2>1. CASE Return(s)
    BY <1>4, <2>1, SameWindows, ReturnWindow DEF CheckRow
  <2>2. CASE ~Blocked(lim[s], at[s]) /\ Proceed(s, "health") /\ UNCHANGED mine
    <3>1. /\ lim[s].hour \in Int /\ lim[s].hour <= PerHour.max /\ PerHour.max \in Int
          /\ lim[s].day \in Int /\ lim[s].day <= PerDay.max /\ PerDay.max \in Int
      <4>1. lim[s].hour \in PerHour.min..PerHour.max /\ lim[s].day \in PerDay.min..PerDay.max
        BY DEF WindowInv, SpacedInv, TypeInv, TypeOK, Limits
      <4>2. /\ PerHour.min \in Int /\ PerHour.max \in Int
            /\ PerDay.min \in Int /\ PerDay.max \in Int
        BY RangesAssumption DEF Spread
      <4>3. QED
        BY <4>1, <4>2
    <3>2. HourCount(at[s]) \in Int /\ DayCount(at[s]) \in Int
      BY DEF WindowInv, SpacedInv, TypeInv, TypeOK, Row, HourCount, DayCount
    <3>3. Below(at[s])
      BY <2>2, <3>1, <3>2 DEF Blocked, Below
    <3>4. row \in Row /\ at[s] \in Int /\ now \in Int /\ at[s] <= now
      BY <1>4, TimeAssumption DEF CheckRow, WindowInv, SpacedInv, TypeInv, TypeOK, HolderKnows, Time
    <3>5. Below(now)
      BY <3>3, <3>4, BelowLater
    <3>6. \A u \in Senders : pc'[u] = IF u = s THEN "health" ELSE pc[u]
      BY <2>2 DEF Proceed, Goto, WindowInv, SpacedInv, TypeInv, TypeOK
    <3>7. WindowKnown'
      BY <1>4, <2>2, <3>5, <3>6 DEF CheckRow, Proceed, WindowInv, WindowKnown, Below, HourCount, DayCount
    <3>8. QED
      BY <1>4, <3>7, SameWindows DEF CheckRow
  <2>3. QED
    BY <1>4, <2>1, <2>2 DEF CheckRow
<1>5. ASSUME NEW s \in Senders, Health(s) PROVE Goal
  BY <1>5, SameWindows, StayWindow, ReturnWindow DEF Health, Proceed
<1>6. ASSUME NEW s \in Senders, Resolve(s) PROVE Goal
  BY <1>6, SameWindows, StayWindow, ReturnWindow DEF Resolve, Proceed
<1>7. ASSUME NEW s \in Senders, Send(s) PROVE Goal
  <2>1. \A t \in Senders : t # s => pc[t] \notin Inside
    BY <1>7, OnlyOneInside DEF Send, Inside, WindowInv, SpacedInv
  <2>2. \A u \in Senders : pc'[u] = IF u = s THEN "await" ELSE pc[u]
    BY <1>7 DEF Send, Proceed, Goto, WindowInv, SpacedInv, TypeInv, TypeOK
  <2>3. UNCHANGED <<now, row, at, lim>> /\ (lim[s].on => Below(now))
    BY <1>7 DEF Send, Proceed, WindowInv, WindowKnown
  <2>4. CASE UNCHANGED <<sends, mine>>
    <3>1. mine[s] = 0
      BY <1>7 DEF Send, WindowInv, SpacedInv, HolderKnows
    <3>2. WindowKnown'
      BY <2>2, <2>3, <2>4, <3>1 DEF WindowInv, WindowKnown, Below, HourCount, DayCount
    <3>3. QED
      BY <2>3, <2>4, <3>2, SameWindows
  <2>5. CASE /\ sends' = Append(sends, [at |-> now, checked |-> lim[s].on, recorded |-> FALSE])
             /\ mine' = [mine EXCEPT ![s] = Len(sends) + 1]
    <3>1. /\ Len(sends) \in Nat /\ Len(sends') = Len(sends) + 1
          /\ \A j \in 1..Len(sends) : sends'[j] = sends[j]
          /\ sends'[Len(sends) + 1] = [at |-> now, checked |-> lim[s].on, recorded |-> FALSE]
      <4>1. [at |-> now, checked |-> lim[s].on, recorded |-> FALSE] \in Message
        BY DEF WindowInv, SpacedInv, TypeInv, TypeOK, Message, Limits
      <4>2. QED
        BY <2>5, <4>1, AppendMessage DEF WindowInv, SpacedInv, TypeInv, TypeOK
    <3>2. \A from, to : CountedIn(sends', from, to) = CountedIn(sends, from, to)
      BY <3>1 DEF CountedIn
    <3>3. RowCounts' /\ WindowLimits'
      <4>1. /\ CountedIn(sends', row.ws, row.ws + Hour - 1) = CountedIn(sends, row.ws, row.ws + Hour - 1)
            /\ CountedIn(sends', row.ds, row.ds + Day - 1) = CountedIn(sends, row.ds, row.ds + Day - 1)
        BY <3>2
      <4>2. /\ Counted(row.ws, row.ws + Hour - 1)' = Counted(row.ws, row.ws + Hour - 1)
            /\ Counted(row.ds, row.ds + Day - 1)' = Counted(row.ds, row.ds + Day - 1)
        BY <2>3, <4>1 DEF Counted, CountedIn
      <4>3. QED
        BY <2>3, <4>2 DEF WindowInv, RowCounts, WindowLimits
    <3>4. mine'[s] = Len(sends) + 1
      BY <2>5 DEF WindowInv, SpacedInv, TypeInv, TypeOK
    <3>5. WindowKnown'
      <4>1. ASSUME NEW u \in Senders, u # s
            PROVE  pc'[u] \notin Inside
        BY <2>1, <2>2, <4>1
      <4>2. QED
        BY <2>2, <2>3, <3>1, <3>4, <4>1 DEF WindowKnown, Below, HourCount, DayCount, Inside
    <3>6. QED
      BY <3>3, <3>5
  <2>6. QED
    BY <1>7, <2>4, <2>5 DEF Send
<1>8. ASSUME NEW s \in Senders, Await(s) PROVE Goal
  BY <1>8, SameWindows, StayWindow, ReturnWindow DEF Await, Proceed
<1>9. ASSUME NEW s \in Senders, RecordBegin(s) PROVE Goal
  <2>1. ASSUME NEW u \in Senders
        PROVE  /\ u = s => pc'[u] \in {"commit", "post"} /\ at'[u] = now
               /\ u # s => pc'[u] = pc[u] /\ at'[u] = at[u]
    BY <1>9 DEF RecordBegin, Goto, WindowInv, SpacedInv, TypeInv, TypeOK
  <2>2. WindowKnown'
    BY <1>9, <2>1 DEF RecordBegin, WindowInv, WindowKnown, Below, HourCount, DayCount
  <2>3. QED
    BY <1>9, <2>2, SameWindows DEF RecordBegin
<1>10. ASSUME NEW s \in Senders, RecordCommit(s) PROVE Goal
  <2>1. \A t \in Senders : t # s => pc[t] \notin Inside
    BY <1>10, OnlyOneInside DEF RecordCommit, Inside, WindowInv, SpacedInv
  <2>2. \A u \in Senders : pc'[u] = IF u = s THEN "post" ELSE pc[u]
    BY <1>10 DEF RecordCommit, Proceed, Goto, WindowInv, SpacedInv, TypeInv, TypeOK
  <2>3. WindowKnown'
    BY <2>1, <2>2 DEF WindowKnown, Inside
  <2>4. CASE UNCHANGED <<row, sends>>
    BY <2>3, <2>4, SameWindows
  <2>5. CASE row' = Recorded(at[s]) /\ sends' = [sends EXCEPT ![mine[s]].recorded = TRUE]
    BY <1>10, <2>3, <2>5, RecordWindow DEF SpacedInv
  <2>6. QED
    BY <1>10, <2>4, <2>5 DEF RecordCommit
<1>11. ASSUME NEW s \in Senders, Post(s) PROVE Goal
  BY <1>11, SameWindows, ReturnWindow DEF Post
<1>12. ASSUME NEW p \in Procs, Restart(p) PROVE Goal
  <2>1. ASSUME NEW u \in Senders
        PROVE  pc'[u] = "idle" \/ (pc'[u] = pc[u] /\ mine'[u] = mine[u] /\ at'[u] = at[u] /\ lim'[u] = lim[u])
    BY <1>12 DEF Restart
  <2>2. WindowKnown'
    BY <1>12, <2>1 DEF Restart, WindowInv, WindowKnown, Below, HourCount, DayCount
  <2>3. QED
    BY <1>12, <2>2, SameWindows DEF Restart
<1>13. ASSUME Tick PROVE Goal
  <2>1. now \in Int /\ now' = now + 1 /\ row \in Row
    BY <1>13, TimeAssumption DEF Tick, WindowInv, SpacedInv, TypeInv, TypeOK, Time
  <2>2. Below(now) => Below(now + 1)
    BY <2>1, BelowLater
  <2>3. WindowKnown'
    BY <1>13, <2>1, <2>2 DEF Tick, WindowInv, WindowKnown, Below, HourCount, DayCount
  <2>4. QED
    BY <1>13, <2>3, SameWindows DEF Tick
<1>14. ASSUME SaveSettings \/ UNCHANGED vars PROVE Goal
  <2>1. UNCHANGED <<now, pc, row, at, lim, sends, mine>>
    BY <1>14 DEF SaveSettings, vars
  <2>2. WindowKnown'
    BY <2>1 DEF WindowInv, WindowKnown, Below, HourCount, DayCount
  <2>3. QED
    BY <2>1, <2>2, SameWindows
<1>15. QED
  BY <1>1, <1>2, <1>3, <1>4, <1>5, <1>6, <1>7, <1>8, <1>9, <1>10, <1>11, <1>12, <1>13,
     <1>14 DEF Next, Step

\* For any number of senders of one Session, any window lengths and limits, and however
\* the administrator switches the limiter: the messages that checkMessageSafety approved
\* and recordMessageSafety recorded within the window of the row never exceed the largest
\* hourly and daily limit settingInt allows.
THEOREM LimitsHold == ASSUME OneSession PROVE Spec => []WindowLimits
<1>1. Init => SpacedInv
  <2>1. ASSUME Init PROVE sends = <<>> /\ Len(sends) = 0 /\ \A s \in Senders : pc[s] = "idle" /\ mine[s] = 0
    BY <2>1 DEF Init
  <2>2. ASSUME Init PROVE MutualExclusion
    BY <2>2, SendersAssumption DEF Init, MutualExclusion, Inside
  <2>3. ASSUME Init PROVE RowCovers /\ HolderKnows /\ SpacedSends
    BY <2>1, <2>3 DEF RowCovers, HolderKnows, SpacedSends
  <2>4. QED
    BY <2>2, <2>3, TypeInit DEF SpacedInv
<1>2. Init => RowCounts /\ WindowKnown /\ WindowLimits
  BY DEF Init, NoRow, RowCounts, WindowKnown, WindowLimits
<1>3. SpacedInv /\ [Next]_vars => SpacedInv'
  BY TypeStep, MutexStep, SpacedStep DEF SpacedInv
<1>4. WindowInv /\ [Next]_vars => WindowInv'
  BY <1>3, WindowStep DEF WindowInv
<1>5. WindowInv => WindowLimits
  BY DEF WindowInv
<1>6. Init => WindowInv
  BY <1>1, <1>2 DEF WindowInv
<1>7. QED
  BY <1>4, <1>5, <1>6, PTL DEF Spec

=============================================================================
