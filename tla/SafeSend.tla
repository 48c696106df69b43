------------------------------ MODULE SafeSend ------------------------------
(***************************************************************************)
(* safeSendMessage (message_safety.go): the path every outgoing message of *)
(* ONE WhatsApp account takes.  A sender is a goroutine (an HTTP handler,  *)
(* the bulk worker, the auto-message goroutine) that took a Session from   *)
(* the manager, waits for Session.mu and then runs the checks, the send    *)
(* and the bookkeeping.  The limiter's row lives in PostgreSQL and is      *)
(* shared by every server process; Session.mu and the 429 pause are        *)
(* memory of one process.                                                  *)
(*                                                                         *)
(* All state here is keyed by user id in the code, so accounts do not      *)
(* interact and one account is modelled.  Time is an integer clock; Hour   *)
(* and Day stand for time.Hour and 24*time.Hour in its unit.               *)
(***************************************************************************)
EXTENDS Integers, Sequences, FiniteSets

CONSTANTS
  Senders,      \* goroutines that send for the account
  Sessions,     \* Session objects of the account, each with its own mutex
  Procs,        \* server processes
  SessionOf,    \* the Session a sender took from its process's manager
  ProcOf,       \* the process a Session lives in
  NoOne,        \* an unlocked Session.mu
  Unset,        \* a setting that is absent or does not parse as an integer
  RawValues,    \* integers an administrator may store for a setting
  Interval,     \* [def, min, max] of safety_min_interval_ms
  PerHour,      \* [def, min, max] of safety_max_messages_hour
  PerDay,       \* [def, min, max] of safety_max_messages_day
  Hour, Day,    \* lengths of the two counting windows
  LookupPause,  \* setRecipientRateLimit(userID, 60*time.Second)
  MaxTime,      \* bound: last instant of the clock
  MaxSends,     \* bound: messages accepted by WhatsApp
  MaxEdits,     \* bound: admin settings saved
  MaxCrashes    \* bound: process restarts

\* A setting with its default and the limits of its range.
Spread(r) == r \in [def : Int, min : Int, max : Int] /\ r.min <= r.def /\ r.def <= r.max

ASSUME SendersAssumption == /\ SessionOf \in [Senders -> Sessions]
                            /\ ProcOf \in [Sessions -> Procs]
                            /\ NoOne \notin Senders
ASSUME RangesAssumption == /\ Spread(Interval) /\ Interval.min > 0
                           /\ Spread(PerHour) /\ PerHour.min > 0
                           /\ Spread(PerDay) /\ PerDay.min > 0
                           /\ RawValues \subseteq Int /\ Unset \notin Int
ASSUME TimeAssumption == /\ Hour \in Nat \ {0} /\ Day \in Nat \ {0} /\ LookupPause \in Nat
                         /\ MaxTime \in Nat /\ MaxSends \in Nat
                         /\ MaxEdits \in Nat /\ MaxCrashes \in Nat

VARIABLES
  now,        \* time.Now()
  pc,         \* where each sender is in the send path
  mu,         \* Session.mu: its holder, or NoOne
  settings,   \* admin_settings: ban_safety_enabled and the three raw limits
  row,        \* the message_safety_state row of the account
  paused,     \* recipientRateLimitUntil of each process
  at,         \* time.Now() captured by a sender before its transaction
  lim,        \* limits a sender read before its check
  sends,      \* history: messages WhatsApp accepted, in order
  mine,       \* the index in sends of a sender's message, 0 if not accepted
  edits, crashes

vars == <<now, pc, mu, settings, row, paused, at, lim, sends, mine, edits, crashes>>

Time == 0..MaxTime

\* The steps of a sender.  The first two are before safeSendMessage holds the
\* mutex; every later one is inside it.
Outside == {"idle", "lock"}
Inside == {"enter", "check", "limits", "health", "resolve", "send", "await",
           "record", "commit", "post"}
\* The steps at which a sender may have a call to WhatsApp in flight.
Calling == {"resolve", "send", "await"}

Raw == RawValues \cup {Unset}
Settings == [on : BOOLEAN, interval : Raw, hour : Raw, day : Raw]
Limits == [on : BOOLEAN, interval : Interval.min..Interval.max,
           hour : PerHour.min..PerHour.max, day : PerDay.min..PerDay.max]
Row == [exists : BOOLEAN, last : Time, ws : Time, hc : Nat, ds : Time, dc : Nat]
\* A message WhatsApp accepted: when, whether the limiter had been consulted,
\* and whether the limiter's row was updated for it.
Message == [at : Time, checked : BOOLEAN, recorded : BOOLEAN]

\* The locals of a sender that is outside safeSendMessage.
NoLimits == [on |-> FALSE, interval |-> Interval.def, hour |-> PerHour.def, day |-> PerDay.def]
NoRow == [exists |-> FALSE, last |-> 0, ws |-> 0, hc |-> 0, ds |-> 0, dc |-> 0]

(***************************************************************************)
(* Settings                                                                *)
(***************************************************************************)

SettingInt_NoCeiling(v, r) == IF v = Unset \/ v < r.min THEN r.def ELSE v

\* settingInt: an unparsable or too small value becomes the default, a too
\* large one the maximum.
SettingInt(v, r) ==
  IF v = Unset \/ v < r.min THEN r.def ELSE IF v > r.max THEN r.max ELSE v

ReadLimits ==
  [on |-> settings.on,
   interval |-> SettingInt(settings.interval, Interval),
   hour |-> SettingInt(settings.hour, PerHour),
   day |-> SettingInt(settings.day, PerDay)]

(***************************************************************************)
(* The limiter's arithmetic                                                *)
(***************************************************************************)

\* The counters as seen at time t: a window that is absent or over starts anew.
HourCount(t) == IF ~row.exists \/ t - row.ws >= Hour THEN 0 ELSE row.hc
DayCount(t) == IF ~row.exists \/ t - row.ds >= Day THEN 0 ELSE row.dc

\* The cooldown and the two limits of checkMessageSafety.
Blocked_OffByOne(l, t) ==
  \/ row.exists /\ t - row.last < l.interval
  \/ HourCount(t) > l.hour
  \/ DayCount(t) > l.day

Blocked(l, t) ==
  \/ row.exists /\ t - row.last < l.interval
  \/ HourCount(t) >= l.hour
  \/ DayCount(t) >= l.day

\* The row recordMessageSafety writes at time t.
Recorded_KeepsLast(t) ==
  [exists |-> TRUE, last |-> row.last,
   ws |-> IF ~row.exists \/ t - row.ws >= Hour THEN t ELSE row.ws,
   hc |-> HourCount(t) + 1,
   ds |-> IF ~row.exists \/ t - row.ds >= Day THEN t ELSE row.ds,
   dc |-> DayCount(t) + 1]

Recorded(t) ==
  [exists |-> TRUE, last |-> t,
   ws |-> IF ~row.exists \/ t - row.ws >= Hour THEN t ELSE row.ws,
   hc |-> HourCount(t) + 1,
   ds |-> IF ~row.exists \/ t - row.ds >= Day THEN t ELSE row.ds,
   dc |-> DayCount(t) + 1]

-----------------------------------------------------------------------------
Init ==
  /\ now = 0
  /\ pc = [s \in Senders |-> "idle"]
  /\ mu = [x \in Sessions |-> NoOne]
  /\ settings = [on |-> TRUE, interval |-> Unset, hour |-> Unset, day |-> Unset]
  /\ row = NoRow
  /\ paused = [p \in Procs |-> -1]
  /\ at = [s \in Senders |-> 0]
  /\ lim = [s \in Senders |-> NoLimits]
  /\ sends = <<>>
  /\ mine = [s \in Senders |-> 0]
  /\ edits = 0 /\ crashes = 0

Goto(s, where) == pc' = [pc EXCEPT ![s] = where]

\* safeSendMessage returns (with or without an error), its locals are gone and
\* the caller's deferred, or next, s.mu.Unlock() runs.
Forget(s) ==
  /\ Goto(s, "idle")
  /\ mine' = [mine EXCEPT ![s] = 0]
  /\ at' = [at EXCEPT ![s] = 0]
  /\ lim' = [lim EXCEPT ![s] = NoLimits]

Return_NoUnlock(s) == Forget(s) /\ mu' = mu

Return(s) == Forget(s) /\ mu' = [mu EXCEPT ![SessionOf[s]] = NoOne]

Proceed(s, where) == Goto(s, where) /\ UNCHANGED <<mu, at, lim>>

Pause(s) == paused' = [paused EXCEPT ![ProcOf[SessionOf[s]]] = now + LookupPause]

\* A handler saw a logged-in, connected Session and goes on to s.mu.Lock().
Request(s) ==
  /\ pc[s] = "idle"
  /\ Len(sends) < MaxSends
  /\ Goto(s, "lock")
  /\ UNCHANGED <<now, mu, settings, row, paused, at, lim, sends, mine, edits, crashes>>

Lock(s) ==
  /\ pc[s] = "lock"
  /\ mu[SessionOf[s]] = NoOne
  /\ mu' = [mu EXCEPT ![SessionOf[s]] = s]
  /\ Goto(s, "enter")
  /\ UNCHANGED <<now, settings, row, paused, at, lim, sends, mine, edits, crashes>>

\* recipientRateLimited: the pause is over only strictly after its end (the code
\* then also deletes it from the map, where it would not matter any more).
RateLimited_Never(s) == FALSE
RateLimited(s) == now <= paused[ProcOf[SessionOf[s]]]

\* The precheck (connection, text, recipient) and the 429 gate.
Enter(s) ==
  /\ pc[s] = "enter"
  /\ \/ Return(s)                                                \* precheck_failed
     \/ RateLimited(s) /\ Return(s)                               \* rate_limited
     \/ /\ ~RateLimited(s)
        /\ Proceed(s, "check") /\ UNCHANGED mine
  /\ UNCHANGED <<now, settings, row, paused, sends, edits, crashes>>

\* checkMessageSafety up to Begin: the settings and the time are read before the
\* advisory lock is waited for.
CheckBegin(s) ==
  /\ pc[s] = "check"
  /\ lim' = [lim EXCEPT ![s] = ReadLimits]
  /\ at' = [at EXCEPT ![s] = now]
  /\ Goto(s, IF settings.on THEN "limits" ELSE "health")
  /\ UNCHANGED <<now, mu, settings, row, paused, sends, mine, edits, crashes>>

\* The transaction of checkMessageSafety.  It only reads, and a database error
\* refuses the message like an exceeded limit does.
CheckRow(s) ==
  /\ pc[s] = "limits"
  /\ \/ Return(s)                                                \* safety_blocked
     \/ ~Blocked(lim[s], at[s]) /\ Proceed(s, "health") /\ UNCHANGED mine
  /\ UNCHANGED <<now, settings, row, paused, sends, edits, crashes>>

\* checkAccountHealthForSend refuses or lets the message through.
Health(s) ==
  /\ pc[s] = "health"
  /\ \/ Return(s)                                                \* send_paused_by_account_health
     \/ Proceed(s, "resolve") /\ UNCHANGED mine
  /\ UNCHANGED <<now, settings, row, paused, sends, edits, crashes>>

\* resolveRecipientWithLIDFallback, then the typing indicator and its sleep.
Resolve(s) ==
  /\ pc[s] = "resolve"
  /\ \/ Return(s) /\ UNCHANGED paused                            \* lid_lookup_failed
     \/ Return(s) /\ Pause(s)                                     \* lid_lookup_rate_limited
     \/ Proceed(s, "send") /\ UNCHANGED <<mine, paused>>          \* lid_resolved, lid_not_resolved
  /\ UNCHANGED <<now, settings, row, sends, edits, crashes>>

\* client.SendMessage hands the message to the server, which accepts it or not.
Send(s) ==
  /\ pc[s] = "send"
  /\ Proceed(s, "await")
  /\ \/ UNCHANGED <<sends, mine>>
     \/ /\ Len(sends) < MaxSends
        /\ sends' = Append(sends, [at |-> now, checked |-> lim[s].on, recorded |-> FALSE])
        /\ mine' = [mine EXCEPT ![s] = Len(sends) + 1]
  /\ UNCHANGED <<now, settings, row, paused, edits, crashes>>

\* The answer.  A refused message never yields success; an accepted one yields
\* an error when the 45 s context ends before its answer.
Await(s) ==
  /\ pc[s] = "await"
  /\ \/ mine[s] > 0 /\ Proceed(s, "record") /\ UNCHANGED <<mine, paused>>  \* send_success
     \/ Return(s) /\ UNCHANGED paused       \* send_timeout, send_no_lid, timelock_detected, send_failed
     \/ mine[s] = 0 /\ Return(s) /\ Pause(s) \* send_rate_limited
  /\ UNCHANGED <<now, settings, row, sends, edits, crashes>>

\* recordMessageSafety up to Begin.
RecordBegin(s) ==
  /\ pc[s] = "record"
  /\ at' = [at EXCEPT ![s] = now]
  /\ Goto(s, IF settings.on THEN "commit" ELSE "post")
  /\ UNCHANGED <<now, mu, settings, row, paused, lim, sends, mine, edits, crashes>>

\* The transaction of recordMessageSafety; its failure is only logged.
RecordCommit(s) ==
  /\ pc[s] = "commit"
  /\ Proceed(s, "post")
  /\ \/ UNCHANGED <<row, sends>>
     \/ /\ row' = Recorded(at[s])
        /\ sends' = [sends EXCEPT ![mine[s]].recorded = TRUE]
  /\ UNCHANGED <<now, settings, paused, mine, edits, crashes>>

\* post_send_delay_ms and the chat clean-up, still under s.mu.
Post(s) ==
  /\ pc[s] = "post"
  /\ Return(s)
  /\ UNCHANGED <<now, settings, row, paused, sends, edits, crashes>>

\* adminSettingsAPIHandler; every setting is a statement of its own.
SaveSettings ==
  /\ edits < MaxEdits
  /\ edits' = edits + 1
  /\ \/ \E b \in BOOLEAN : settings' = [settings EXCEPT !.on = b]
     \/ \E v \in RawValues, f \in {"interval", "hour", "day"} : settings' = [settings EXCEPT ![f] = v]
  /\ UNCHANGED <<now, pc, mu, row, paused, at, lim, sends, mine, crashes>>

Dies(s, p) == ProcOf[SessionOf[s]] = p

\* A server process dies and starts again: its goroutines, mutexes and pause
\* are gone, the row is not.
Restart(p) ==
  /\ crashes < MaxCrashes
  /\ crashes' = crashes + 1
  /\ pc' = [s \in Senders |-> IF Dies(s, p) THEN "idle" ELSE pc[s]]
  /\ mine' = [s \in Senders |-> IF Dies(s, p) THEN 0 ELSE mine[s]]
  /\ at' = [s \in Senders |-> IF Dies(s, p) THEN 0 ELSE at[s]]
  /\ lim' = [s \in Senders |-> IF Dies(s, p) THEN NoLimits ELSE lim[s]]
  /\ mu' = [x \in Sessions |-> IF ProcOf[x] = p THEN NoOne ELSE mu[x]]
  /\ paused' = [paused EXCEPT ![p] = -1]
  /\ UNCHANGED <<now, settings, row, sends, edits>>

Tick ==
  /\ now < MaxTime
  /\ now' = now + 1
  /\ UNCHANGED <<pc, mu, settings, row, paused, at, lim, sends, mine, edits, crashes>>

\* One step of the send path of sender s after it asked for the mutex.
Step(s) ==
  \/ Lock(s) \/ Enter(s) \/ CheckBegin(s) \/ CheckRow(s) \/ Health(s) \/ Resolve(s)
  \/ Send(s) \/ Await(s) \/ RecordBegin(s) \/ RecordCommit(s) \/ Post(s)

Next ==
  \/ \E s \in Senders : Request(s) \/ Step(s)
  \/ SaveSettings
  \/ \E p \in Procs : Restart(p)
  \/ Tick

Spec == Init /\ [][Next]_vars

\* The goroutines run, the network calls end by their context, and sync.Mutex
\* hands the lock to a waiter that has waited long (its starvation mode).
Fairness ==
  \A s \in Senders : SF_vars(Lock(s)) /\ WF_vars(Step(s))

FairSpec == Spec /\ Fairness

-----------------------------------------------------------------------------
(***************************************************************************)
(* Properties                                                              *)
(***************************************************************************)

\* Every variable keeps its type; in particular a limit in force always lies
\* in the range settingInt promises, whatever the administrator stored.
TypeOK ==
  /\ now \in Time
  /\ pc \in [Senders -> Outside \cup Inside]
  /\ mu \in [Sessions -> Senders \cup {NoOne}]
  /\ settings \in Settings
  /\ row \in Row
  /\ paused \in [Procs -> Int]
  /\ at \in [Senders -> Time]
  /\ lim \in [Senders -> Limits]
  /\ sends \in Seq(Message)
  /\ mine \in [Senders -> Nat]
  /\ edits \in Nat /\ crashes \in Nat

\* Session.mu is held exactly by the sender that is inside safeSendMessage, so
\* two goroutines never run it for one Session at the same time.
MutualExclusion ==
  \A s \in Senders : pc[s] \in Inside <=> mu[SessionOf[s]] = s

\* The cooldown: a message the limiter approved leaves at least the smallest
\* configurable interval after every earlier message that was recorded.
SpacedSends ==
  \A i, j \in 1..Len(sends) :
    i < j /\ sends[i].recorded /\ sends[j].checked
      => sends[j].at - sends[i].at >= Interval.min

\* Messages that passed the check and were recorded, sent in from..to.
Counted(from, to) ==
  {i \in 1..Len(sends) : sends[i].checked /\ sends[i].recorded /\ sends[i].at \in from..to}

\* The hourly and the daily limit hold in the window the row describes.
WindowLimits ==
  row.exists =>
    /\ Cardinality(Counted(row.ws, row.ws + Hour - 1)) <= PerHour.max
    /\ Cardinality(Counted(row.ds, row.ds + Day - 1)) <= PerDay.max

\* While the pause after a 429 lasts, no handler is in the recipient's lookup or in the
\* send: neither one that asks now nor one that passed the gate before.
NoCallsWhilePaused ==
  \A s \in Senders : pc[s] \in Calling => ~(now <= paused[ProcOf[SessionOf[s]]])

\* Every handler that waits for the mutex eventually returns.
HandlerReturns == \A s \in Senders : pc[s] = "lock" ~> pc[s] = "idle"

=============================================================================
