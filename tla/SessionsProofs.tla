--------------------------- MODULE SessionsProofs ---------------------------
(***************************************************************************)
(* Theorems about Sessions, for any number of requests in flight, devices, *)
(* pairing links, errors, faults and restarts.                             *)
(***************************************************************************)
EXTENDS Sessions, TLAPS

(***************************************************************************)
(* The inductive invariant                                                 *)
(***************************************************************************)

\* A handler that pairs, one that saves and activates, one that logs out.
Creating(h) == pc[h] \in {"create", "phone"}
Saving(h) == pc[h] \in {"save1", "save2", "use", "activate"}
Leaving(h) == pc[h] \in {"logout", "delete1", "delete2"}

\* The device a handler pairs has no code yet and is nobody else's; the device it
\* saves had a JID when the handler looked.
Own ==
  /\ \A h \in Handlers : Creating(h) \/ Saving(h) \/ pc[h] = "logout" => mine[h] \in Devices
  /\ \A h \in Handlers : pc[h] = "use" => kind[h] \in Tokens
  /\ \A h \in Handlers : Creating(h) => dev[mine[h]].st = "new" /\ dev[mine[h]].code = "none"
  /\ \A g, h \in Handlers : g # h /\ Creating(g) /\ Creating(h) => mine[g] # mine[h]
  /\ \A h \in Handlers : Saving(h) => dev[mine[h]].st \in {"paired", "deleted"}

Typed == TypeOK /\ Own

-----------------------------------------------------------------------------
(***************************************************************************)
(* What handlers and devices may do                                        *)
(***************************************************************************)

\* Only h moves.
Moves(h) ==
  /\ pc' \in [Handlers -> Steps] /\ kind' \in [Handlers -> Kinds] /\ mine' \in [Handlers -> Maybe]
  /\ \A g \in Handlers \ {h} : pc'[g] = pc[g] /\ kind'[g] = kind[g] /\ mine'[g] = mine[g]

\* The clients stay coherent; a device without a code stays new, and a device that
\* once had a JID never becomes new again.
DevicesAge ==
  /\ dev' \in [Devices -> Device] /\ \A d \in Devices : Coherent(dev'[d])
  /\ \A d \in Devices :
       /\ dev[d].st = "new" /\ dev[d].code = "none" =>
            dev'[d].st = "new" /\ dev'[d].code = "none"
       /\ dev[d].st \in {"paired", "deleted"} => dev'[d].st \in {"paired", "deleted"}

LEMMA ReturnMoves ==
  ASSUME TypeOK, NEW h \in Handlers, Return(h)
  PROVE  Moves(h) /\ pc'[h] = "idle" /\ kind'[h] = Admin /\ mine'[h] = None
BY DEF TypeOK, Return, Goto, Moves, Steps, Kinds, Maybe

LEMMA ContinueMoves ==
  ASSUME TypeOK, NEW h \in Handlers, NEW where \in Steps, Continue(h, where)
  PROVE  Moves(h) /\ pc'[h] = where /\ kind'[h] = kind[h] /\ mine'[h] = mine[h]
BY DEF TypeOK, Continue, Goto, Moves

\* One device changes: what is asked of it alone.
LEMMA DeviceAges ==
  ASSUME TypeOK, NEW d \in Devices, NEW x \in Device, Coherent(x),
         dev' = [dev EXCEPT ![d] = x],
         dev[d].st = "new" /\ dev[d].code = "none" => x.st = "new" /\ x.code = "none",
         dev[d].st \in {"paired", "deleted"} => x.st \in {"paired", "deleted"}
  PROVE  DevicesAge /\ dev'[d] = x /\ \A e \in Devices \ {d} : dev'[e] = dev[e]
BY DEF TypeOK, DevicesAge

LEMMA DevicesUntouched ==
  ASSUME TypeOK, UNCHANGED dev
  PROVE  DevicesAge
BY DEF TypeOK, DevicesAge

LEMMA AbsentType == Absent \in Device /\ Stored \in Device
BY DEF Absent, Stored, Device

\* The parts of TypeOK that few actions change.
RestOK ==
  /\ active \in Maybe /\ pending \in Maybe /\ userRow \in Maybe /\ waRow \in Maybe
  /\ link \in [Tokens -> {"open", "used", "expired"}] /\ auto \in [Tokens -> Nat]
  /\ alone \in Handlers \cup {None} /\ clean \in BOOLEAN
  /\ errors \in Nat /\ faults \in Nat /\ restarts \in Nat

\* A step of one handler that takes no new device.
LEMMA TypedStep ==
  ASSUME Typed, NEW h \in Handlers, Moves(h), DevicesAge, RestOK',
         pc'[h] = "phone" => pc[h] = "create" /\ mine'[h] = mine[h],
         pc'[h] # "create",
         Saving(h)' => mine'[h] \in Devices /\ dev'[mine'[h]].st \in {"paired", "deleted"},
         pc'[h] = "logout" => mine'[h] \in Devices,
         pc'[h] = "use" => kind'[h] \in Tokens
  PROVE  Typed'
<1> USE DEF Typed
<1>1. TypeOK'
  BY DEF TypeOK, Moves, DevicesAge, RestOK
<1>2. ASSUME NEW g \in Handlers
      PROVE  /\ (Creating(g) \/ Saving(g) \/ pc[g] = "logout")' => mine'[g] \in Devices
             /\ pc'[g] = "use" => kind'[g] \in Tokens
             /\ Creating(g)' => /\ Creating(g) /\ mine'[g] = mine[g]
                                /\ dev'[mine'[g]].st = "new" /\ dev'[mine'[g]].code = "none"
             /\ Saving(g)' => dev'[mine'[g]].st \in {"paired", "deleted"}
  <2>1. CASE g # h
    BY <2>1 DEF Own, Creating, Saving, Moves, DevicesAge
  <2>2. CASE g = h
    BY <2>2 DEF Own, Creating, Saving, DevicesAge
  <2>3. QED
    BY <2>1, <2>2
<1>3. Own'
  BY <1>2 DEF Own
<1>4. QED
  BY <1>1, <1>3

\* A step of no handler.
LEMMA TypedEvent ==
  ASSUME Typed, UNCHANGED <<pc, kind, mine>>, DevicesAge, RestOK'
  PROVE  Typed'
<1> USE DEF Typed
<1>1. TypeOK'
  BY DEF TypeOK, DevicesAge, RestOK
<1>2. Own'
  BY DEF Own, Creating, Saving, DevicesAge
<1>3. QED
  BY <1>1, <1>2

-----------------------------------------------------------------------------
(***************************************************************************)
(* Types, action by action                                                 *)
(***************************************************************************)

LEMMA RestTyped == TypeOK => RestOK
BY DEF TypeOK, RestOK

LEMMA CountsKept ==
  ASSUME RestOK
  PROVE  (DbError => errors' \in Nat) /\ (Fault => faults' \in Nat)
BY DEF RestOK, DbError, Fault

LEMMA LookedUp ==
  ASSUME TypeOK
  PROVE  getSession \in Maybe /\ (getSession # None => getSession \in Devices)
BY DEF TypeOK, getSession, Maybe

LEMMA TypedInit == Init => Typed
<1> SUFFICES ASSUME Init PROVE Typed
  OBVIOUS
<1>1. dev \in [Devices -> Device]
  BY AbsentType DEF Init
<1>2. Coherent(Absent) /\ Coherent(Stored)
  BY DEF Coherent, Absent, Stored
<1>3. TypeOK
  BY <1>1, <1>2 DEF Init, TypeOK, Maybe, Kinds, Steps
<1>4. Own
  BY DEF Init, Own, Creating, Saving
<1>5. QED
  BY <1>3, <1>4 DEF Typed

LEMMA TypedRequest ==
  ASSUME Typed, NEW h \in Handlers, NEW k \in Kinds, NEW where \in {"pair", "poll"},
         Request(h, k, where)
  PROVE  Typed'
<1>1. TypeOK /\ RestOK
  BY RestTyped DEF Typed
<1>2. Moves(h) /\ pc'[h] = where
  BY <1>1 DEF TypeOK, Moves, Request, Goto, Steps
<1>3. DevicesAge
  BY <1>1, DevicesUntouched DEF Request
<1>4. RestOK'
  BY <1>1 DEF RestOK, Request, memory, tables, bounds
<1>5. QED
  BY <1>2, <1>3, <1>4, TypedStep DEF Saving

LEMMA TypedPairLook ==
  ASSUME Typed, NEW h \in Handlers, PairLook(h)
  PROVE  Typed'
<1>1. TypeOK /\ RestOK
  BY RestTyped DEF Typed
<1>2. RestOK'
  BY <1>1, CountsKept DEF RestOK, PairLook, memory, tables
<1>3. CASE Return(h) /\ UNCHANGED dev
  <2>1. Moves(h) /\ pc'[h] = "idle" /\ DevicesAge
    BY <1>1, <1>3, ReturnMoves, DevicesUntouched
  <2>2. QED
    BY <1>2, <2>1, TypedStep DEF Saving
<1>4. ASSUME NEW d \in Devices, dev[d].st = "absent",
             dev' = [dev EXCEPT ![d] = [Absent EXCEPT !.st = "new", !.conn = TRUE, !.tries = TRUE]],
             mine' = [mine EXCEPT ![h] = d], Goto(h, "create"), UNCHANGED kind
      PROVE  Typed'
  <2> DEFINE x == [Absent EXCEPT !.st = "new", !.conn = TRUE, !.tries = TRUE]
  <2>1. x \in Device /\ Coherent(x) /\ x.st = "new" /\ x.code = "none"
    BY DEF Absent, Device, Coherent
  <2> HIDE DEF x
  <2>2. dev' = [dev EXCEPT ![d] = x]
    BY <1>4 DEF x
  <2>3. DevicesAge /\ dev'[d] = x
    BY <1>1, <1>4, <2>1, <2>2, DeviceAges
  <2>4. Moves(h) /\ pc'[h] = "create" /\ mine'[h] = d
    BY <1>1, <1>4 DEF TypeOK, Moves, Goto, Steps, Maybe
  <2>5. TypeOK'
    BY <1>2, <2>3, <2>4 DEF TypeOK, Moves, DevicesAge, RestOK
  <2>6. \A g \in Handlers \ {h} : Creating(g)' => Creating(g) /\ mine'[g] = mine[g] /\ mine[g] # d
    BY <1>4, <2>4 DEF Typed, Own, Creating, Moves
  <2>7. ASSUME NEW g \in Handlers
        PROVE  /\ (Creating(g) \/ Saving(g) \/ pc[g] = "logout")' => mine'[g] \in Devices
               /\ pc'[g] = "use" => kind'[g] \in Tokens
               /\ Creating(g)' => dev'[mine'[g]].st = "new" /\ dev'[mine'[g]].code = "none"
               /\ Saving(g)' => dev'[mine'[g]].st \in {"paired", "deleted"}
    <3>1. CASE g # h
      BY <2>3, <2>4, <3>1 DEF Typed, Own, Creating, Saving, Moves, DevicesAge
    <3>2. CASE g = h
      BY <2>1, <2>3, <2>4, <3>2 DEF Creating, Saving
    <3>3. QED
      BY <3>1, <3>2
  <2>8. ASSUME NEW f \in Handlers, NEW g \in Handlers, f # g, Creating(f)', Creating(g)'
        PROVE  mine'[f] # mine'[g]
    BY <2>4, <2>6, <2>8 DEF Typed, Own
  <2>9. Own'
    BY <2>7, <2>8 DEF Own
  <2>10. QED
    BY <2>5, <2>9 DEF Typed
<1>5. QED
  BY <1>3, <1>4 DEF PairLook

LEMMA TypedPairCreate ==
  ASSUME Typed, NEW h \in Handlers, PairCreate(h)
  PROVE  Typed'
<1>1. TypeOK /\ RestOK
  BY RestTyped DEF Typed
<1>2. RestOK'
  BY <1>1 DEF RestOK, PairCreate, memory, tables, history, bounds, TypeOK
<1>3. DevicesAge
  BY <1>1, DevicesUntouched DEF PairCreate
<1>4. Moves(h) /\ (pc'[h] = "idle" \/ (pc'[h] = "phone" /\ mine'[h] = mine[h]))
  <2>1. CASE Return(h)
    BY <1>1, <2>1, ReturnMoves
  <2>2. CASE Continue(h, "phone")
    <3>1. "phone" \in Steps
      BY DEF Steps
    <3>2. QED
      BY <1>1, <2>2, <3>1, ContinueMoves
  <2>3. QED
    BY <2>1, <2>2 DEF PairCreate
<1>5. QED
  BY <1>2, <1>3, <1>4, TypedStep DEF PairCreate, Saving

LEMMA TypedPairPhone ==
  ASSUME Typed, NEW h \in Handlers, PairPhone(h)
  PROVE  Typed'
<1>1. TypeOK /\ RestOK
  BY RestTyped DEF Typed
<1>2. Moves(h) /\ pc'[h] = "idle"
  BY <1>1, ReturnMoves DEF PairPhone
<1>3. RestOK'
  BY <1>1, CountsKept DEF RestOK, PairPhone, removeSession, memory, tables, history, Maybe
<1>4. CASE UNCHANGED dev
  BY <1>1, <1>2, <1>3, <1>4, DevicesUntouched, TypedStep DEF Saving
<1>5. CASE dev' = [dev EXCEPT ![mine[h]].code = "live"]
  <2> DEFINE d == mine[h]
             x == [dev[d] EXCEPT !.code = "live"]
  <2>1. d \in Devices /\ dev[d].st = "new" /\ dev[d] \in Device /\ Coherent(dev[d])
    BY <1>1 DEF Typed, Own, Creating, PairPhone, TypeOK
  <2>2. x \in Device /\ Coherent(x) /\ x.st = "new"
    BY <2>1 DEF Device, Coherent
  <2> HIDE DEF x
  <2>3. dev' \in [Devices -> Device] /\ dev'[d] = x /\ \A e \in Devices \ {d} : dev'[e] = dev[e]
    BY <1>1, <1>5, <2>1, <2>2 DEF x, TypeOK
  <2>4. TypeOK'
    BY <1>1, <1>2, <1>3, <2>2, <2>3 DEF TypeOK, Moves, RestOK
  <2>5. ASSUME NEW g \in Handlers
        PROVE  /\ (Creating(g) \/ Saving(g) \/ pc[g] = "logout")' => mine'[g] \in Devices
               /\ pc'[g] = "use" => kind'[g] \in Tokens
               /\ Creating(g)' => /\ Creating(g) /\ mine'[g] = mine[g]
                                  /\ dev'[mine'[g]].st = "new" /\ dev'[mine'[g]].code = "none"
               /\ Saving(g)' => dev'[mine'[g]].st \in {"paired", "deleted"}
    <3>1. CASE g # h
      <4>1. pc'[g] = pc[g] /\ kind'[g] = kind[g] /\ mine'[g] = mine[g]
        BY <1>2, <3>1 DEF Moves
      <4>2. Creating(g) \/ Saving(g) => mine[g] # d
        BY <2>1, <3>1 DEF Typed, Own, Creating, Saving, PairPhone
      <4>3. QED
        BY <2>3, <4>1, <4>2 DEF Typed, Own, Creating, Saving
    <3>2. CASE g = h
      BY <1>2, <3>2 DEF Creating, Saving
    <3>3. QED
      BY <3>1, <3>2
  <2>6. Own'
    BY <2>5 DEF Own, Typed
  <2>7. QED
    BY <2>4, <2>6 DEF Typed
<1>6. QED
  BY <1>4, <1>5 DEF PairPhone

LEMMA TypedPollLook ==
  ASSUME Typed, NEW h \in Handlers, PollLook(h)
  PROVE  Typed'
<1>1. TypeOK /\ RestOK
  BY RestTyped DEF Typed
<1>2. RestOK' /\ DevicesAge
  BY <1>1, DevicesUntouched DEF RestOK, PollLook, memory, tables, history, bounds
<1>3. CASE Return(h)
  BY <1>1, <1>2, <1>3, ReturnMoves, TypedStep DEF Saving
<1>4. CASE /\ HasJID(getSession) /\ mine' = [mine EXCEPT ![h] = getSession]
           /\ Goto(h, "save1") /\ UNCHANGED kind
  <2>1. getSession \in Devices /\ dev[getSession].st = "paired"
    BY <1>1, <1>4, LookedUp DEF HasJID
  <2>2. Moves(h) /\ pc'[h] = "save1" /\ mine'[h] = getSession
    BY <1>1, <1>4, LookedUp DEF TypeOK, Moves, Goto, Steps
  <2>3. dev' = dev
    BY DEF PollLook
  <2>4. QED
    BY <1>2, <2>1, <2>2, <2>3, TypedStep
<1>5. QED
  BY <1>3, <1>4 DEF PollLook

\* What the caller of saveUserSession does next.
LEMMA AfterSaveMoves ==
  ASSUME TypeOK, NEW h \in Handlers, NEW ok \in BOOLEAN, AfterSave(h, ok)
  PROVE  /\ Moves(h) /\ pc'[h] \in {"idle", "use", "activate"}
         /\ pc'[h] # "idle" => mine'[h] = mine[h] /\ kind'[h] = kind[h]
         /\ pc'[h] = "use" => kind[h] # Admin
         /\ pc'[h] = "activate" => kind[h] = Admin /\ ok
<1>1. "use" \in Steps /\ "activate" \in Steps
  BY DEF Steps
<1>2. CASE Return(h) /\ kind[h] = Admin
  BY <1>2, ReturnMoves
<1>3. CASE Continue(h, "activate") /\ kind[h] = Admin /\ ok
  BY <1>1, <1>3, ContinueMoves
<1>4. CASE Continue(h, "use") /\ kind[h] # Admin
  BY <1>1, <1>4, ContinueMoves
<1>5. QED
  BY <1>2, <1>3, <1>4 DEF AfterSave

LEMMA TypedSave1 ==
  ASSUME Typed, NEW h \in Handlers, Save1(h)
  PROVE  Typed'
<1>1. TypeOK /\ RestOK
  BY RestTyped DEF Typed
<1>2. mine[h] \in Devices /\ dev[mine[h]].st \in {"paired", "deleted"} /\ dev' = dev
  BY DEF Typed, Own, Saving, Save1
<1>3. RestOK'
  BY <1>1, <1>2, CountsKept DEF RestOK, Save1, Ignored, memory, Maybe
<1>4. DevicesAge
  BY <1>1, <1>2, DevicesUntouched
<1>5. CASE Return(h)
  BY <1>1, <1>3, <1>4, <1>5, ReturnMoves, TypedStep DEF Saving
<1>6. CASE Continue(h, "save2")
  <2>1. "save2" \in Steps
    BY DEF Steps
  <2>2. QED
    BY <1>1, <1>2, <1>3, <1>4, <1>6, <2>1, ContinueMoves, TypedStep
<1>7. CASE AfterSave(h, FALSE)
  <2>1. /\ Moves(h) /\ pc'[h] \in {"idle", "use", "activate"}
        /\ pc'[h] # "idle" => mine'[h] = mine[h] /\ kind'[h] = kind[h]
        /\ pc'[h] = "use" => kind[h] # Admin
    BY <1>1, <1>7, AfterSaveMoves
  <2>2. kind[h] \in Tokens \cup {Admin}
    BY <1>1 DEF TypeOK, Kinds
  <2>3. QED
    BY <1>2, <1>3, <1>4, <2>1, <2>2, TypedStep DEF Saving
<1>8. QED
  BY <1>5, <1>6, <1>7 DEF Save1

LEMMA TypedSave2 ==
  ASSUME Typed, NEW h \in Handlers, Save2(h)
  PROVE  Typed'
<1>1. TypeOK /\ RestOK
  BY RestTyped DEF Typed
<1>2. mine[h] \in Devices /\ dev[mine[h]].st \in {"paired", "deleted"} /\ dev' = dev
  BY DEF Typed, Own, Saving, Save2
<1>3. RestOK'
  BY <1>1, <1>2, CountsKept DEF RestOK, Save2, Ignored, memory, Maybe
<1>4. DevicesAge
  BY <1>1, <1>2, DevicesUntouched
<1>5. /\ Moves(h) /\ pc'[h] \in {"idle", "use", "activate"}
      /\ pc'[h] # "idle" => mine'[h] = mine[h] /\ kind'[h] = kind[h]
      /\ pc'[h] = "use" => kind[h] # Admin
  BY <1>1, AfterSaveMoves DEF Save2
<1>6. kind[h] \in Tokens \cup {Admin}
  BY <1>1 DEF TypeOK, Kinds
<1>7. QED
  BY <1>2, <1>3, <1>4, <1>5, <1>6, TypedStep DEF Saving

LEMMA TypedUse ==
  ASSUME Typed, NEW h \in Handlers, Use(h)
  PROVE  Typed'
<1>1. TypeOK /\ RestOK
  BY RestTyped DEF Typed
<1>2. /\ mine[h] \in Devices /\ dev[mine[h]].st \in {"paired", "deleted"} /\ dev' = dev
      /\ kind[h] \in Tokens
  BY DEF Typed, Own, Saving, Use
<1>3. RestOK'
  <2>1. RowsAffected(kind[h]) \in Nat
    BY DEF RowsAffected
  <2>2. auto' \in [Tokens -> Nat] /\ link' \in [Tokens -> {"open", "used", "expired"}]
    BY <1>1, <1>2, <2>1 DEF RestOK, Use
  <2>3. QED
    BY <1>1, <2>2, CountsKept DEF RestOK, Use, memory
<1>4. DevicesAge
  BY <1>1, <1>2, DevicesUntouched
<1>5. Moves(h) /\ pc'[h] = "activate" /\ mine'[h] = mine[h]
  <2>1. "activate" \in Steps
    BY DEF Steps
  <2>2. QED
    BY <1>1, <2>1, ContinueMoves DEF Use
<1>6. QED
  BY <1>2, <1>3, <1>4, <1>5, TypedStep

LEMMA TypedActivate ==
  ASSUME Typed, NEW h \in Handlers, Activate(h)
  PROVE  Typed'
<1>1. TypeOK /\ RestOK
  BY RestTyped DEF Typed
<1>2. RestOK' /\ DevicesAge
  <2>1. mine[h] \in Maybe /\ None \in Maybe
    BY <1>1 DEF TypeOK, Maybe
  <2>2. QED
    BY <1>1, <2>1, DevicesUntouched DEF RestOK, Activate, setActive, tables, history, bounds
<1>3. Moves(h) /\ pc'[h] = "idle"
  BY <1>1, ReturnMoves DEF Activate
<1>4. QED
  BY <1>2, <1>3, TypedStep DEF Saving

LEMMA TypedLogoutBegin ==
  ASSUME Typed, NEW h \in Handlers, LogoutBegin(h)
  PROVE  Typed'
<1>1. TypeOK /\ RestOK
  BY RestTyped DEF Typed
<1>2. RestOK' /\ DevicesAge
  BY <1>1, DevicesUntouched DEF RestOK, LogoutBegin, removeSession, tables, bounds, Maybe
<1>3. /\ Moves(h) /\ mine'[h] = active
      /\ pc'[h] = IF active = None THEN "delete1" ELSE "logout"
  BY <1>1 DEF TypeOK, Moves, LogoutBegin, Goto, Steps
<1>4. active # None => active \in Devices
  BY <1>1 DEF TypeOK, Maybe
<1>5. QED
  BY <1>2, <1>3, <1>4, TypedStep DEF Saving

LEMMA TypedLogoutClient ==
  ASSUME Typed, NEW h \in Handlers, LogoutClient(h)
  PROVE  Typed'
<1>1. TypeOK /\ RestOK
  BY RestTyped DEF Typed
<1>2. mine[h] \in Devices
  BY DEF Typed, Own, LogoutClient
<1>3. RestOK'
  BY <1>1, CountsKept DEF RestOK, LogoutClient, memory, tables, history
<1>4. Moves(h) /\ pc'[h] = "delete1"
  <2>1. "delete1" \in Steps
    BY DEF Steps
  <2>2. QED
    BY <1>1, <2>1, ContinueMoves DEF LogoutClient
<1>5. DevicesAge
  <2> DEFINE d == mine[h]
             x == LoggedOut(dev[d])
             y == [LoggedOut(dev[d]) EXCEPT !.st = "paired"]
  <2>1. dev[d] \in Device /\ Coherent(dev[d])
    BY <1>1, <1>2 DEF TypeOK
  <2>2. CASE UNCHANGED dev
    BY <1>1, <2>2, DevicesUntouched
  <2>3. ASSUME dev[d].st = "paired"
        PROVE  /\ x \in Device /\ Coherent(x) /\ x.st = "deleted"
               /\ y \in Device /\ Coherent(y) /\ y.st = "paired"
    BY <2>1, <2>3 DEF LoggedOut, Device, Coherent
  <2> HIDE DEF x, y
  <2>4. CASE dev[d].st = "paired" /\ dev' = [dev EXCEPT ![d] = x]
    BY <1>1, <1>2, <2>3, <2>4, DeviceAges
  <2>5. CASE dev[d].st = "paired" /\ dev' = [dev EXCEPT ![d] = y]
    BY <1>1, <1>2, <2>3, <2>5, DeviceAges
  <2>6. QED
    BY <2>2, <2>4, <2>5 DEF LogoutClient, x, y
<1>6. QED
  BY <1>3, <1>4, <1>5, TypedStep DEF Saving

LEMMA TypedDelete1 ==
  ASSUME Typed, NEW h \in Handlers, Delete1(h)
  PROVE  Typed'
<1>1. TypeOK /\ RestOK
  BY RestTyped DEF Typed
<1>2. RestOK' /\ DevicesAge
  BY <1>1, CountsKept, DevicesUntouched DEF RestOK, Delete1, memory, Maybe
<1>3. Moves(h) /\ pc'[h] \in {"idle", "delete2"}
  <2>1. "delete2" \in Steps
    BY DEF Steps
  <2>2. QED
    BY <1>1, <2>1, ContinueMoves, ReturnMoves DEF Delete1
<1>4. QED
  BY <1>2, <1>3, TypedStep DEF Saving

LEMMA TypedDelete2 ==
  ASSUME Typed, NEW h \in Handlers, Delete2(h)
  PROVE  Typed'
<1>1. TypeOK /\ RestOK
  BY RestTyped DEF Typed
<1>2. RestOK' /\ DevicesAge
  BY <1>1, CountsKept, DevicesUntouched DEF RestOK, Delete2, memory, Maybe
<1>3. Moves(h) /\ pc'[h] = "idle"
  BY <1>1, ReturnMoves DEF Delete2
<1>4. QED
  BY <1>2, <1>3, TypedStep DEF Saving

\* An event on one client, with everything else as it was.
LEMMA TypedDevice ==
  ASSUME Typed, NEW d \in Devices, NEW x \in Device, Coherent(x),
         dev' = [dev EXCEPT ![d] = x],
         dev[d].st = "new" => dev[d].code # "none" \/ (x.st = "new" /\ x.code = "none"),
         dev[d].st \in {"paired", "deleted"} => x.st \in {"paired", "deleted"},
         UNCHANGED <<memory, tables, history, pc, kind, mine, errors, restarts>>,
         faults' \in Nat
  PROVE  Typed'
<1>1. DevicesAge
  BY DeviceAges DEF Typed
<1>2. RestOK'
  BY RestTyped DEF Typed, RestOK, memory, tables, history
<1>3. QED
  BY <1>1, <1>2, TypedEvent

LEMMA DeviceType ==
  ASSUME Typed, NEW d \in Devices
  PROVE  dev[d] \in Device /\ Coherent(dev[d]) /\ dev \in [Devices -> Device]
BY DEF Typed, TypeOK

LEMMA FaultsType ==
  ASSUME Typed, Fault \/ UNCHANGED faults
  PROVE  faults' \in Nat
BY DEF Typed, TypeOK, Fault

LEMMA TypedReconnect ==
  ASSUME Typed, NEW h \in Handlers, Reconnect(h)
  PROVE  Typed'
<1> DEFINE d == getSession
           x == [dev[d] EXCEPT !.conn = TRUE, !.tries = TRUE]
<1>1. d \in Devices
  BY LookedUp DEF Typed, Reconnect
<1>2. dev[d] \in Device /\ Coherent(dev[d]) /\ dev \in [Devices -> Device]
  BY <1>1, DeviceType
<1>3. x \in Device /\ Coherent(x) /\ x.st = "paired" /\ dev[d].st = "paired"
  BY <1>2 DEF Reconnect, Device, Coherent
<1>4. dev' = [dev EXCEPT ![d] = x]
  BY <1>1, <1>2 DEF Reconnect
<1> HIDE DEF x, d
<1>5. QED
  BY <1>1, <1>3, <1>4, TypedDevice, FaultsType DEF Reconnect, bounds

LEMMA TypedEnterCode ==
  ASSUME Typed, NEW d \in Devices, EnterCode(d)
  PROVE  Typed'
<1> DEFINE x == [Stored EXCEPT !.tries = TRUE]
           y == [dev[d] EXCEPT !.conn = FALSE, !.tries = FALSE]
           z == [Absent EXCEPT !.st = "deleted"]
<1>1. /\ dev[d] \in Device /\ Coherent(dev[d]) /\ dev \in [Devices -> Device]
      /\ dev[d].st = "new" /\ dev[d].code = "live"
  BY DeviceType DEF EnterCode
<1>2. x \in Device /\ Coherent(x)
  BY DEF Stored, Absent, Device, Coherent
<1>3. y \in Device /\ Coherent(y)
  BY <1>1 DEF Device, Coherent
<1>4. z \in Device /\ Coherent(z)
  BY DEF Absent, Device, Coherent
<1>5. dev' = [dev EXCEPT ![d] = x] \/ dev' = [dev EXCEPT ![d] = y] \/ dev' = [dev EXCEPT ![d] = z]
  BY <1>1 DEF EnterCode
<1> HIDE DEF x, y, z
<1>6. faults' \in Nat
  BY FaultsType DEF EnterCode
<1>7. UNCHANGED <<memory, tables, history, pc, kind, mine, errors, restarts>>
  BY DEF EnterCode
<1>8. QED
  BY <1>1, <1>2, <1>3, <1>4, <1>5, <1>6, <1>7, TypedDevice

LEMMA TypedCodeExpires ==
  ASSUME Typed, NEW d \in Devices, CodeExpires(d)
  PROVE  Typed'
<1> DEFINE x == [dev[d] EXCEPT !.conn = FALSE, !.code = "expired"]
<1>1. /\ dev[d] \in Device /\ Coherent(dev[d]) /\ dev \in [Devices -> Device]
      /\ dev[d].st = "new" /\ dev[d].code = "live"
  BY DeviceType DEF CodeExpires
<1>2. x \in Device /\ Coherent(x)
  BY <1>1 DEF Device, Coherent
<1>3. dev' = [dev EXCEPT ![d] = x]
  BY <1>1 DEF CodeExpires
<1> HIDE DEF x
<1>4. QED
  BY <1>1, <1>2, <1>3, TypedDevice, FaultsType DEF CodeExpires, bounds

LEMMA TypedLogIn ==
  ASSUME Typed, NEW d \in Devices, LogIn(d)
  PROVE  Typed'
<1> DEFINE x == [dev[d] EXCEPT !.conn = TRUE, !.logged = TRUE]
           y == [dev[d] EXCEPT !.conn = FALSE, !.st = "deleted"]
<1>1. /\ dev[d] \in Device /\ Coherent(dev[d]) /\ dev \in [Devices -> Device]
      /\ dev[d].st = "paired"
  BY DeviceType DEF LogIn
<1>2. x \in Device /\ Coherent(x) /\ x.st = "paired"
  BY <1>1 DEF Device, Coherent
<1>3. ~dev[d].linked => y \in Device /\ Coherent(y) /\ y.st = "deleted"
  BY <1>1 DEF Device, Coherent
<1>4. dev' = [dev EXCEPT ![d] = x] \/ (~dev[d].linked /\ dev' = [dev EXCEPT ![d] = y])
  BY <1>1 DEF LogIn
<1> HIDE DEF x, y
<1>5. UNCHANGED <<memory, tables, history, pc, kind, mine, errors, restarts>> /\ faults' \in Nat
  BY FaultsType DEF LogIn, bounds
<1>6. QED
  BY <1>1, <1>2, <1>3, <1>4, <1>5, TypedDevice

LEMMA TypedDrop ==
  ASSUME Typed, NEW d \in Devices, Drop(d)
  PROVE  Typed'
<1> DEFINE x == [dev[d] EXCEPT !.conn = FALSE]
<1>1. dev[d] \in Device /\ Coherent(dev[d]) /\ dev \in [Devices -> Device]
  BY DeviceType
<1>2. x \in Device /\ Coherent(x) /\ x.st = dev[d].st /\ x.code = dev[d].code
  BY <1>1 DEF Device, Coherent
<1>3. dev' = [dev EXCEPT ![d] = x]
  BY <1>1 DEF Drop
<1> HIDE DEF x
<1>4. QED
  BY <1>1, <1>2, <1>3, TypedDevice, FaultsType DEF Drop

LEMMA TypedPhoneRemoves ==
  ASSUME Typed, NEW d \in Devices, PhoneRemoves(d)
  PROVE  Typed'
<1> DEFINE x == [dev[d] EXCEPT !.linked = FALSE, !.conn = FALSE, !.logged = FALSE, !.st = "deleted"]
           y == [dev[d] EXCEPT !.linked = FALSE]
<1>1. /\ dev[d] \in Device /\ Coherent(dev[d]) /\ dev \in [Devices -> Device]
      /\ dev[d].st = "paired"
  BY DeviceType DEF PhoneRemoves, Coherent
<1>2. x \in Device /\ Coherent(x) /\ x.st = "deleted"
  BY <1>1 DEF Device, Coherent
<1>3. y \in Device /\ Coherent(y) /\ y.st = "paired"
  BY <1>1 DEF Device, Coherent
<1>4. dev' = [dev EXCEPT ![d] = x] \/ dev' = [dev EXCEPT ![d] = y]
  BY <1>1 DEF PhoneRemoves
<1> HIDE DEF x, y
<1>5. UNCHANGED <<memory, tables, history, pc, kind, mine, errors, restarts>> /\ faults' \in Nat
  BY FaultsType DEF PhoneRemoves
<1>6. QED
  BY <1>1, <1>2, <1>3, <1>4, <1>5, TypedDevice

LEMMA TypedLinkExpires ==
  ASSUME Typed, NEW t \in Tokens, LinkExpires(t)
  PROVE  Typed'
<1>1. TypeOK /\ RestOK
  BY RestTyped DEF Typed
<1>2. DevicesAge /\ RestOK' /\ UNCHANGED <<pc, kind, mine>>
  BY <1>1, DevicesUntouched DEF RestOK, LinkExpires, memory, history, bounds
<1>3. QED
  BY <1>2, TypedEvent

LEMMA MigratedType ==
  ASSUME TypeOK
  PROVE  Migrated \in Maybe /\ (Loadable => Migrated \in Devices)
BY DevicesAssumption DEF TypeOK, Migrated, Loadable, Maybe

LEMMA TypedRestart ==
  ASSUME Typed, Restart
  PROVE  Typed'
<1>1. TypeOK /\ RestOK
  BY RestTyped DEF Typed
<1>2. ASSUME NEW d \in Devices
      PROVE  /\ Gone(dev[d]) \in Device /\ Coherent(Gone(dev[d]))
             /\ dev[d].st = "paired" =>
                  LET x == [Gone(dev[d]) EXCEPT !.conn = TRUE, !.tries = TRUE]
                  IN  x \in Device /\ Coherent(x)
  <2>1. dev[d] \in Device /\ Coherent(dev[d])
    BY <1>1 DEF TypeOK
  <2>2. Gone(dev[d]) \in Device /\ Coherent(Gone(dev[d]))
    BY <2>1 DEF Gone, Device, Coherent
  <2>3. dev[d].st = "paired" => Gone(dev[d]).st = "paired"
    BY <2>1 DEF Gone, Device
  <2>4. QED
    BY <2>2, <2>3 DEF Device, Coherent
<1>3. dev' \in [Devices -> Device] /\ \A d \in Devices : Coherent(dev'[d])
  <2> DEFINE after == [d \in Devices |-> Gone(dev[d])]
  <2>1. after \in [Devices -> Device] /\ \A d \in Devices : Coherent(after[d])
    BY <1>2
  <2>2. CASE dev' = after
    BY <2>1, <2>2
  <2>3. CASE Loadable /\ dev' = [after EXCEPT ![Migrated].conn = TRUE, ![Migrated].tries = TRUE]
    <3>1. Migrated \in Devices /\ dev[Migrated].st = "paired"
      BY <1>1, <2>3, MigratedType DEF Loadable
    <3>2. dev' = [after EXCEPT ![Migrated] = [Gone(dev[Migrated]) EXCEPT !.conn = TRUE, !.tries = TRUE]]
      BY <2>3, <3>1
    <3>3. QED
      BY <1>2, <2>1, <3>1, <3>2
  <2>4. QED
    BY <2>2, <2>3 DEF Restart
<1>4. RestOK'
  <2>1. None \in Maybe /\ Migrated \in Maybe
    BY <1>1, MigratedType DEF Maybe
  <2>2. active' \in Maybe /\ pending' \in Maybe /\ userRow' \in Maybe
    BY <2>1 DEF Restart
  <2>3. faults' \in Nat /\ restarts' \in Nat
    BY <1>1, FaultsType DEF RestOK, Restart
  <2>4. QED
    BY <1>1, <2>2, <2>3 DEF RestOK, Restart
<1>5. TypeOK'
  BY <1>1, <1>3, <1>4 DEF Restart, TypeOK, RestOK, Steps, Kinds, Maybe
<1>6. Own'
  BY DEF Restart, Own, Creating, Saving
<1>7. QED
  BY <1>5, <1>6 DEF Typed

LEMMA TypedStutter ==
  ASSUME Typed, UNCHANGED vars
  PROVE  Typed'
<1>1. UNCHANGED <<pc, kind, mine>> /\ DevicesAge /\ RestOK'
  BY RestTyped, DevicesUntouched DEF Typed, RestOK, vars
<1>2. QED
  BY <1>1, TypedEvent

LEMMA TypedNext == Typed /\ [Next]_vars => Typed'
<1> SUFFICES ASSUME Typed, [Next]_vars PROVE Typed'
  OBVIOUS
<1>1. ASSUME NEW h \in Handlers, StepOf(h) PROVE Typed'
  BY <1>1, TypedPairLook, TypedPairCreate, TypedPairPhone, TypedPollLook, TypedSave1, TypedSave2,
     TypedUse, TypedActivate, TypedLogoutClient, TypedDelete1, TypedDelete2 DEF StepOf
<1>2. ASSUME NEW d \in Devices,
             EnterCode(d) \/ CodeExpires(d) \/ LogIn(d) \/ Drop(d) \/ PhoneRemoves(d)
      PROVE  Typed'
  BY <1>2, TypedEnterCode, TypedCodeExpires, TypedLogIn, TypedDrop, TypedPhoneRemoves
<1>3. QED
  BY <1>1, <1>2, TypedRequest, TypedLogoutBegin, TypedReconnect, TypedLinkExpires, TypedRestart,
     TypedStutter DEF Next

LEMMA TypedAlways == Spec => []Typed
BY TypedInit, TypedNext, PTL DEF Spec

\* TypeOK: whatever handlers, events and restarts do, no client object has parts
\* that contradict each other, such as a deleted device that is still connected or
\* a code for a device that is already paired (Coherent).
THEOREM TypeCorrect == Spec => []TypeOK
<1>1. Typed => TypeOK
  BY DEF Typed
<1>2. QED
  BY TypedAlways, <1>1, PTL

-----------------------------------------------------------------------------
(***************************************************************************)
(* One session, one automatic message                                      *)
(***************************************************************************)

LEMMA OneSessionStep == OneSession /\ [Next]_vars => OneSession'
<1> SUFFICES ASSUME OneSession, [Next]_vars PROVE OneSession'
  OBVIOUS
<1> USE DEF OneSession, memory
<1>1. ASSUME NEW h \in Handlers, StepOf(h) PROVE OneSession'
  <2>1. CASE PairCreate(h)
    BY <2>1 DEF PairCreate, Free
  <2>2. CASE PairPhone(h)
    BY <2>2 DEF PairPhone, removeSession
  <2>3. CASE Activate(h)
    BY <2>3 DEF Activate, setActive
  <2>4. CASE PairLook(h) \/ PollLook(h) \/ Save1(h) \/ Save2(h) \/ Use(h)
    BY <2>4 DEF PairLook, PollLook, Save1, Save2, Use
  <2>5. CASE LogoutClient(h) \/ Delete1(h) \/ Delete2(h)
    BY <2>5 DEF LogoutClient, Delete1, Delete2
  <2>6. QED
    BY <1>1, <2>1, <2>2, <2>3, <2>4, <2>5 DEF StepOf
<1>2. ASSUME NEW h \in Handlers,
             \/ \E k \in Kinds : Request(h, k, "pair") \/ Request(h, k, "poll")
             \/ LogoutBegin(h) \/ Reconnect(h)
      PROVE  OneSession'
  BY <1>2 DEF Request, LogoutBegin, removeSession, Reconnect
<1>3. ASSUME NEW d \in Devices,
             EnterCode(d) \/ CodeExpires(d) \/ LogIn(d) \/ Drop(d) \/ PhoneRemoves(d)
      PROVE  OneSession'
  BY <1>3 DEF EnterCode, CodeExpires, LogIn, Drop, PhoneRemoves
<1>4. CASE (\E t \in Tokens : LinkExpires(t)) \/ Restart \/ UNCHANGED vars
  BY <1>4 DEF LinkExpires, Restart, vars
<1>5. QED
  BY <1>1, <1>2, <1>3, <1>4 DEF Next

\* OneSession: manager.sessions and manager.pending never hold the user id both,
\* however handlers interleave between getSession and createPendingSession.
THEOREM OneSessionPerUser == Spec => []OneSession
<1>1. Init => OneSession
  BY DEF Init, OneSession
<1>2. QED
  BY <1>1, OneSessionStep, PTL DEF Spec

\* The automatic message was started only for a link that is used, once.
Once == \A t \in Tokens : auto[t] <= 1 /\ (link[t] # "used" => auto[t] = 0)

LEMMA OnceStep == Typed /\ Once /\ [Next]_vars => Once'
<1> SUFFICES ASSUME Typed, Once, [Next]_vars PROVE Once'
  OBVIOUS
<1>1. link \in [Tokens -> {"open", "used", "expired"}] /\ auto \in [Tokens -> Nat]
  BY DEF Typed, TypeOK
<1>2. CASE UNCHANGED <<link, auto>>
  BY <1>2 DEF Once
<1>3. ASSUME NEW h \in Handlers, Use(h), ~UNCHANGED <<link, auto>> PROVE Once'
  <2> DEFINE t == kind[h]
  <2>1. /\ t \in Tokens /\ link' = [link EXCEPT ![t] = "used"]
        /\ auto' = [auto EXCEPT ![t] = @ + RowsAffected(t)]
    BY <1>3 DEF Use, Typed, Own
  <2>2. auto[t] + RowsAffected(t) <= 1
    BY <1>1, <2>1 DEF Once, RowsAffected
  <2>3. QED
    BY <1>1, <2>1, <2>2 DEF Once
<1>4. ASSUME NEW t \in Tokens, LinkExpires(t) PROVE Once'
  BY <1>1, <1>4 DEF LinkExpires, Once, history
<1>5. ASSUME NEW h \in Handlers, StepOf(h), ~Use(h) PROVE UNCHANGED <<link, auto>>
  BY <1>5 DEF StepOf, PairLook, PairCreate, PairPhone, PollLook, Save1, Save2, Activate,
              LogoutClient, Delete1, Delete2, tables, history
<1>6. ASSUME NEW h \in Handlers,
             \/ \E k \in Kinds : Request(h, k, "pair") \/ Request(h, k, "poll")
             \/ LogoutBegin(h) \/ Reconnect(h)
      PROVE  UNCHANGED <<link, auto>>
  BY <1>6 DEF Request, LogoutBegin, Reconnect, tables, history
<1>7. ASSUME NEW d \in Devices,
             EnterCode(d) \/ CodeExpires(d) \/ LogIn(d) \/ Drop(d) \/ PhoneRemoves(d)
      PROVE  UNCHANGED <<link, auto>>
  BY <1>7 DEF EnterCode, CodeExpires, LogIn, Drop, PhoneRemoves, tables, history
<1>8. CASE Restart \/ UNCHANGED vars
  BY <1>2, <1>8 DEF Restart, vars
<1>9. QED
  BY <1>2, <1>3, <1>4, <1>5, <1>6, <1>7, <1>8 DEF Next

\* AutoMessageOnce: however many polls of the public page see the login, the
\* UPDATE ... WHERE used=false lets one of them start maybeSendAutoPairMessage.
THEOREM AutoMessageAtMostOnce == Spec => []AutoMessageOnce
<1>1. Init => Once
  BY DEF Init, Once
<1>2. Once => AutoMessageOnce
  BY DEF Once, AutoMessageOnce
<1>3. QED
  BY TypedAlways, <1>1, OnceStep, <1>2, PTL DEF Spec

-----------------------------------------------------------------------------
(***************************************************************************)
(* The row names the session in use                                        *)
(***************************************************************************)

\* While no logout overlapped another request and no error was ignored: a handler
\* that pairs has its device pending, one that saves works on the session the maps
\* hold, a logout is alone, and what is to be activated has been saved.
OrderlyAt(h) ==
  /\ pc[h] = "phone" => active = None /\ pending = mine[h]
  /\ Saving(h) => mine[h] = getSession
  /\ Leaving(h) => active = None /\ pending = None /\ \A g \in Others(h) : pc[g] = "idle"
  /\ pc[h] \in {"save2", "use", "activate"} => userRow = mine[h]
Orderly ==
  clean => (\A h \in Handlers : OrderlyAt(h)) /\ (active # None => userRow = active)

\* A handler moves while the maps and the row stay.
LEMMA OrderlyKept ==
  ASSUME Orderly, clean, NEW h \in Handlers, Moves(h), pc[h] # "idle",
         UNCHANGED <<active, pending, userRow>>, OrderlyAt(h)'
  PROVE  Orderly'
<1>1. ASSUME NEW g \in Handlers, g # h PROVE OrderlyAt(g)'
  <2>1. pc'[g] = pc[g] /\ mine'[g] = mine[g] /\ OrderlyAt(g)
    BY <1>1 DEF Moves, Orderly
  <2>2. ~Leaving(g)
    BY <1>1, <2>1 DEF OrderlyAt, Others
  <2>3. QED
    BY <2>1, <2>2 DEF OrderlyAt, Saving, Leaving, getSession
<1>2. QED
  BY <1>1 DEF Orderly

\* Nobody changes anything the invariant is about.
LEMMA OrderlyEvent ==
  ASSUME Orderly, UNCHANGED <<memory, userRow, clean, pc, mine>>
  PROVE  Orderly'
BY DEF Orderly, OrderlyAt, Saving, Leaving, getSession, memory

LEMMA OrderlyRequest ==
  ASSUME Typed, Orderly, NEW h \in Handlers, NEW k \in Kinds, NEW where \in {"pair", "poll"},
         Request(h, k, where)
  PROVE  Orderly'
<1> SUFFICES ASSUME clean' PROVE Orderly'
  BY DEF Orderly
<1>1. clean /\ LoggingOut = {} /\ UNCHANGED <<active, pending, userRow, mine>>
  BY DEF Request, memory, tables
<1>2. pc'[h] = where /\ \A g \in Handlers \ {h} : pc'[g] = pc[g]
  BY DEF Request, Goto, Typed, TypeOK
<1>3. ASSUME NEW g \in Handlers PROVE OrderlyAt(g)'
  <2>1. CASE g = h
    BY <1>2, <2>1 DEF OrderlyAt, Saving, Leaving
  <2>2. CASE g # h
    <3>1. ~Leaving(g) /\ OrderlyAt(g)
      BY <1>1 DEF LoggingOut, Leaving, Orderly
    <3>2. QED
      BY <1>1, <1>2, <2>2, <3>1 DEF OrderlyAt, Saving, Leaving, getSession
  <2>3. QED
    BY <2>1, <2>2
<1>4. QED
  BY <1>1, <1>3 DEF Orderly

\* A handler that ends its request, the maps and the row unchanged.
LEMMA OrderlyReturn ==
  ASSUME Typed, Orderly, NEW h \in Handlers, pc[h] # "idle", Return(h),
         UNCHANGED <<active, pending, userRow>>, clean' => clean
  PROVE  Orderly'
<1> SUFFICES ASSUME clean' PROVE Orderly'
  BY DEF Orderly
<1>1. Moves(h) /\ pc'[h] = "idle"
  BY ReturnMoves DEF Typed
<1>2. OrderlyAt(h)'
  BY <1>1 DEF OrderlyAt, Saving, Leaving
<1>3. QED
  BY <1>1, <1>2, OrderlyKept

LEMMA OrderlyPairLook ==
  ASSUME Typed, Orderly, NEW h \in Handlers, PairLook(h)
  PROVE  Orderly'
<1>1. UNCHANGED <<active, pending, userRow, clean>> /\ pc[h] # "idle"
  BY DEF PairLook, memory, tables
<1>2. CASE Return(h)
  BY <1>1, <1>2, OrderlyReturn
<1>3. CASE ~Return(h)
  <2> SUFFICES ASSUME clean' PROVE Orderly'
    BY DEF Orderly
  <2>1. PICK d \in Devices : mine' = [mine EXCEPT ![h] = d] /\ Goto(h, "create") /\ UNCHANGED kind
    BY <1>3 DEF PairLook
  <2>2. Moves(h) /\ pc'[h] = "create"
    BY <2>1 DEF Moves, Goto, Typed, TypeOK, Steps, Maybe
  <2>3. OrderlyAt(h)'
    BY <2>2 DEF OrderlyAt, Saving, Leaving
  <2>4. QED
    BY <1>1, <2>2, <2>3, OrderlyKept
<1>4. QED
  BY <1>2, <1>3

\* While order holds, a device being paired and one being saved differ, so at most
\* one handler is at PairPhone, and none is saving then.
LEMMA PhoneIsAlone ==
  ASSUME Typed, Orderly, clean, NEW h \in Handlers, pc[h] = "phone", NEW g \in Handlers, g # h
  PROVE  pc[g] # "phone" /\ ~Saving(g) /\ ~Leaving(g)
<1>1. OrderlyAt(h) /\ OrderlyAt(g)
  BY DEF Orderly
<1>2. active = None /\ pending = mine[h] /\ mine[h] \in Devices /\ dev[mine[h]].st = "new"
  BY <1>1 DEF OrderlyAt, Typed, Own, Creating
<1>3. pc[g] # "phone"
  BY <1>1, <1>2 DEF OrderlyAt, Typed, Own, Creating
<1>4. ~Saving(g)
  <2> SUFFICES ASSUME Saving(g) PROVE FALSE
    OBVIOUS
  <2>1. mine[g] = mine[h]
    BY <1>1, <1>2 DEF OrderlyAt, getSession
  <2>2. dev[mine[g]].st \in {"paired", "deleted"}
    BY DEF Typed, Own
  <2>3. QED
    BY <1>2, <2>1, <2>2
<1>5. ~Leaving(g)
  BY <1>1 DEF OrderlyAt, Others
<1>6. QED
  BY <1>3, <1>4, <1>5

LEMMA OrderlyPairCreate ==
  ASSUME Typed, Orderly, NEW h \in Handlers, PairCreate(h)
  PROVE  Orderly'
<1>1. pc[h] = "create" /\ UNCHANGED <<userRow, clean>>
  BY DEF PairCreate, tables, history
<1>2. CASE Return(h) /\ UNCHANGED memory
  BY <1>1, <1>2, OrderlyReturn DEF memory
<1>3. CASE Free /\ pending' = mine[h] /\ active' = active /\ Continue(h, "phone")
  <2> SUFFICES ASSUME clean' PROVE Orderly'
    BY DEF Orderly
  <2>1. Moves(h) /\ pc'[h] = "phone" /\ mine'[h] = mine[h]
    <3>1. "phone" \in Steps
      BY DEF Steps
    <3>2. QED
      BY <1>3, <3>1, ContinueMoves DEF Typed
  <2>2. active = None /\ pending = None /\ active' = None /\ pending' = mine[h]
    BY <1>3 DEF Free
  <2>3. ASSUME NEW g \in Handlers, g # h PROVE OrderlyAt(g)'
    <3>1. OrderlyAt(g) /\ pc'[g] = pc[g] /\ mine'[g] = mine[g]
      BY <1>1, <2>1, <2>3 DEF Orderly, Moves
    <3>2. ~Saving(g)
      <4> SUFFICES ASSUME Saving(g) PROVE FALSE
        OBVIOUS
      <4>1. mine[g] = None
        BY <2>2, <3>1 DEF OrderlyAt, getSession
      <4>2. QED
        BY <4>1, DevicesAssumption DEF Typed, Own
    <3>3. pc[g] # "phone"
      <4> SUFFICES ASSUME pc[g] = "phone" PROVE FALSE
        OBVIOUS
      <4>1. mine[g] = None
        BY <2>2, <3>1 DEF OrderlyAt
      <4>2. QED
        BY <4>1, DevicesAssumption DEF Typed, Own, Creating
    <3>4. ~Leaving(g)
      BY <1>1, <2>3, <3>1 DEF OrderlyAt, Others
    <3>5. QED
      BY <3>1, <3>2, <3>3, <3>4 DEF OrderlyAt, Saving, Leaving
  <2>4. OrderlyAt(h)'
    BY <2>1, <2>2 DEF OrderlyAt, Saving, Leaving
  <2>5. QED
    BY <2>2, <2>3, <2>4 DEF Orderly
<1>4. QED
  BY <1>2, <1>3 DEF PairCreate

LEMMA OrderlyPairPhone ==
  ASSUME Typed, Orderly, NEW h \in Handlers, PairPhone(h)
  PROVE  Orderly'
<1>1. pc[h] = "phone" /\ UNCHANGED <<userRow, clean>> /\ Return(h)
  BY DEF PairPhone, tables, history
<1>2. CASE UNCHANGED memory
  BY <1>1, <1>2, OrderlyReturn DEF memory
<1>3. CASE removeSession
  <2> SUFFICES ASSUME clean' PROVE Orderly'
    BY DEF Orderly
  <2>1. Moves(h) /\ pc'[h] = "idle" /\ active' = None
    BY <1>1, <1>3, ReturnMoves DEF Typed, removeSession
  <2>2. ASSUME NEW g \in Handlers PROVE OrderlyAt(g)'
    <3>1. CASE g = h
      BY <2>1, <3>1 DEF OrderlyAt, Saving, Leaving
    <3>2. CASE g # h
      <4>1. pc[g] # "phone" /\ ~Saving(g) /\ ~Leaving(g) /\ pc'[g] = pc[g]
        BY <1>1, <2>1, <3>2, PhoneIsAlone DEF Moves
      <4>2. QED
        BY <4>1 DEF OrderlyAt, Saving, Leaving
    <3>3. QED
      BY <3>1, <3>2
  <2>3. QED
    BY <2>1, <2>2 DEF Orderly
<1>4. QED
  BY <1>2, <1>3 DEF PairPhone

LEMMA OrderlyPollLook ==
  ASSUME Typed, Orderly, NEW h \in Handlers, PollLook(h)
  PROVE  Orderly'
<1>1. UNCHANGED <<active, pending, userRow, clean>> /\ pc[h] # "idle"
  BY DEF PollLook, memory, tables, history
<1>2. CASE Return(h)
  BY <1>1, <1>2, OrderlyReturn
<1>3. CASE mine' = [mine EXCEPT ![h] = getSession] /\ Goto(h, "save1") /\ UNCHANGED kind
  <2> SUFFICES ASSUME clean' PROVE Orderly'
    BY DEF Orderly
  <2>1. Moves(h) /\ pc'[h] = "save1" /\ mine'[h] = getSession
    BY <1>3, LookedUp DEF Moves, Goto, Typed, TypeOK, Steps
  <2>2. OrderlyAt(h)'
    BY <1>1, <2>1 DEF OrderlyAt, Saving, Leaving, getSession
  <2>3. QED
    BY <1>1, <2>1, <2>2, OrderlyKept
<1>4. QED
  BY <1>2, <1>3 DEF PollLook

LEMMA OrderlySave1 ==
  ASSUME Typed, Orderly, NEW h \in Handlers, Save1(h)
  PROVE  Orderly'
<1>1. UNCHANGED <<active, pending>> /\ pc[h] = "save1"
  BY DEF Save1, memory
<1>2. CASE Return(h) /\ UNCHANGED <<userRow, clean>>
  BY <1>1, <1>2, OrderlyReturn
<1>3. CASE userRow' = mine[h] /\ Continue(h, "save2") /\ UNCHANGED clean
  <2> SUFFICES ASSUME clean' PROVE Orderly'
    BY DEF Orderly
  <2>1. Moves(h) /\ pc'[h] = "save2" /\ mine'[h] = mine[h]
    <3>1. "save2" \in Steps
      BY DEF Steps
    <3>2. QED
      BY <1>3, <3>1, ContinueMoves DEF Typed
  <2>2. mine[h] = getSession /\ mine[h] # None /\ getSession' = getSession
    BY <1>1, <1>3, DevicesAssumption DEF Orderly, OrderlyAt, Saving, Typed, Own, getSession
  <2>3. ASSUME NEW g \in Handlers PROVE OrderlyAt(g)'
    <3>1. CASE g = h
      BY <1>3, <2>1, <2>2, <3>1 DEF OrderlyAt, Saving, Leaving
    <3>2. CASE g # h
      <4>1. OrderlyAt(g) /\ pc'[g] = pc[g] /\ mine'[g] = mine[g] /\ ~Leaving(g)
        BY <1>1, <1>3, <2>1, <3>2 DEF Orderly, OrderlyAt, Others, Moves
      <4>2. QED
        BY <1>1, <1>3, <2>2, <4>1 DEF OrderlyAt, Saving, Leaving
    <3>3. QED
      BY <3>1, <3>2
  <2>4. active' # None => userRow' = active'
    BY <1>1, <1>3, <2>2 DEF getSession
  <2>5. QED
    BY <2>3, <2>4 DEF Orderly
<1>4. CASE AfterSave(h, FALSE) /\ Ignored(h) /\ UNCHANGED userRow
  <2>1. CASE kind[h] = Admin
    BY <1>1, <1>4, <2>1, OrderlyReturn DEF AfterSave, Ignored
  <2>2. CASE kind[h] # Admin
    BY <1>4, <2>2 DEF Ignored, Orderly
  <2>3. QED
    BY <2>1, <2>2
<1>5. QED
  BY <1>2, <1>3, <1>4 DEF Save1

LEMMA OrderlySave2 ==
  ASSUME Typed, Orderly, NEW h \in Handlers, Save2(h)
  PROVE  Orderly'
<1>1. UNCHANGED <<active, pending, userRow>> /\ pc[h] = "save2"
  BY DEF Save2, memory
<1>2. CASE AfterSave(h, TRUE) /\ UNCHANGED clean
  <2> SUFFICES ASSUME clean' PROVE Orderly'
    BY DEF Orderly
  <2>1. Moves(h) /\ pc'[h] \in {"use", "activate"} /\ mine'[h] = mine[h]
    <3>1. "use" \in Steps /\ "activate" \in Steps
      BY DEF Steps
    <3>2. QED
      BY <1>2, <3>1, ContinueMoves DEF Typed, AfterSave
  <2>2. mine[h] = getSession /\ userRow = mine[h]
    BY <1>1, <1>2 DEF Orderly, OrderlyAt, Saving
  <2>3. OrderlyAt(h)'
    BY <1>1, <2>1, <2>2 DEF OrderlyAt, Saving, Leaving, getSession
  <2>4. QED
    BY <1>1, <1>2, <2>1, <2>3, OrderlyKept
<1>3. CASE AfterSave(h, FALSE) /\ Ignored(h)
  <2>1. CASE kind[h] = Admin
    BY <1>1, <1>3, <2>1, OrderlyReturn DEF AfterSave, Ignored
  <2>2. CASE kind[h] # Admin
    BY <1>3, <2>2 DEF Ignored, Orderly
  <2>3. QED
    BY <2>1, <2>2
<1>4. QED
  BY <1>2, <1>3 DEF Save2

LEMMA OrderlyUse ==
  ASSUME Typed, Orderly, NEW h \in Handlers, Use(h)
  PROVE  Orderly'
<1> SUFFICES ASSUME clean' PROVE Orderly'
  BY DEF Orderly
<1>1. UNCHANGED <<active, pending, userRow, clean>> /\ pc[h] = "use"
  BY DEF Use, memory
<1>2. Moves(h) /\ pc'[h] = "activate" /\ mine'[h] = mine[h]
  <2>1. "activate" \in Steps
    BY DEF Steps
  <2>2. QED
    BY <2>1, ContinueMoves DEF Typed, Use
<1>3. mine[h] = getSession /\ userRow = mine[h]
  BY <1>1 DEF Orderly, OrderlyAt, Saving
<1>4. OrderlyAt(h)'
  BY <1>1, <1>2, <1>3 DEF OrderlyAt, Saving, Leaving, getSession
<1>5. QED
  BY <1>1, <1>2, <1>4, OrderlyKept

LEMMA OrderlyActivate ==
  ASSUME Typed, Orderly, NEW h \in Handlers, Activate(h)
  PROVE  Orderly'
<1> SUFFICES ASSUME clean' PROVE Orderly'
  BY DEF Orderly
<1>1. /\ UNCHANGED <<userRow, clean>> /\ pc[h] = "activate" /\ active' = mine[h] /\ pending' = None
      /\ Moves(h) /\ pc'[h] = "idle"
  BY ReturnMoves DEF Activate, setActive, tables, history, Typed
<1>2. mine[h] = getSession /\ userRow = mine[h] /\ mine[h] # None
  BY <1>1, DevicesAssumption DEF Orderly, OrderlyAt, Saving, Typed, Own
<1>3. getSession' = getSession
  BY <1>1, <1>2 DEF getSession
<1>4. ASSUME NEW g \in Handlers PROVE OrderlyAt(g)'
  <2>1. CASE g = h
    BY <1>1, <2>1 DEF OrderlyAt, Saving, Leaving
  <2>2. CASE g # h
    <3>1. OrderlyAt(g) /\ pc'[g] = pc[g] /\ mine'[g] = mine[g] /\ ~Leaving(g)
      BY <1>1, <2>2 DEF Orderly, OrderlyAt, Others, Moves
    <3>2. pc[g] # "phone"
      BY <1>1, <2>2, PhoneIsAlone DEF Saving
    <3>3. QED
      BY <1>1, <1>3, <3>1, <3>2 DEF OrderlyAt, Saving, Leaving
  <2>3. QED
    BY <2>1, <2>2
<1>5. QED
  BY <1>1, <1>2, <1>4 DEF Orderly

LEMMA OrderlyLogoutBegin ==
  ASSUME Typed, Orderly, NEW h \in Handlers, LogoutBegin(h)
  PROVE  Orderly'
<1> SUFFICES ASSUME clean' PROVE Orderly'
  BY DEF Orderly
<1>1. /\ clean /\ active' = None /\ pending' = None
      /\ \A g \in Others(h) : pc[g] = "idle"
  BY DEF LogoutBegin, removeSession
<1>2. /\ pc'[h] \in {"delete1", "logout"} /\ \A g \in Handlers \ {h} : pc'[g] = pc[g]
  BY DEF LogoutBegin, Goto, Typed, TypeOK
<1>3. ASSUME NEW g \in Handlers PROVE OrderlyAt(g)'
  BY <1>1, <1>2 DEF OrderlyAt, Saving, Leaving, Others
<1>4. QED
  BY <1>1, <1>3 DEF Orderly

LEMMA OrderlyLogoutClient ==
  ASSUME Typed, Orderly, NEW h \in Handlers, LogoutClient(h)
  PROVE  Orderly'
<1> SUFFICES ASSUME clean' PROVE Orderly'
  BY DEF Orderly
<1>1. UNCHANGED <<active, pending, userRow, clean>> /\ pc[h] = "logout"
  BY DEF LogoutClient, memory, tables, history
<1>2. Moves(h) /\ pc'[h] = "delete1"
  <2>1. "delete1" \in Steps
    BY DEF Steps
  <2>2. QED
    BY <2>1, ContinueMoves DEF Typed, LogoutClient
<1>3. OrderlyAt(h)'
  BY <1>1, <1>2 DEF Orderly, OrderlyAt, Saving, Leaving, Others, Moves
<1>4. QED
  BY <1>1, <1>2, <1>3, OrderlyKept

LEMMA OrderlyDelete1 ==
  ASSUME Typed, Orderly, NEW h \in Handlers, Delete1(h)
  PROVE  Orderly'
<1>1. UNCHANGED <<active, pending, clean>> /\ pc[h] = "delete1"
  BY DEF Delete1, memory
<1>2. CASE Return(h) /\ UNCHANGED userRow
  BY <1>1, <1>2, OrderlyReturn
<1>3. CASE userRow' = None /\ Continue(h, "delete2")
  <2> SUFFICES ASSUME clean' PROVE Orderly'
    BY DEF Orderly
  <2>1. Moves(h) /\ pc'[h] = "delete2"
    <3>1. "delete2" \in Steps
      BY DEF Steps
    <3>2. QED
      BY <1>3, <3>1, ContinueMoves DEF Typed
  <2>2. active = None /\ pending = None /\ \A g \in Others(h) : pc[g] = "idle"
    BY <1>1 DEF Orderly, OrderlyAt, Leaving
  <2>3. ASSUME NEW g \in Handlers PROVE OrderlyAt(g)'
    BY <1>1, <2>1, <2>2 DEF OrderlyAt, Saving, Leaving, Others, Moves
  <2>4. QED
    BY <1>1, <2>2, <2>3 DEF Orderly
<1>4. QED
  BY <1>2, <1>3 DEF Delete1

LEMMA OrderlyDelete2 ==
  ASSUME Typed, Orderly, NEW h \in Handlers, Delete2(h)
  PROVE  Orderly'
<1>1. UNCHANGED <<active, pending, userRow, clean>> /\ pc[h] = "delete2" /\ Return(h)
  BY DEF Delete2, memory
<1>2. QED
  BY <1>1, OrderlyReturn

LEMMA OrderlyNext == Typed /\ Orderly /\ [Next]_vars => Orderly'
<1> SUFFICES ASSUME Typed, Orderly, [Next]_vars PROVE Orderly'
  OBVIOUS
<1>1. ASSUME NEW h \in Handlers, StepOf(h) PROVE Orderly'
  BY <1>1, OrderlyPairLook, OrderlyPairCreate, OrderlyPairPhone, OrderlyPollLook, OrderlySave1,
     OrderlySave2, OrderlyUse, OrderlyActivate, OrderlyLogoutClient, OrderlyDelete1,
     OrderlyDelete2 DEF StepOf
<1>2. ASSUME NEW d \in Devices,
             EnterCode(d) \/ CodeExpires(d) \/ LogIn(d) \/ Drop(d) \/ PhoneRemoves(d)
      PROVE  Orderly'
  BY <1>2, OrderlyEvent DEF EnterCode, CodeExpires, LogIn, Drop, PhoneRemoves, tables, history
<1>3. ASSUME NEW h \in Handlers, Reconnect(h) PROVE Orderly'
  BY <1>3, OrderlyEvent DEF Reconnect, tables, history
<1>4. ASSUME NEW t \in Tokens, LinkExpires(t) PROVE Orderly'
  BY <1>4, OrderlyEvent DEF LinkExpires, history
<1>5. CASE Restart
  <2>1. active' # None => userRow' = active'
    BY <1>5 DEF Restart
  <2>2. \A h \in Handlers : OrderlyAt(h)'
    BY <1>5 DEF Restart, OrderlyAt, Saving, Leaving
  <2>3. QED
    BY <2>1, <2>2 DEF Orderly
<1>6. CASE UNCHANGED vars
  BY <1>6, OrderlyEvent DEF vars, memory
<1>7. QED
  BY <1>1, <1>2, <1>3, <1>4, <1>5, <1>6, OrderlyRequest, OrderlyLogoutBegin DEF Next

\* RowMatchesActive: with nothing in flight, no logout that overlapped a request and
\* no error ignored by the public page, user_sessions names the session in use, so
\* the next start loads it.
THEOREM RowNamesActive == Spec => []RowMatchesActive
<1>1. Init => Orderly
  BY DEF Init, Orderly, OrderlyAt, Saving, Leaving
<1>2. Orderly => RowMatchesActive
  BY DEF Orderly, RowMatchesActive
<1>3. QED
  BY TypedAlways, <1>1, OrderlyNext, <1>2, PTL DEF Spec

-----------------------------------------------------------------------------
(***************************************************************************)
(* A logout that was alone                                                 *)
(***************************************************************************)

\* While a logout is alone, nobody else moves, and what it removed stays away.
ForgetsAt(h) ==
  /\ \A g \in Others(h) : pc[g] = "idle"
  /\ Leaving(h) \/ pc[h] = "idle"
  /\ Leaving(h) => active = None /\ pending = None
  /\ pc[h] = "delete2" => userRow = None
Forgets == \A h \in Handlers : alone = h => ForgetsAt(h)

\* A handler at work is the lone logout, or there is none.
LEMMA LoneHandler ==
  ASSUME Forgets, NEW h \in Handlers, NEW g \in Handlers, alone = h, pc[g] # "idle"
  PROVE  g = h /\ Leaving(h)
BY DEF Forgets, ForgetsAt, Others

LEMMA ForgetsEvent ==
  ASSUME Forgets, UNCHANGED <<memory, userRow, alone, pc>>
  PROVE  Forgets'
BY DEF Forgets, ForgetsAt, Others, Leaving, memory

LEMMA NobodyAlone == alone' = None => Forgets'
BY DevicesAssumption DEF Forgets

\* Handlers that are not logging out run only while no logout is alone.
LEMMA ForgetsOther ==
  ASSUME Forgets, NEW g \in Handlers, pc[g] # "idle", ~Leaving(g), alone' = alone
  PROVE  Forgets'
BY LoneHandler DEF Forgets

LEMMA ForgetsNext == Typed /\ Forgets /\ [Next]_vars => Forgets'
<1> SUFFICES ASSUME Typed, Forgets, [Next]_vars PROVE Forgets'
  OBVIOUS
<1>1. ASSUME NEW h \in Handlers, PairLook(h) \/ PairCreate(h) \/ PairPhone(h) \/ PollLook(h)
      PROVE  Forgets'
  BY <1>1, ForgetsOther DEF PairLook, PairCreate, PairPhone, PollLook, Leaving, history
<1>2. ASSUME NEW h \in Handlers, Save1(h) \/ Save2(h) \/ Use(h) \/ Activate(h)
      PROVE  Forgets'
  BY <1>2, ForgetsOther DEF Save1, Save2, Use, Activate, Leaving, history
<1>3. ASSUME NEW h \in Handlers, LogoutBegin(h) PROVE Forgets'
  <2>1. CASE alone' = None
    BY <2>1, NobodyAlone
  <2>2. CASE alone' = h /\ \A g \in Others(h) : pc[g] = "idle"
    <3>1. pc'[h] \in {"delete1", "logout"} /\ \A g \in Handlers \ {h} : pc'[g] = pc[g]
      BY <1>3 DEF LogoutBegin, Goto, Typed, TypeOK
    <3>2. active' = None /\ pending' = None
      BY <1>3 DEF LogoutBegin, removeSession
    <3>3. ForgetsAt(h)'
      BY <2>2, <3>1, <3>2 DEF ForgetsAt, Leaving, Others
    <3>4. QED
      BY <2>2, <3>3 DEF Forgets
  <2>3. QED
    BY <1>3, <2>1, <2>2 DEF LogoutBegin
<1>4. ASSUME NEW h \in Handlers, LogoutClient(h) \/ Delete1(h) \/ Delete2(h) PROVE Forgets'
  <2>1. CASE alone' = None
    BY <2>1, NobodyAlone
  <2>2. CASE alone' # None
    <3> SUFFICES ASSUME NEW g \in Handlers, alone' = g PROVE ForgetsAt(g)'
      BY DEF Forgets
    <3>1. alone = g /\ pc[h] # "idle" /\ UNCHANGED <<active, pending>>
      BY <1>4, <2>2 DEF LogoutClient, Delete1, Delete2, memory, history
    <3>2. g = h /\ ForgetsAt(h) /\ Leaving(h)
      BY <3>1, LoneHandler DEF Forgets
    <3>3. \A f \in Handlers \ {h} : pc'[f] = pc[f]
      BY <1>4 DEF LogoutClient, Delete1, Delete2, Return, Continue, Goto, Typed, TypeOK
    <3>4. /\ pc'[h] \in {"delete1", "delete2", "idle"}
          /\ pc'[h] = "delete2" => userRow' = None
      BY <1>4, <2>2 DEF LogoutClient, Delete1, Delete2, Return, Continue, Goto, Typed, TypeOK
    <3>5. QED
      BY <3>1, <3>2, <3>3, <3>4 DEF ForgetsAt, Leaving, Others
  <2>3. QED
    BY <2>1, <2>2
<1>5. ASSUME NEW d \in Devices,
             EnterCode(d) \/ CodeExpires(d) \/ LogIn(d) \/ Drop(d) \/ PhoneRemoves(d)
      PROVE  Forgets'
  BY <1>5, ForgetsEvent DEF EnterCode, CodeExpires, LogIn, Drop, PhoneRemoves, tables, history
<1>6. ASSUME NEW h \in Handlers, Reconnect(h) PROVE Forgets'
  BY <1>6, ForgetsEvent DEF Reconnect, tables, history
<1>7. CASE (\E t \in Tokens : LinkExpires(t)) \/ UNCHANGED vars
  BY <1>7, ForgetsEvent DEF LinkExpires, vars, memory, history
<1>8. CASE \/ Restart
           \/ \E h \in Handlers, k \in Kinds : Request(h, k, "pair") \/ Request(h, k, "poll")
  BY <1>8, NobodyAlone DEF Restart, Request
<1>9. QED
  BY <1>1, <1>2, <1>3, <1>4, <1>5, <1>6, <1>7, <1>8 DEF Next, StepOf

\* A request of the handler ends only by a step of that handler or by a restart.
LEMMA LogoutEnds ==
  ASSUME Typed, [Next]_vars, NEW h \in Handlers, pc[h] = "delete2", pc'[h] = "idle",
         alone' = h
  PROVE  Delete2(h)
<1>1. ASSUME NEW g \in Handlers, StepOf(g) \/ LogoutBegin(g), g # h PROVE FALSE
  <2>1. pc'[h] = pc[h]
    BY <1>1 DEF StepOf, PairLook, PairCreate, PairPhone, PollLook, Save1, Save2, Use, Activate,
                LogoutClient, Delete1, Delete2, AfterSave, LogoutBegin, Return, Continue, Goto,
                Typed, TypeOK
  <2>2. QED
    BY <2>1
<1>2. ASSUME StepOf(h) PROVE Delete2(h)
  BY <1>2 DEF StepOf, PairLook, PairCreate, PairPhone, PollLook, Save1, Save2, Use, Activate,
              LogoutClient, Delete1
<1>3. ~Restart /\ ~LogoutBegin(h) /\ \A g \in Handlers, k \in Kinds, x \in {"pair", "poll"} : ~Request(g, k, x)
  BY DevicesAssumption DEF Restart, LogoutBegin, Request
<1>4. ~UNCHANGED pc
  OBVIOUS
<1>5. QED
  BY <1>1, <1>2, <1>3, <1>4 DEF Next, Reconnect, EnterCode, CodeExpires, LogIn, Drop, PhoneRemoves,
                               LinkExpires, vars

\* LogoutForgets: a logout that no other request overlapped, and whose statements
\* worked, leaves the user id in neither map and in neither table.
THEOREM LoneLogoutForgets == Spec => LogoutForgets
<1>1. Init => Forgets
  BY DevicesAssumption DEF Init, Forgets
<1>2. Typed /\ Forgets /\ [Next]_vars =>
        [\A h \in Handlers :
           alone = h /\ pc[h] = "delete2" /\ pc'[h] = "idle" /\ alone' = h
             => /\ active' = None /\ pending' = None
                /\ userRow' = None /\ waRow' = None]_vars
  <2> SUFFICES ASSUME Typed, Forgets, [Next]_vars, NEW h \in Handlers,
                      alone = h, pc[h] = "delete2", pc'[h] = "idle", alone' = h
               PROVE  active' = None /\ pending' = None /\ userRow' = None /\ waRow' = None
    OBVIOUS
  <2>1. Delete2(h)
    BY LogoutEnds
  <2>2. active = None /\ pending = None /\ userRow = None
    BY DEF Forgets, ForgetsAt, Leaving
  <2>3. waRow' = None /\ UNCHANGED <<active, pending, userRow>>
    BY <2>1, DevicesAssumption DEF Delete2, memory
  <2>4. QED
    BY <2>2, <2>3
<1>3. QED
  BY TypedAlways, <1>1, ForgetsNext, <1>2, PTL DEF Spec, LogoutForgets

=============================================================================
