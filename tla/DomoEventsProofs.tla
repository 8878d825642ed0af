-------------------------- MODULE DomoEventsProofs --------------------------
(* Proofs about DomoEvents for any templates, bounds and number of faults.    *)
EXTENDS DomoEvents, FiniteSetTheorems, TLAPS

(***************************************************************************)
(* An alarm keeps the extras of the PendingIntent that first had its request *)
(* code, so what protects a new event is that its id occurs nowhere: not in  *)
(* the table, in AlarmManager, in flight, in a list or in a pending step.    *)
(***************************************************************************)
UsedIds == {id \in Nat : 1 <= id /\ id < nextId}

StepOn(ids) ==
    [op : {"load"}, type : Types, by : {"ui", "boot"}]
        \cup [op : {"arm", "cancel", "place", "drop"}, id : ids, by : {"ui", "boot"}]

UsedIdsOnly ==
    /\ nextId \in Nat /\ 1 <= nextId
    /\ DOMAIN db \subseteq UsedIds
    /\ DOMAIN intents \subseteq UsedIds
    /\ \A m \in inflight : m.id \in UsedIds
    /\ command.id \in UsedIds \cup {0}
    /\ list \in [Types -> Seq(UsedIds)]
    /\ todo \in Seq(StepOn(UsedIds))

AlarmsHaveIntents == alarms \subseteq DOMAIN intents

IInv == UsedIdsOnly /\ AlarmsHaveIntents /\ PayloadFaithful

-----------------------------------------------------------------------------
(* Sequences *)

LEMMA SeqWidens ==
    ASSUME NEW S, NEW T, S \subseteq T, NEW s \in Seq(S)
    PROVE  s \in Seq(T)
OBVIOUS

(* Putting an element in, or taking one out, keeps a list a list. *)
LEMMA ListsStayLists ==
    ASSUME NEW S, NEW s \in Seq(S), NEW e \in S, NEW i \in 1 .. Len(s) + 1
    PROVE  /\ InsertAt(s, i, e) \in Seq(S)
           /\ i <= Len(s) => RemoveAt(s, i) \in Seq(S)
<1>1. SubSeq(s, 1, i - 1) \in Seq(S) /\ SubSeq(s, i, Len(s)) \in Seq(S)
  OBVIOUS
<1>2. i <= Len(s) => SubSeq(s, i + 1, Len(s)) \in Seq(S)
  OBVIOUS
<1>3. <<e>> \in Seq(S)
  OBVIOUS
<1> QED BY <1>1, <1>2, <1>3 DEF InsertAt, RemoveAt

(* A query returns a sequence of the ids it was asked for. *)
LEMMA OrdersAreSequences ==
    ASSUME NEW n \in Nat, NEW ids, ids \subseteq 1 .. n, NEW s \in Orders(ids)
    PROVE  s \in Seq(ids)
<1>1. IsFiniteSet(ids)
  <2>1. IsFiniteSet(1 .. n)
    BY FS_Interval
  <2>2. ids \in SUBSET (1 .. n)
    OBVIOUS
  <2> QED BY <2>1, <2>2, FS_Subset
<1>2. Cardinality(ids) \in Nat
  BY <1>1, FS_CardinalityType
<1>3. s \in [1 .. Cardinality(ids) -> ids]
  BY DEF Orders
<1> QED BY <1>2, <1>3

(* The steps a constructor appends to the pending ones are steps on its ids. *)
LEMMA ConstructTyped ==
    ASSUME NEW S, NEW ids \in Seq(S), NEW ty, NEW by \in {"ui", "boot"}
    PROVE  ConstructSteps(ids, ty, by) \in Seq(StepOn(S))
<1>1. \A i \in 1 .. Len(ids) : Arm(ids[i], by) \in StepOn(S)
  BY DEF Arm, StepOn
<1>2. DOMAIN ids = 1 .. Len(ids) /\ Len(ids) \in Nat
  OBVIOUS
<1>3. [i \in DOMAIN ids |-> Arm(ids[i], by)] \in Seq(StepOn(S))
  BY <1>1, <1>2
<1> QED BY <1>3 DEF ConstructSteps

LEMMA ToggleTyped ==
    ASSUME NEW S, NEW ids \in Seq(S), NEW on
    PROVE  [i \in DOMAIN ids |-> IF on THEN Cancel(ids[i]) ELSE Arm(ids[i], "ui")]
             \in Seq(StepOn(S))
<1>1. \A i \in 1 .. Len(ids) : /\ Arm(ids[i], "ui") \in StepOn(S)
                               /\ Cancel(ids[i]) \in StepOn(S)
  BY DEF Arm, Cancel, StepOn
<1>2. DOMAIN ids = 1 .. Len(ids) /\ Len(ids) \in Nat
  OBVIOUS
<1> QED BY <1>1, <1>2

(* The first pending step names a used id, and the rest are still pending. *)
LEMMA HeadAndTail ==
    ASSUME UsedIdsOnly, todo # << >>
    PROVE  /\ Tail(todo) \in Seq(StepOn(UsedIds))
           /\ Head(todo).op # "load" => Head(todo).id \in UsedIds
           /\ Head(todo).op = "load" => /\ Head(todo).type \in Types
                                        /\ Head(todo).by \in {"ui", "boot"}
<1>1. Head(todo) \in StepOn(UsedIds) /\ Tail(todo) \in Seq(StepOn(UsedIds))
  BY DEF UsedIdsOnly
<1> QED BY <1>1 DEF StepOn

-----------------------------------------------------------------------------
LEMMA InitInv == Init => IInv
<1> SUFFICES ASSUME Init PROVE IInv
  OBVIOUS
<1>1. UsedIdsOnly
  BY DEF Init, UsedIdsOnly, NoCommand, Types
<1>2. AlarmsHaveIntents
  BY DEF Init, AlarmsHaveIntents
<1>3. PayloadFaithful
  BY DEF Init, PayloadFaithful, NoCommand
<1> QED BY <1>1, <1>2, <1>3 DEF IInv

(* A new row cannot meet an old intent: its id has never been used. *)
LEMMA AddEventInv ==
    ASSUME IInv, NEW t \in Templates, AddEvent(t)
    PROVE  IInv'
<1> USE DEF IInv
<1>1. nextId' = nextId + 1 /\ nextId \in Nat
  BY DEF AddEvent, NewId, UsedIdsOnly
<1>2. UsedIds \subseteq UsedIds' /\ nextId \in UsedIds' /\ nextId \notin UsedIds
  BY <1>1 DEF UsedIds, UsedIdsOnly
<1>4. /\ DOMAIN db' = DOMAIN db \cup {nextId}
      /\ \A id \in DOMAIN db : db'[id] = db[id]
  BY <1>2 DEF AddEvent, NewId, UsedIdsOnly
<1>6. todo' \in Seq(StepOn(UsedIds'))
  <2>1. Place(nextId) \in StepOn(UsedIds')
    BY <1>2 DEF Place, StepOn
  <2>2. <<Place(nextId)>> \in Seq(StepOn(UsedIds'))
    BY <2>1
  <2>3. todo' = <<Place(nextId)>>
    BY DEF AddEvent, NewId
  <2> QED BY <2>2, <2>3
<1>7. list' \in [Types -> Seq(UsedIds')]
  <2>1. \A ty \in Types : list[ty] \in Seq(UsedIds')
    BY <1>2, SeqWidens DEF UsedIdsOnly
  <2>2. list' = list
    BY DEF AddEvent
  <2> QED BY <2>1, <2>2 DEF UsedIdsOnly
<1>9. UsedIdsOnly'
  <2>1. /\ nextId' \in Nat /\ 1 <= nextId'
        /\ DOMAIN db' \subseteq UsedIds'
    <3>1. DOMAIN db \subseteq UsedIds /\ 1 <= nextId
      BY DEF UsedIdsOnly
    <3>2. DOMAIN db' \subseteq UsedIds'
      BY <1>2, <1>4, <3>1
    <3>3. nextId' \in Nat /\ 1 <= nextId'
      BY <1>1, <3>1
    <3> QED BY <3>2, <3>3
  <2>2. /\ DOMAIN intents' \subseteq UsedIds'
        /\ \A m \in inflight' : m.id \in UsedIds'
        /\ command'.id \in UsedIds' \cup {0}
    BY <1>2 DEF AddEvent, UsedIdsOnly
  <2> QED BY <1>6, <1>7, <2>1, <2>2 DEF UsedIdsOnly
<1>10. AlarmsHaveIntents'
  BY DEF AddEvent, AlarmsHaveIntents
<1>11. PayloadFaithful'
  <2>1. nextId \notin DOMAIN intents /\ command.id # nextId
    BY <1>1, <1>2 DEF UsedIdsOnly
  <2>2. \A m \in inflight : m.id # nextId
    BY <1>2 DEF UsedIdsOnly
  <2>3. \A id \in DOMAIN db' \cap DOMAIN intents : intents[id] = Extras(db'[id])
    BY <1>4, <2>1 DEF PayloadFaithful
  <2>4. \A m \in inflight : m.id \in DOMAIN db' => m.extras = Extras(db'[m.id])
    BY <1>4, <2>2 DEF PayloadFaithful
  <2>5. command.id \in DOMAIN db' =>
           /\ command.service = Service(Extras(db'[command.id]))
           /\ command.action = db'[command.id].action
           /\ command.socket = db'[command.id].socket
    BY <1>4, <2>1 DEF PayloadFaithful
  <2>6. UNCHANGED <<intents, inflight, command>>
    BY DEF AddEvent
  <2> QED BY <2>3, <2>4, <2>5, <2>6 DEF PayloadFaithful
<1> QED BY <1>9, <1>10, <1>11

LEMMA DeleteEventInv ==
    ASSUME IInv, NEW id \in DOMAIN db, DeleteEvent(id)
    PROVE  IInv'
<1> USE DEF IInv
<1>1. /\ DOMAIN db' \subseteq DOMAIN db
      /\ \A i \in DOMAIN db' : db'[i] = db[i]
  BY DEF DeleteEvent, Restrict
<1>2. todo' \in Seq(StepOn(UsedIds))
  <2>1. id \in UsedIds
    BY DEF UsedIdsOnly
  <2>2. Cancel(id) \in StepOn(UsedIds) /\ Drop(id) \in StepOn(UsedIds)
    BY <2>1 DEF Cancel, Drop, StepOn
  <2> QED BY <2>2 DEF DeleteEvent, DeleteSteps
<1>3. UsedIdsOnly'
  BY <1>1, <1>2 DEF DeleteEvent, UsedIdsOnly, UsedIds
<1>4. AlarmsHaveIntents'
  BY DEF DeleteEvent, AlarmsHaveIntents
<1>5. PayloadFaithful'
  BY <1>1, ZenonT(30) DEF DeleteEvent, PayloadFaithful, Extras, Service
<1> QED BY <1>3, <1>4, <1>5

(* PowerAlarm issues the command of the broadcast it received. *)
LEMMA ReceiveInv ==
    ASSUME IInv, NEW m \in inflight, Receive(m)
    PROVE  IInv'
<1> USE DEF IInv
<1>1. m.id \in UsedIds
  BY DEF UsedIdsOnly
<1>3. UsedIdsOnly'
  BY <1>1 DEF Receive, UsedIdsOnly, UsedIds
<1>4. AlarmsHaveIntents'
  BY DEF Receive, AlarmsHaveIntents
<1>5. PayloadFaithful'
  <2>1. m.id \in DOMAIN db => m.extras = Extras(db[m.id])
    BY DEF PayloadFaithful
  <2>2. m.id \in DOMAIN db => /\ m.extras.action = db[m.id].action
                              /\ m.extras.socket = db[m.id].socket
    BY <2>1 DEF Extras
  <2> QED BY <2>1, <2>2 DEF Receive, PayloadFaithful
<1> QED BY <1>3, <1>4, <1>5

LEMMA ToggleAlarmsInv ==
    ASSUME IInv, NEW ty \in Types, ToggleAlarms(ty)
    PROVE  IInv'
<1> USE DEF IInv
<1>1. list[ty] \in Seq(UsedIds)
  BY DEF UsedIdsOnly
<1>2. todo' \in Seq(StepOn(UsedIds))
  BY <1>1, ToggleTyped DEF ToggleAlarms
<1>3. UsedIdsOnly'
  BY <1>2 DEF ToggleAlarms, UsedIdsOnly, UsedIds
<1>4. AlarmsHaveIntents'
  BY DEF ToggleAlarms, AlarmsHaveIntents
<1>5. PayloadFaithful'
  BY DEF ToggleAlarms, PayloadFaithful
<1> QED BY <1>3, <1>4, <1>5

(* The activity opens or closes, or a boot is noticed: only todo and the lists. *)
LEMMA OpenCloseBootInv ==
    ASSUME IInv, OpenApp \/ CloseApp \/ BootCompleted
    PROVE  IInv'
<1> USE DEF IInv
<1>1. \A ty \in Types, by \in {"ui", "boot"} : Load(ty, by) \in StepOn(UsedIds)
  BY DEF Load, StepOn
<1>2. /\ <<Load("power", "ui"), Load("light", "ui")>> \in Seq(StepOn(UsedIds))
      /\ <<Load("power", "boot"), Load("light", "boot")>> \in Seq(StepOn(UsedIds))
  BY <1>1 DEF Types
<1>3. UsedIdsOnly'
  <2>1. CASE OpenApp
    BY <2>1, <1>2 DEF OpenApp, UsedIdsOnly, UsedIds
  <2>2. CASE CloseApp
    BY <2>2 DEF CloseApp, UsedIdsOnly, UsedIds
  <2>3. CASE BootCompleted
    BY <2>3, <1>2 DEF BootCompleted, UsedIdsOnly, UsedIds
  <2> QED BY <2>1, <2>2, <2>3
<1>4. AlarmsHaveIntents'
  BY DEF OpenApp, CloseApp, BootCompleted, AlarmsHaveIntents
<1>5. PayloadFaithful'
  BY DEF OpenApp, CloseApp, BootCompleted, PayloadFaithful
<1> QED BY <1>3, <1>4, <1>5

(* setAlarm stores the extras of the row, or keeps those that are there. *)
LEMMA ArmStepInv ==
    ASSUME IInv, ArmStep
    PROVE  IInv'
<1> USE DEF IInv
<1> DEFINE a == Head(todo).id
<1>1. a \in UsedIds /\ Tail(todo) \in Seq(StepOn(UsedIds))
  BY HeadAndTail DEF ArmStep, At
<1>2. /\ DOMAIN intents' = DOMAIN intents \cup {a}
      /\ \A i \in DOMAIN intents : intents'[i] = intents[i]
      /\ a \notin DOMAIN intents => intents'[a] = Extras(db[a])
  BY DEF ArmStep
<1>3. UsedIdsOnly'
  BY <1>1, <1>2 DEF ArmStep, UsedIdsOnly, UsedIds
<1>4. AlarmsHaveIntents'
  BY <1>2 DEF ArmStep, AlarmsHaveIntents
<1>5. PayloadFaithful'
  BY <1>2 DEF ArmStep, PayloadFaithful
<1> QED BY <1>3, <1>4, <1>5

LEMMA OtherStepsInv ==
    ASSUME IInv, LoadStep \/ CancelStep \/ PlaceStep \/ DropStep
    PROVE  IInv'
<1> USE DEF IInv
<1>1. CASE LoadStep
  <2> DEFINE ty == Head(todo).type
             by == Head(todo).by
  <2>1. /\ ty \in Types /\ by \in {"ui", "boot"}
        /\ Tail(todo) \in Seq(StepOn(UsedIds))
    BY <1>1, HeadAndTail DEF LoadStep, At
  <2>2. PICK ids \in Loaded(ty) :
           /\ list' = IF by = "ui" THEN [list EXCEPT ![ty] = ids] ELSE list
           /\ todo' = ConstructSteps(ids, ty, by) \o Tail(todo)
    BY <1>1 DEF LoadStep
  <2>3. IdsOf(ty) \subseteq 1 .. nextId /\ IdsOf(ty) \subseteq UsedIds
    BY DEF IdsOf, UsedIdsOnly, UsedIds
  <2>4. ids \in Seq(IdsOf(ty))
    BY <2>2, <2>3, OrdersAreSequences DEF Loaded, UsedIdsOnly
  <2>5. ids \in Seq(UsedIds)
    BY <2>3, <2>4
  <2>6. ConstructSteps(ids, ty, by) \in Seq(StepOn(UsedIds))
    BY <2>1, <2>5, ConstructTyped
  <2>7. todo' \in Seq(StepOn(UsedIds))
    BY <2>1, <2>2, <2>6
  <2>8. list' \in [Types -> Seq(UsedIds)]
    BY <2>1, <2>2, <2>5 DEF UsedIdsOnly
  <2> QED BY <1>1, <2>7, <2>8
          DEF LoadStep, UsedIdsOnly, UsedIds, AlarmsHaveIntents, PayloadFaithful
<1>2. CASE CancelStep
  <2>1. Tail(todo) \in Seq(StepOn(UsedIds))
    BY <1>2, HeadAndTail DEF CancelStep, At
  <2> QED BY <1>2, <2>1
          DEF CancelStep, UsedIdsOnly, UsedIds, AlarmsHaveIntents, PayloadFaithful
<1>3. CASE PlaceStep
  <2> DEFINE p == Head(todo).id
             ty == db[p].type
  <2>1. p \in UsedIds
    BY <1>3, HeadAndTail DEF PlaceStep, At
  <2>2. PICK i \in Places(list[ty], p) :
           list' = [list EXCEPT ![ty] = InsertAt(list[ty], i, p)]
    BY <1>3 DEF PlaceStep
  <2>3. list' \in [Types -> Seq(UsedIds)]
    <3>1. CASE ty \in Types
      <4>1. list[ty] \in Seq(UsedIds) /\ i \in 1 .. Len(list[ty]) + 1
        BY <2>2, <3>1 DEF Places, UsedIdsOnly
      <4>2. InsertAt(list[ty], i, p) \in Seq(UsedIds)
        BY <2>1, <4>1, ListsStayLists
      <4> QED BY <2>2, <4>2, <3>1 DEF UsedIdsOnly
    <3>2. CASE ty \notin Types
      BY <2>2, <3>2 DEF UsedIdsOnly
    <3> QED BY <3>1, <3>2
  <2>4. todo' \in Seq(StepOn(UsedIds))
    <3>1. Arm(p, "ui") \in StepOn(UsedIds)
      BY <2>1 DEF Arm, StepOn
    <3>2. <<Arm(p, "ui")>> \in Seq(StepOn(UsedIds)) /\ << >> \in Seq(StepOn(UsedIds))
      BY <3>1
    <3>3. todo' = <<Arm(p, "ui")>> \/ todo' = << >>
      BY <1>3 DEF PlaceStep
    <3> QED BY <3>2, <3>3
  <2> QED BY <1>3, <2>3, <2>4
          DEF PlaceStep, UsedIdsOnly, UsedIds, AlarmsHaveIntents, PayloadFaithful
<1>4. CASE DropStep
  <2>1. Tail(todo) \in Seq(StepOn(UsedIds))
    BY <1>4, HeadAndTail DEF DropStep, At
  <2>0. PICK ty \in Types : \E i \in DOMAIN list[ty] :
           list' = [list EXCEPT ![ty] = RemoveAt(list[ty], i)]
    BY <1>4 DEF DropStep
  <2>2. PICK i \in DOMAIN list[ty] :
           list' = [list EXCEPT ![ty] = RemoveAt(list[ty], i)]
    BY <2>0
  <2>3. list[ty] \in Seq(UsedIds) /\ i \in 1 .. Len(list[ty])
    BY <2>2 DEF UsedIdsOnly
  <2>4. RemoveAt(list[ty], i) \in Seq(UsedIds)
    <3>1. list[ty][i] \in UsedIds /\ i \in 1 .. Len(list[ty]) + 1 /\ i <= Len(list[ty])
      BY <2>3
    <3> QED BY <2>3, <3>1, ListsStayLists
  <2>5. list' \in [Types -> Seq(UsedIds)]
    BY <2>2, <2>4 DEF UsedIdsOnly
  <2> QED BY <1>4, <2>1, <2>5
          DEF DropStep, UsedIdsOnly, UsedIds, AlarmsHaveIntents, PayloadFaithful
<1> QED BY <1>1, <1>2, <1>3, <1>4

LEMMA EnvironmentInv ==
    ASSUME IInv, Environment
    PROVE  IInv'
<1> USE DEF IInv
<1>1. ASSUME NEW id \in alarms, Fire(id)
      PROVE  IInv'
  <2> DEFINE sent == [id |-> id, extras |-> intents[id]]
  <2>1. id \in DOMAIN intents
    BY <1>1 DEF AlarmsHaveIntents
  <2>2. sent.id \in UsedIds
    BY <2>1 DEF UsedIdsOnly
  <2>3. sent.id \in DOMAIN db => sent.extras = Extras(db[sent.id])
    BY <2>1 DEF PayloadFaithful
  <2>4. inflight' = inflight \cup {sent}
    BY <1>1 DEF Fire
  <2> HIDE DEF sent
  <2>5. UsedIdsOnly'
    BY <1>1, <2>2, <2>4 DEF Fire, UsedIdsOnly, UsedIds
  <2>6. PayloadFaithful'
    BY <1>1, <2>3, <2>4 DEF Fire, PayloadFaithful
  <2> QED BY <1>1, <2>5, <2>6 DEF Fire, AlarmsHaveIntents
<1>2. ASSUME NEW id \in DOMAIN intents, Collect(id)
      PROVE  IInv'
  <2>1. /\ DOMAIN intents' = DOMAIN intents \ {id}
        /\ \A i \in DOMAIN intents' : intents'[i] = intents[i]
    BY <1>2 DEF Collect, Restrict
  <2>2. id \notin alarms
    BY <1>2 DEF Collect
  <2> QED BY <1>2, <2>1, <2>2
          DEF Collect, UsedIdsOnly, UsedIds, AlarmsHaveIntents, PayloadFaithful
<1>3. CASE NextDay
  BY <1>3 DEF NextDay, UsedIdsOnly, UsedIds, AlarmsHaveIntents, PayloadFaithful
<1>4. CASE Kill \/ Reboot
  <2>1. UsedIdsOnly'
    <3>1. /\ list' \in [Types -> Seq(UsedIds)]
          /\ todo' \in Seq(StepOn(UsedIds))
      <4>1. << >> \in Seq(UsedIds) /\ << >> \in Seq(StepOn(UsedIds))
        OBVIOUS
      <4>2. list' = [ty \in Types |-> << >>] /\ todo' = << >>
        BY <1>4 DEF Kill, Reboot, ProcessEnds
      <4> QED BY <4>1, <4>2
    <3>2. CASE Kill
      BY <3>1, <3>2 DEF Kill, UsedIdsOnly, UsedIds
    <3>3. CASE Reboot
      BY <3>1, <3>3 DEF Reboot, UsedIdsOnly, UsedIds
    <3> QED BY <1>4, <3>2, <3>3
  <2>2. AlarmsHaveIntents'
    BY <1>4 DEF Kill, Reboot, AlarmsHaveIntents
  <2>3. PayloadFaithful'
    <3>1. CASE Kill
      BY <3>1 DEF Kill, PayloadFaithful
    <3>2. CASE Reboot
      BY <3>2 DEF Reboot, PayloadFaithful
    <3> QED BY <1>4, <3>1, <3>2
  <2> QED BY <2>1, <2>2, <2>3
<1> QED BY <1>1, <1>2, <1>3, <1>4 DEF Environment

LEMMA NextInv == IInv /\ [Next]_vars => IInv'
<1> SUFFICES ASSUME IInv, [Next]_vars PROVE IInv'
  OBVIOUS
<1>1. CASE UserStep
  BY <1>1, OpenCloseBootInv, AddEventInv, DeleteEventInv, ToggleAlarmsInv
  DEF UserStep
<1>2. CASE BootCompleted
  BY <1>2, OpenCloseBootInv
<1>3. CASE \E m \in inflight : Receive(m)
  BY <1>3, ReceiveInv
<1>4. CASE HandlerStep
  BY <1>4, ArmStepInv, OtherStepsInv DEF HandlerStep
<1>5. CASE Environment
  BY <1>5, EnvironmentInv
<1>6. CASE UNCHANGED vars
  BY <1>6 DEF vars, IInv, UsedIdsOnly, UsedIds, AlarmsHaveIntents, PayloadFaithful
<1> QED BY <1>1, <1>2, <1>3, <1>4, <1>5, <1>6 DEF Next

-----------------------------------------------------------------------------
(* setAlarm reuses a PendingIntent with its old extras; still, whatever is    *)
(* armed, in flight or was last commanded for an event in the table carries   *)
(* the extras of that event, because AUTOINCREMENT never gives an id twice.   *)
THEOREM Faithful == Spec => []PayloadFaithful
<1>1. Spec => []IInv
  BY InitInv, NextInv, PTL DEF Spec
<1>2. IInv => PayloadFaithful
  BY DEF IInv
<1> QED BY <1>1, <1>2, PTL
=============================================================================
