---------------------------- MODULE TimerProofs ----------------------------
(* More about DomoEvents, for any templates, bounds and number of faults: the *)
(* lists of the managers, the alarms they arm and the events that hold them.   *)
EXTENDS DomoEventsProofs, ListFacts

Pending == Range(todo)

(***************************************************************************)
(* What the steps of a handler that are still to come say of the rest.       *)
(***************************************************************************)
RowsTyped ==
    /\ \A id \in DOMAIN db : db[id] \in Row /\ db[id].day <= day
    /\ saved \in [Types -> BOOLEAN]
    /\ day \in Nat

NothingClosed ==
    /\ ui \in BOOLEAN
    /\ ~ui => /\ refs = {}
              /\ \A ty \in Types : list[ty] = << >>
              /\ \A s \in Pending : s.by = "boot"

StepsMakeSense ==
    \A s \in Pending :
        /\ s.op = "arm" => s.id \in EnabledIds
        /\ s.op = "cancel" => s.id \notin EnabledIds
        /\ s.op \in {"cancel", "place", "drop"} => s.by = "ui"
        /\ s.op = "drop" => s.id \notin DOMAIN db
        /\ s.op = "place" =>
              /\ s.id \in DOMAIN db
              /\ Pending = {s}
              /\ \A ty \in Types : s.id \notin Range(list[ty])

\* Every row of the type is in the list, or is still to be loaded or placed,
\* and whatever else is in the list is still to be dropped.
Mirrored ==
    \A ty \in Types :
        /\ IsInjective(list[ty])
        /\ \A id \in Range(list[ty]) : id \in IdsOf(ty) \/ Drop(id) \in Pending
        /\ ui => \/ Load(ty, "ui") \in Pending
                 \/ \A id \in IdsOf(ty) :
                       id \in Range(list[ty]) \/ Place(id) \in Pending

OneList ==
    \A t1, t2 \in Types : t1 # t2 => Range(list[t1]) \cap Range(list[t2]) = {}

\* Every event of an enabled system holds its alarm or is still to arm it.
Armed ==
    /\ refs \subseteq alarms
    /\ ui => \A id \in EnabledIds :
                \/ id \in refs
                \/ Arm(id, "ui") \in Pending
                \/ Place(id) \in Pending
                \/ Load(db[id].type, "ui") \in Pending

\* Every other alarm is an orphan's or is still to be cancelled by its holder.
Accounted ==
    \A id \in alarms :
        \/ id \in EnabledIds
        \/ id \in orphans
        \/ id \in refs /\ Cancel(id) \in Pending

\* On the first day a list is in the order of the times of the day.
Ordered ==
    day = 0 => \A ty \in Types : \A i, j \in DOMAIN list[ty] :
        /\ i < j
        /\ list[ty][i] \in DOMAIN db /\ list[ty][j] \in DOMAIN db
        => db[list[ty][i]].tod <= db[list[ty][j]].tod

Timers ==
    /\ RowsTyped /\ NothingClosed /\ StepsMakeSense
    /\ Mirrored /\ OneList /\ Armed /\ Accounted /\ Ordered

TInv == IInv /\ Timers

-----------------------------------------------------------------------------
(* A query returns every row it was asked for, once. *)
LEMMA QueryIsComplete ==
    ASSUME NEW n \in Nat, NEW ids, ids \subseteq 1 .. n, NEW s \in Orders(ids)
    PROVE  /\ s \in Seq(ids)
           /\ Range(s) = ids
           /\ IsInjective(s)
<1>1. IsFiniteSet(ids)
  <2>1. IsFiniteSet(1 .. n) /\ ids \in SUBSET (1 .. n)
    BY FS_Interval
  <2> QED BY <2>1, FS_Subset
<1>2. Cardinality(ids) \in Nat
  BY <1>1, FS_CardinalityType
<1> DEFINE k == Cardinality(ids)
<1>3. /\ s \in [1 .. k -> ids]
      /\ \A i, j \in DOMAIN s : i < j => s[i] # s[j]
  BY DEF Orders
<1>4. IsInjective(s)
  <2> SUFFICES ASSUME NEW i \in DOMAIN s, NEW j \in DOMAIN s, s[i] = s[j]
               PROVE  i = j
    BY DEF IsInjective
  <2>1. i \in Nat /\ j \in Nat
    BY <1>2, <1>3
  <2>2. ~(i < j) /\ ~(j < i)
    BY <1>3
  <2> QED BY <2>1, <2>2
<1>5. s \in Injection(1 .. k, ids)
  BY <1>3, <1>4 DEF Injection
<1>6. Cardinality(1 .. k) = k
  <2>1. Cardinality(1 .. k) = IF 1 > k THEN 0 ELSE k - 1 + 1
    BY <1>2, FS_Interval
  <2> QED BY <1>2, <2>1
<1>7. s \in Surjection(1 .. k, ids)
  <2> HIDE DEF k
  <2> QED BY <1>1, <1>5, <1>6, FS_Injection DEF k
<1>8. Range(s) = ids
  BY <1>3, <1>7 DEF Range, Surjection
<1> QED BY <1>4, <1>8, OrdersAreSequences

-----------------------------------------------------------------------------
(* The steps of a handler *)

(* What a step is: its operation, its event or type, and its owner. *)
LEMMA StepFields ==
    /\ \A ty, by : LET s == Load(ty, by)
                  IN  s.op = "load" /\ s.type = ty /\ s.by = by
    /\ \A id, by : LET s == Arm(id, by)
                  IN  s.op = "arm" /\ s.id = id /\ s.by = by
    /\ \A id : LET s == Cancel(id)
              IN  s.op = "cancel" /\ s.id = id /\ s.by = "ui"
    /\ \A id : LET s == Place(id)
              IN  s.op = "place" /\ s.id = id /\ s.by = "ui"
    /\ \A id : LET s == Drop(id)
              IN  s.op = "drop" /\ s.id = id /\ s.by = "ui"
BY DEF Load, Arm, Cancel, Place, Drop

(* Performing the first step leaves the others. *)
LEMMA Performed ==
    ASSUME UsedIdsOnly, todo # << >>
    PROVE  /\ Head(todo) \in Pending
           /\ Pending = {Head(todo)} \cup Range(Tail(todo))
<1>1. todo \in Seq(StepOn(UsedIds))
  BY DEF UsedIdsOnly
<1> QED BY <1>1, RangeOfTail DEF Pending

(* Between handlers the lists, the table and the alarms agree. *)
LEMMA WhenIdle ==
    ASSUME TInv, Idle
    PROVE  /\ Pending = {}
           /\ ui => /\ \A ty \in Types : Range(list[ty]) = IdsOf(ty)
                    /\ EnabledIds \subseteq refs
           /\ alarms \subseteq EnabledIds \cup orphans
<1>1. Pending = {}
  BY RangeOfFew DEF Idle, Pending
<1>2. ASSUME ui, NEW ty \in Types
      PROVE  Range(list[ty]) = IdsOf(ty)
  <2>1. \A id \in Range(list[ty]) : id \in IdsOf(ty)
    BY <1>1 DEF TInv, Timers, Mirrored
  <2>2. \A id \in IdsOf(ty) : id \in Range(list[ty])
    BY <1>1, <1>2 DEF TInv, Timers, Mirrored
  <2> QED BY <2>1, <2>2
<1>3. ui => EnabledIds \subseteq refs
  BY <1>1 DEF TInv, Timers, Armed
<1>4. alarms \subseteq EnabledIds \cup orphans
  BY <1>1 DEF TInv, Timers, Accounted
<1> QED BY <1>1, <1>2, <1>3, <1>4

-----------------------------------------------------------------------------
(* Nothing is stored, armed or shown at first. *)
LEMMA InitTimers == Init => Timers
<1> SUFFICES ASSUME Init PROVE Timers
  OBVIOUS
<1>1. /\ db = << >> /\ DOMAIN db = {} /\ Pending = {} /\ alarms = {} /\ refs = {}
      /\ ui = FALSE /\ day = 0
      /\ saved \in [Types -> BOOLEAN]
      /\ \A ty \in Types : list[ty] = << >> /\ Range(list[ty]) = {}
  BY RangeOfFew DEF Init, Pending
<1>2. \A ty \in Types : DOMAIN list[ty] = {}
  BY <1>1
<1>3. RowsTyped /\ NothingClosed /\ StepsMakeSense
  BY <1>1 DEF RowsTyped, NothingClosed, StepsMakeSense
<1>4. Mirrored /\ OneList
  BY <1>1, <1>2 DEF Mirrored, OneList, IsInjective
<1>5. Armed /\ Accounted /\ Ordered
  BY <1>1, <1>2 DEF Armed, Accounted, Ordered
<1> QED BY <1>3, <1>4, <1>5 DEF Timers

(* Broadcasts, intents and days do not touch the lists and the alarms. *)
LEMMA OutsideTimers ==
    ASSUME TInv,
           UNCHANGED <<db, saved, alarms, ui, list, refs, todo, orphans>>,
           day' = day \/ day' = day + 1
    PROVE  Timers'
<1> USE DEF TInv, Timers
<1>1. Pending' = Pending /\ EnabledIds' = EnabledIds
  BY DEF Pending, EnabledIds
<1>2. \A ty \in Types : IdsOf(ty)' = IdsOf(ty)
  BY DEF IdsOf
<1>3. day' \in Nat /\ day <= day' /\ (day' = 0 => day = 0)
  BY DEF RowsTyped
<1>4. RowsTyped'
  <2>1. \A id \in DOMAIN db : db[id] \in Row /\ db[id].day <= day'
    BY <1>3 DEF RowsTyped, Row
  <2> QED BY <1>3, <2>1 DEF RowsTyped
<1>5. NothingClosed' /\ StepsMakeSense'
  BY <1>1 DEF NothingClosed, StepsMakeSense
<1>6. Mirrored' /\ OneList'
  BY <1>1, <1>2 DEF Mirrored, OneList
<1>7. Armed' /\ Accounted'
  BY <1>1 DEF Armed, Accounted
<1>8. Ordered'
  BY <1>3 DEF Ordered
<1> QED BY <1>4, <1>5, <1>6, <1>7, <1>8

(* The end of the process, whatever remains of the handler it was running. *)
LEMMA KillOrRebootTimers ==
    ASSUME TInv, Kill \/ Reboot
    PROVE  Timers'
<1> USE DEF TInv, Timers
<1>1. /\ ui' = FALSE /\ refs' = {} /\ todo' = << >>
      /\ UNCHANGED <<db, saved, day>>
      /\ \A ty \in Types : list'[ty] = << >>
  BY DEF Kill, Reboot, ProcessEnds
<1>2. /\ Pending' = {} /\ EnabledIds' = EnabledIds
      /\ \A ty \in Types : Range(list'[ty]) = {} /\ DOMAIN list'[ty] = {}
  BY <1>1, RangeOfFew DEF Pending, EnabledIds
<1>3. RowsTyped' /\ NothingClosed' /\ StepsMakeSense'
  BY <1>1, <1>2 DEF RowsTyped, NothingClosed, StepsMakeSense
<1>4. Mirrored' /\ OneList'
  BY <1>1, <1>2 DEF Mirrored, OneList, IsInjective
<1>5. Armed' /\ Ordered'
  BY <1>1, <1>2 DEF Armed, Ordered
<1>6. Accounted'
  <2>1. CASE Reboot
    BY <2>1 DEF Reboot, Accounted
  <2>2. CASE Kill
    <3> SUFFICES ASSUME NEW id \in alarms, id \notin EnabledIds, id \notin orphans
                 PROVE  id \in orphans'
      BY <1>2, <2>2 DEF Kill, Accounted
    <3>1. Cancel(id) \in Pending
      BY DEF Accounted
    <3>2. PICK i \in DOMAIN todo : todo[i] = Cancel(id)
      BY <3>1 DEF Pending, Range
    <3>3. todo[i].op = "cancel" /\ todo[i].id = id
      BY <3>2, StepFields
    <3>4. id \in CutOff
      BY <3>3 DEF CutOff
    <3> QED BY <2>2, <3>4 DEF Kill
  <2> QED BY <2>1, <2>2
<1> QED BY <1>3, <1>4, <1>5, <1>6

-----------------------------------------------------------------------------
(* The handlers of the main thread *)

(* New managers start empty, with everything still to load. *)
LEMMA OpenCloseBootTimers ==
    ASSUME TInv, OpenApp \/ CloseApp \/ BootCompleted
    PROVE  Timers'
<1>1. Idle
  BY DEF OpenApp, CloseApp, BootCompleted
<1>2. /\ Pending = {} /\ alarms \subseteq EnabledIds \cup orphans
      /\ ui => /\ \A ty \in Types : Range(list[ty]) = IdsOf(ty)
               /\ EnabledIds \subseteq refs
  BY <1>1, WhenIdle
<1> USE DEF TInv, Timers
<1>3. UNCHANGED <<db, saved, alarms, day, orphans>>
  BY DEF OpenApp, CloseApp, BootCompleted
<1>4. EnabledIds' = EnabledIds /\ \A ty \in Types : IdsOf(ty)' = IdsOf(ty)
  BY <1>3 DEF EnabledIds, IdsOf
<1>5. RowsTyped' /\ Accounted'
  BY <1>2, <1>3, <1>4 DEF RowsTyped, Accounted
<1>6. ASSUME OpenApp
      PROVE  NothingClosed' /\ StepsMakeSense' /\ Mirrored' /\ Armed'
  <2>1. /\ Pending' = {Load("power", "ui"), Load("light", "ui")}
        /\ ~ui /\ ui' /\ UNCHANGED <<list, refs>>
    BY <1>6, RangeOfFew DEF OpenApp, Pending
  <2>2. \A ty \in Types : list[ty] = << >> /\ Range(list[ty]) = {} /\ refs = {}
    BY <2>1, RangeOfFew DEF NothingClosed
  <2>3. \A ty \in Types : Load(ty, "ui") \in Pending'
    BY <2>1 DEF Types
  <2>4. \A s \in Pending' : s.op = "load"
    BY <2>1, StepFields
  <2>5. NothingClosed' /\ StepsMakeSense'
    BY <1>6, <2>1, <2>4 DEF OpenApp, NothingClosed, StepsMakeSense
  <2>6. Mirrored'
    BY <2>1, <2>2, <2>3 DEF Mirrored
  <2>7. \A id \in DOMAIN db : db[id].type \in Types
    BY DEF RowsTyped, Row
  <2>8. Armed'
    BY <1>3, <1>4, <2>1, <2>2, <2>3, <2>7 DEF Armed, EnabledIds
  <2> QED BY <2>5, <2>6, <2>8
<1>7. ASSUME CloseApp
      PROVE  NothingClosed' /\ StepsMakeSense' /\ Mirrored' /\ Armed'
  <2>1. /\ Pending' = {} /\ ui' = FALSE /\ refs' = {}
        /\ \A ty \in Types : list'[ty] = << >>
    BY <1>2, <1>7 DEF CloseApp, Pending
  <2>2. \A ty \in Types : DOMAIN list'[ty] = {} /\ Range(list'[ty]) = {}
    BY <2>1, RangeOfFew
  <2> QED BY <2>1, <2>2
          DEF NothingClosed, StepsMakeSense, Mirrored, Armed, IsInjective
<1>8. ASSUME BootCompleted
      PROVE  NothingClosed' /\ StepsMakeSense' /\ Mirrored' /\ Armed'
  <2>1. /\ Pending' = {Load("power", "boot"), Load("light", "boot")}
        /\ UNCHANGED <<ui, list, refs>>
    BY <1>8, RangeOfFew DEF BootCompleted, Pending
  <2>2. \A s \in Pending' : s.op = "load" /\ s.by = "boot"
    BY <2>1, StepFields
  <2>3. NothingClosed' /\ StepsMakeSense'
    BY <2>1, <2>2 DEF NothingClosed, StepsMakeSense
  <2>4. \A ty \in Types : \A id \in Range(list[ty]) : id \in IdsOf(ty)
    BY <1>2 DEF Mirrored
  <2>5. Mirrored'
    BY <1>2, <1>4, <2>1, <2>4 DEF Mirrored
  <2>6. Armed'
    BY <1>2, <1>3, <1>4, <2>1 DEF Armed
  <2> QED BY <2>3, <2>5, <2>6
<1>9. OneList' /\ Ordered'
  <2>1. CASE UNCHANGED list
    BY <1>3, <2>1 DEF OneList, Ordered
  <2>2. CASE \A ty \in Types : list'[ty] = << >>
    <3>1. \A ty \in Types : DOMAIN list'[ty] = {} /\ Range(list'[ty]) = {}
      BY <2>2, RangeOfFew
    <3> QED BY <3>1 DEF OneList, Ordered
  <2>3. UNCHANGED list \/ \A ty \in Types : list'[ty] = << >>
    BY DEF OpenApp, CloseApp, BootCompleted
  <2> QED BY <2>1, <2>2, <2>3
<1> QED BY <1>5, <1>6, <1>7, <1>8, <1>9

(* The new row is in the table and will be placed; nothing else changes. *)
LEMMA AddEventTimers ==
    ASSUME TInv, NEW t \in Templates, AddEvent(t)
    PROVE  Timers'
<1> DEFINE n == nextId
<1>1. /\ Idle /\ ui /\ nextId \in Nat
      /\ UNCHANGED <<saved, alarms, ui, list, refs, day, orphans>>
  BY DEF AddEvent, TInv, IInv, UsedIdsOnly
<1>2. /\ Pending = {} /\ alarms \subseteq EnabledIds \cup orphans
      /\ \A ty \in Types : Range(list[ty]) = IdsOf(ty)
      /\ EnabledIds \subseteq refs
  BY <1>1, WhenIdle
<1> USE DEF TInv, Timers
<1>3. n \notin DOMAIN db
  BY <1>1 DEF IInv, UsedIdsOnly, UsedIds
<1>4. /\ DOMAIN db' = DOMAIN db \cup {n}
      /\ \A id \in DOMAIN db : db'[id] = db[id]
      /\ db'[n] = [type |-> t.type, tod |-> t.tod, action |-> t.action,
                   socket |-> t.socket, day |-> day]
  BY <1>3 DEF AddEvent, NewId
<1>5. Pending' = {Place(n)}
  BY RangeOfFew DEF AddEvent, NewId, Pending
<1>6. RowsTyped'
  <2>1. t \in [type : Types, tod : Nat, action : BOOLEAN, socket : Nat]
    BY EventsAssumption
  <2>2. db'[n] \in Row /\ db'[n].day <= day
    BY <1>4, <2>1 DEF RowsTyped, Row
  <2> QED BY <1>1, <1>4, <2>2 DEF RowsTyped
<1>7. /\ EnabledIds \subseteq EnabledIds'
      /\ EnabledIds' \subseteq EnabledIds \cup {n}
  BY <1>1, <1>4 DEF EnabledIds
<1>8. \A ty \in Types : /\ IdsOf(ty) \subseteq IdsOf(ty)'
                        /\ IdsOf(ty)' \subseteq IdsOf(ty) \cup {n}
                        /\ IdsOf(ty) \subseteq DOMAIN db
  BY <1>4 DEF IdsOf
<1>9. NothingClosed' /\ StepsMakeSense'
  <2>1. Place(n).op = "place" /\ Place(n).id = n /\ Place(n).by = "ui"
    BY StepFields
  <2>2. \A ty \in Types : n \notin Range(list[ty])
    BY <1>2, <1>3, <1>8
  <2> QED BY <1>1, <1>4, <1>5, <2>1, <2>2 DEF NothingClosed, StepsMakeSense
<1>10. Mirrored' /\ OneList'
  <2>1. \A ty \in Types : \A id \in IdsOf(ty)' :
            id \in Range(list[ty]) \/ Place(id) \in Pending'
    BY <1>2, <1>5, <1>8
  <2> QED BY <1>1, <1>2, <1>8, <2>1 DEF Mirrored, OneList
<1>11. Armed' /\ Accounted'
  BY <1>1, <1>2, <1>5, <1>7 DEF Armed, Accounted
<1>12. Ordered'
  <2>1. \A ty \in Types : \A i \in DOMAIN list[ty] : list[ty][i] \in DOMAIN db
    <3> SUFFICES ASSUME NEW ty \in Types, NEW i \in DOMAIN list[ty]
                 PROVE  list[ty][i] \in DOMAIN db
      OBVIOUS
    <3>1. list[ty][i] \in Range(list[ty])
      BY DEF Range
    <3> QED BY <1>2, <1>8, <3>1
  <2> QED BY <1>1, <1>4, <2>1 DEF Ordered
<1> QED BY <1>6, <1>9, <1>10, <1>11, <1>12

(* The row is gone; its alarm, which its object holds, will be cancelled. *)
LEMMA DeleteEventTimers ==
    ASSUME TInv, NEW id \in DOMAIN db, DeleteEvent(id)
    PROVE  Timers'
<1>1. /\ Idle /\ ui
      /\ UNCHANGED <<saved, alarms, ui, list, refs, day, orphans>>
  BY DEF DeleteEvent
<1>2. /\ Pending = {} /\ alarms \subseteq EnabledIds \cup orphans
      /\ \A ty \in Types : Range(list[ty]) = IdsOf(ty)
      /\ EnabledIds \subseteq refs
  BY <1>1, WhenIdle
<1> USE DEF TInv, Timers
<1>3. /\ DOMAIN db' = DOMAIN db \ {id}
      /\ \A i \in DOMAIN db' : db'[i] = db[i]
  BY DEF DeleteEvent, Restrict
<1>4. Pending' = {Cancel(id), Drop(id)}
  BY RangeOfFew DEF DeleteEvent, DeleteSteps, Pending
<1>5. EnabledIds' = EnabledIds \ {id}
  BY <1>1, <1>3 DEF EnabledIds
<1>6. \A ty \in Types : IdsOf(ty)' = IdsOf(ty) \ {id}
  BY <1>3 DEF IdsOf
<1>7. RowsTyped'
  BY <1>1, <1>3 DEF RowsTyped
<1>8. \A s \in Pending' : s.op \in {"cancel", "drop"} /\ s.id = id /\ s.by = "ui"
  BY <1>4, StepFields
<1>9. NothingClosed' /\ StepsMakeSense'
  BY <1>1, <1>3, <1>5, <1>8 DEF NothingClosed, StepsMakeSense
<1>10. Mirrored' /\ OneList'
  BY <1>1, <1>2, <1>4, <1>6 DEF Mirrored, OneList
<1>11. Armed' /\ Accounted'
  BY <1>1, <1>2, <1>4, <1>5 DEF Armed, Accounted
<1>12. Ordered'
  BY <1>1, <1>3 DEF Ordered
<1> QED BY <1>7, <1>9, <1>10, <1>11, <1>12

(* Each event of the list is to be armed, or each one is to be cancelled. *)
LEMMA ToggleAlarmsTimers ==
    ASSUME TInv, NEW ty \in Types, ToggleAlarms(ty)
    PROVE  Timers'
<1>1. /\ Idle /\ ui
      /\ UNCHANGED <<db, alarms, ui, list, refs, day, orphans>>
  BY DEF ToggleAlarms
<1>2. /\ Pending = {} /\ alarms \subseteq EnabledIds \cup orphans
      /\ \A u \in Types : Range(list[u]) = IdsOf(u)
      /\ EnabledIds \subseteq refs
  BY <1>1, WhenIdle
<1> USE DEF TInv, Timers
<1>3. /\ saved' \in [Types -> BOOLEAN]
      /\ saved'[ty] = ~saved[ty]
      /\ \A u \in Types : u # ty => saved'[u] = saved[u]
  BY DEF ToggleAlarms, RowsTyped
<1>4. \A u \in Types : IdsOf(u)' = IdsOf(u)
  BY <1>1 DEF IdsOf
<1>5. \A id \in DOMAIN db : db[id].type \in Types
  BY DEF RowsTyped, Row
<1>6. \A s \in Pending' : \E id \in IdsOf(ty) :
          s = IF saved[ty] THEN Cancel(id) ELSE Arm(id, "ui")
  BY <1>2 DEF ToggleAlarms, Pending, Range
<1>7. \A id \in IdsOf(ty) :
          (IF saved[ty] THEN Cancel(id) ELSE Arm(id, "ui")) \in Pending'
  BY <1>2 DEF ToggleAlarms, Pending, Range
<1>8. RowsTyped'
  BY <1>1, <1>3 DEF RowsTyped
<1>9. /\ saved[ty] => EnabledIds' = EnabledIds \ IdsOf(ty) /\ IdsOf(ty) \subseteq EnabledIds
      /\ ~saved[ty] => EnabledIds' = EnabledIds \cup IdsOf(ty)
  BY <1>1, <1>3, <1>5 DEF EnabledIds, IdsOf
<1>10. NothingClosed' /\ StepsMakeSense'
  <2>1. \A s \in Pending' :
           /\ s.op = IF saved[ty] THEN "cancel" ELSE "arm"
           /\ s.id \in IdsOf(ty)
           /\ s.by = "ui"
    BY <1>6, StepFields
  <2>2. \A s \in Pending' : /\ s.op = "arm" => s.id \in EnabledIds'
                            /\ s.op = "cancel" => s.id \notin EnabledIds'
                            /\ s.op \in {"arm", "cancel"} /\ s.by = "ui"
    BY <1>9, <2>1
  <2>3. NothingClosed'
    BY <1>1 DEF NothingClosed
  <2>4. StepsMakeSense'
    BY <2>2 DEF StepsMakeSense
  <2> QED BY <2>3, <2>4
<1>11. Mirrored' /\ OneList' /\ Ordered'
  BY <1>1, <1>2, <1>4 DEF Mirrored, OneList, Ordered
<1>12. Armed' /\ Accounted'
  <2>1. CASE saved[ty]
    BY <1>1, <1>2, <1>7, <1>9, <2>1 DEF Armed, Accounted
  <2>2. CASE ~saved[ty]
    BY <1>1, <1>2, <1>7, <1>9, <2>2 DEF Armed, Accounted
  <2> QED BY <2>1, <2>2
<1> QED BY <1>8, <1>10, <1>11, <1>12

-----------------------------------------------------------------------------
(* The steps a handler has left *)

(* A constructor takes in every row of its type, and arms them if enabled. *)
LEMMA LoadStepTimers ==
    ASSUME TInv, LoadStep
    PROVE  Timers'
<1> DEFINE h == Head(todo)
           ty == h.type
           by == h.by
           rest == Range(Tail(todo))
<1>1. todo # << >> /\ h.op = "load"
  BY DEF LoadStep, At
<1>2. h \in Pending /\ Pending = {h} \cup rest
  BY <1>1, Performed DEF TInv, IInv
<1>3. ty \in Types /\ by \in {"ui", "boot"} /\ Tail(todo) \in Seq(StepOn(UsedIds))
  BY <1>1, HeadAndTail DEF TInv, IInv
<1>4. PICK ids \in Loaded(ty) :
         /\ list' = IF by = "ui" THEN [list EXCEPT ![ty] = ids] ELSE list
         /\ todo' = ConstructSteps(ids, ty, by) \o Tail(todo)
  BY DEF LoadStep
<1>5. UNCHANGED <<db, saved, alarms, ui, refs, day, orphans>>
  BY DEF LoadStep
<1> HIDE DEF h
<1>6. /\ ids \in Seq(IdsOf(ty)) /\ ids \in Seq(UsedIds)
      /\ Range(ids) = IdsOf(ty) /\ IsInjective(ids)
  <2>1. /\ nextId \in Nat /\ IdsOf(ty) \subseteq 1 .. nextId
        /\ IdsOf(ty) \subseteq UsedIds
    BY DEF IdsOf, TInv, IInv, UsedIdsOnly, UsedIds
  <2>2. ids \in Orders(IdsOf(ty))
    BY <1>4 DEF Loaded
  <2>3. ids \in Seq(IdsOf(ty)) /\ Range(ids) = IdsOf(ty) /\ IsInjective(ids)
    BY <2>1, <2>2, QueryIsComplete
  <2> QED BY <2>1, <2>3, SeqWidens
<1> DEFINE arms == Range(ConstructSteps(ids, ty, by))
<1>7. Pending' = arms \cup rest
  <2>1. ConstructSteps(ids, ty, by) \in Seq(StepOn(UsedIds))
    BY <1>3, <1>6, ConstructTyped
  <2> QED BY <1>3, <1>4, <2>1, RangeOfConcat, ZenonT(30) DEF Pending
<1>8. /\ \A s \in arms : saved[ty] /\ \E id \in IdsOf(ty) : s = Arm(id, by)
      /\ saved[ty] => \A id \in IdsOf(ty) : Arm(id, by) \in arms
  <2>1. CASE saved[ty]
    <3>1. ConstructSteps(ids, ty, by) = [i \in DOMAIN ids |-> Arm(ids[i], by)]
      BY <2>1 DEF ConstructSteps
    <3>2. \A s \in arms : \E i \in DOMAIN ids : s = Arm(ids[i], by)
      BY <3>1 DEF Range
    <3>3. \A i \in DOMAIN ids : Arm(ids[i], by) \in arms
      BY <3>1 DEF Range
    <3> QED BY <1>6, <2>1, <3>2, <3>3 DEF Range
  <2>2. CASE ~saved[ty]
    <3>1. arms = {}
      BY <2>2, RangeOfFew DEF ConstructSteps
    <3> QED BY <2>2, <3>1
  <2> QED BY <2>1, <2>2
<1> HIDE DEF arms, rest, ty, by
<1>9. \A s \in arms : s.op = "arm" /\ s.id \in IdsOf(ty) /\ s.by = by /\ saved[ty]
  BY <1>8, StepFields
<1>10. /\ EnabledIds' = EnabledIds
       /\ \A u \in Types : IdsOf(u)' = IdsOf(u) /\ IdsOf(u) \subseteq DOMAIN db
       /\ saved[ty] => IdsOf(ty) \subseteq EnabledIds
  BY <1>5 DEF EnabledIds, IdsOf
<1> USE DEF TInv, Timers
<1>11. RowsTyped' /\ NothingClosed' /\ StepsMakeSense'
  <2>1. RowsTyped'
    BY <1>5 DEF RowsTyped
  <2>2. NothingClosed'
    <3>1. ~ui => by = "boot"
      BY <1>2 DEF NothingClosed, by
    <3> QED BY <1>2, <1>4, <1>5, <1>7, <1>9, <3>1 DEF NothingClosed
  <2>3. \A s \in rest : s.op # "place"
    BY <1>1, <1>2 DEF StepsMakeSense
  <2>4. StepsMakeSense'
    <3> SUFFICES ASSUME NEW s \in Pending'
                 PROVE  /\ s.op = "arm" => s.id \in EnabledIds
                        /\ s.op = "cancel" => s.id \notin EnabledIds
                        /\ s.op \in {"cancel", "place", "drop"} => s.by = "ui"
                        /\ s.op = "drop" => s.id \notin DOMAIN db
                        /\ s.op # "place"
      BY <1>5, <1>10 DEF StepsMakeSense
    <3>1. CASE s \in arms
      BY <1>9, <1>10, <3>1
    <3>2. CASE s \in rest
      BY <1>2, <2>3, <3>2 DEF StepsMakeSense
    <3> QED BY <1>7, <3>1, <3>2
  <2> QED BY <2>1, <2>2, <2>4
<1>12. \A u \in Types : \/ by = "ui" /\ u = ty /\ list'[u] = ids
                        \/ ~(by = "ui" /\ u = ty) /\ list'[u] = list[u]
  BY <1>3, <1>4 DEF IInv, UsedIdsOnly
<1>13. /\ \A id : Drop(id) \in Pending <=> Drop(id) \in rest
       /\ \A id : Place(id) \in Pending <=> Place(id) \in rest
       /\ \A id : Cancel(id) \in Pending <=> Cancel(id) \in rest
       /\ \A id, b : Arm(id, b) \in Pending <=> Arm(id, b) \in rest
       /\ \A u \in Types : Load(u, "ui") \in Pending =>
             Load(u, "ui") \in rest \/ (by = "ui" /\ u = ty)
  BY <1>1, <1>2, StepFields DEF ty, by
<1>14. Mirrored'
  <2> SUFFICES ASSUME NEW u \in Types
               PROVE  /\ IsInjective(list'[u])
                      /\ \A id \in Range(list'[u]) :
                            id \in IdsOf(u) \/ Drop(id) \in Pending'
                      /\ ui => \/ Load(u, "ui") \in Pending'
                               \/ \A id \in IdsOf(u) :
                                     id \in Range(list'[u]) \/ Place(id) \in Pending'
    BY <1>5, <1>10 DEF Mirrored
  <2>1. CASE by = "ui" /\ u = ty
    BY <1>6, <1>12, <2>1
  <2>2. CASE ~(by = "ui" /\ u = ty)
    <3>1. list'[u] = list[u]
      BY <1>12, <2>2
    <3>2. /\ IsInjective(list[u])
          /\ \A id \in Range(list[u]) : id \in IdsOf(u) \/ Drop(id) \in Pending
          /\ ui => \/ Load(u, "ui") \in Pending
                   \/ \A id \in IdsOf(u) :
                         id \in Range(list[u]) \/ Place(id) \in Pending
      BY DEF Mirrored
    <3> QED BY <1>7, <1>13, <2>2, <3>1, <3>2
  <2> QED BY <2>1, <2>2
<1>15. OneList'
  <2>1. \A u \in Types : u # ty => IdsOf(ty) \cap Range(list[u]) = {}
    <3> SUFFICES ASSUME NEW u \in Types, u # ty,
                        NEW id \in IdsOf(ty), id \in Range(list[u])
                 PROVE  FALSE
      OBVIOUS
    <3>1. id \notin IdsOf(u) /\ id \in DOMAIN db
      BY DEF IdsOf
    <3>2. Drop(id) \in Pending
      BY <3>1 DEF Mirrored
    <3> QED BY <3>1, <3>2, StepFields DEF StepsMakeSense
  <2> SUFFICES ASSUME NEW u \in Types, NEW v \in Types, u # v
               PROVE  Range(list'[u]) \cap Range(list'[v]) = {}
    BY DEF OneList
  <2>2. Range(list[u]) \cap Range(list[v]) = {}
    BY DEF OneList
  <2> QED BY <1>6, <1>12, <2>1, <2>2
<1>16. Armed'
  <2> SUFFICES ASSUME ui, NEW id \in EnabledIds, id \notin refs,
                      Arm(id, "ui") \notin Pending', Place(id) \notin Pending'
               PROVE  Load(db[id].type, "ui") \in Pending'
    BY <1>5, <1>10 DEF Armed
  <2>1. Load(db[id].type, "ui") \in Pending
    BY <1>7, <1>13 DEF Armed
  <2>2. id \in DOMAIN db /\ saved[db[id].type] /\ db[id].type \in Types
    BY DEF EnabledIds, RowsTyped, Row
  <2>3. CASE by = "ui" /\ db[id].type = ty
    <3>1. id \in IdsOf(ty) /\ saved[ty]
      BY <2>2, <2>3 DEF IdsOf
    <3> QED BY <1>7, <1>8, <2>3, <3>1
  <2>4. CASE ~(by = "ui" /\ db[id].type = ty)
    BY <1>7, <1>13, <2>1, <2>2, <2>4
  <2> QED BY <2>3, <2>4
<1>17. Accounted'
  BY <1>5, <1>7, <1>10, <1>13 DEF Accounted
<1>18. Ordered'
  <2> SUFFICES ASSUME day = 0, NEW u \in Types,
                      NEW i \in DOMAIN list'[u], NEW j \in DOMAIN list'[u], i < j,
                      list'[u][i] \in DOMAIN db, list'[u][j] \in DOMAIN db
               PROVE  db[list'[u][i]].tod <= db[list'[u][j]].tod
    BY <1>5 DEF Ordered
  <2>1. CASE list'[u] = list[u]
    BY <2>1 DEF Ordered
  <2>2. CASE list'[u] = ids
    <3> DEFINE a == ids[i]
               b == ids[j]
    <3>1. ~Earlier(b, a)
      BY <1>4, <2>2 DEF Loaded, Orders
    <3>2. /\ db[a] \in Row /\ db[b] \in Row /\ db[a].day <= 0 /\ db[b].day <= 0
      BY <2>2 DEF RowsTyped
    <3>3. /\ db[a].tod \in Nat /\ db[b].tod \in Nat
          /\ db[a].day \in Nat /\ db[b].day \in Nat
      BY <3>2 DEF Row
    <3>4. ~(db[b].tod < db[a].tod)
      BY <3>1, <3>2, <3>3 DEF Earlier
    <3> QED BY <2>2, <3>3, <3>4
  <2> QED BY <1>12, <2>1, <2>2
<1> QED BY <1>11, <1>14, <1>15, <1>16, <1>17, <1>18

(* setAlarm: the event on screen holds the alarm it has armed. *)
LEMMA ArmStepTimers ==
    ASSUME TInv, ArmStep
    PROVE  Timers'
<1> DEFINE h == Head(todo)
           a == h.id
           rest == Range(Tail(todo))
<1>1. todo # << >> /\ h.op = "arm"
  BY DEF ArmStep, At
<1>2. h \in Pending /\ Pending = {h} \cup rest
  BY <1>1, Performed DEF TInv, IInv
<1>3. /\ Pending' = rest /\ alarms' = alarms \cup {a}
      /\ UNCHANGED <<db, saved, ui, list, day>>
  BY DEF ArmStep, Pending
<1>4. \/ h.by = "ui" /\ refs' = refs \cup {a} /\ orphans' = orphans \ {a}
      \/ h.by # "ui" /\ UNCHANGED <<refs, orphans>>
  BY DEF ArmStep
<1> HIDE DEF h, rest
<1>5. EnabledIds' = EnabledIds /\ \A ty \in Types : IdsOf(ty)' = IdsOf(ty)
  BY <1>3 DEF EnabledIds, IdsOf
<1>6. /\ \A id : Drop(id) \in Pending <=> Drop(id) \in rest
      /\ \A id : Place(id) \in Pending <=> Place(id) \in rest
      /\ \A id : Cancel(id) \in Pending <=> Cancel(id) \in rest
      /\ \A ty, b : Load(ty, b) \in Pending <=> Load(ty, b) \in rest
      /\ \A id : Arm(id, "ui") \in Pending =>
            Arm(id, "ui") \in rest \/ (id = a /\ h.by = "ui")
  BY <1>1, <1>2, StepFields
<1> USE DEF TInv, Timers
<1>7. a \in EnabledIds
  BY <1>1, <1>2 DEF StepsMakeSense
<1>8. RowsTyped' /\ OneList' /\ Ordered'
  BY <1>3 DEF RowsTyped, OneList, Ordered
<1>9. NothingClosed'
  BY <1>2, <1>3, <1>4 DEF NothingClosed
<1>10. StepsMakeSense'
  <2>1. \A s \in rest : s.op # "place"
    BY <1>1, <1>2 DEF StepsMakeSense
  <2> QED BY <1>2, <1>3, <1>5, <2>1 DEF StepsMakeSense
<1>11. Mirrored'
  BY <1>3, <1>5, <1>6 DEF Mirrored
<1>12. Armed'
  <2>1. refs' \subseteq alarms'
    BY <1>3, <1>4 DEF Armed
  <2>2. ASSUME ui, NEW id \in EnabledIds
        PROVE  \/ id \in refs' \/ Arm(id, "ui") \in rest \/ Place(id) \in rest
               \/ Load(db[id].type, "ui") \in rest
    BY <1>4, <1>6, <2>2 DEF Armed
  <2> QED BY <1>3, <1>5, <2>1, <2>2 DEF Armed
<1>13. Accounted'
  BY <1>3, <1>4, <1>5, <1>6, <1>7 DEF Accounted
<1> QED BY <1>8, <1>9, <1>10, <1>11, <1>12, <1>13

(* cancelAlarm: an event object that holds no alarm leaves what is armed. *)
LEMMA CancelStepTimers ==
    ASSUME TInv, CancelStep
    PROVE  Timers'
<1> DEFINE h == Head(todo)
           c == h.id
           rest == Range(Tail(todo))
<1>1. todo # << >> /\ h.op = "cancel"
  BY DEF CancelStep, At
<1>2. h \in Pending /\ Pending = {h} \cup rest
  BY <1>1, Performed DEF TInv, IInv
<1>3. /\ Pending' = rest
      /\ UNCHANGED <<db, saved, ui, list, day, orphans>>
  BY DEF CancelStep, Pending
<1>4. \/ c \in refs /\ alarms' = alarms \ {c} /\ refs' = refs \ {c}
      \/ c \notin refs /\ UNCHANGED <<alarms, refs>>
  BY DEF CancelStep
<1> HIDE DEF h, rest
<1>5. EnabledIds' = EnabledIds /\ \A ty \in Types : IdsOf(ty)' = IdsOf(ty)
  BY <1>3 DEF EnabledIds, IdsOf
<1>6. /\ \A id : Drop(id) \in Pending <=> Drop(id) \in rest
      /\ \A id : Place(id) \in Pending <=> Place(id) \in rest
      /\ \A id, b : Arm(id, b) \in Pending <=> Arm(id, b) \in rest
      /\ \A ty, b : Load(ty, b) \in Pending <=> Load(ty, b) \in rest
      /\ \A id : Cancel(id) \in Pending => Cancel(id) \in rest \/ id = c
  BY <1>1, <1>2, StepFields
<1> USE DEF TInv, Timers
<1>7. c \notin EnabledIds
  BY <1>1, <1>2 DEF StepsMakeSense
<1>8. RowsTyped' /\ OneList' /\ Ordered'
  BY <1>3 DEF RowsTyped, OneList, Ordered
<1>9. NothingClosed'
  BY <1>2, <1>3, <1>4 DEF NothingClosed
<1>10. StepsMakeSense'
  <2>1. \A s \in rest : s.op # "place"
    BY <1>1, <1>2 DEF StepsMakeSense
  <2> QED BY <1>2, <1>3, <1>5, <2>1 DEF StepsMakeSense
<1>11. Mirrored'
  BY <1>3, <1>5, <1>6 DEF Mirrored
<1>12. Armed'
  BY <1>3, <1>4, <1>5, <1>6, <1>7 DEF Armed
<1>13. Accounted'
  BY <1>3, <1>4, <1>5, <1>6, <1>7 DEF Accounted
<1> QED BY <1>8, <1>9, <1>10, <1>11, <1>12, <1>13

(* addEvent, once the row is committed: it is all the handler has left. *)
LEMMA PlaceStepTimers ==
    ASSUME TInv, PlaceStep
    PROVE  Timers'
<1> DEFINE h == Head(todo)
           p == h.id
           ty == db[p].type
<1>1. todo # << >> /\ h.op = "place"
  BY DEF PlaceStep, At
<1>2. h \in Pending
  BY <1>1, Performed DEF TInv, IInv
<1>3. PICK i \in Places(list[ty], p) :
         list' = [list EXCEPT ![ty] = InsertAt(list[ty], i, p)]
  BY DEF PlaceStep
<1>4. /\ todo' = IF saved[ty] THEN <<Arm(p, "ui")>> ELSE << >>
      /\ UNCHANGED <<db, saved, alarms, ui, refs, day, orphans>>
  BY DEF PlaceStep
<1> HIDE DEF h
<1>5. /\ Pending = {h} /\ h.by = "ui" /\ p \in DOMAIN db /\ ui
      /\ \A u \in Types : p \notin Range(list[u])
  <2>1. /\ Pending = {h} /\ h.by = "ui" /\ p \in DOMAIN db
        /\ \A u \in Types : p \notin Range(list[u])
    BY <1>1, <1>2 DEF TInv, Timers, StepsMakeSense
  <2>2. ui
    BY <1>2, <2>1 DEF TInv, Timers, NothingClosed
  <2> QED BY <2>1, <2>2
<1>6. Pending' = IF saved[ty] THEN {Arm(p, "ui")} ELSE {}
  BY <1>4, RangeOfFew DEF Pending
<1>7. /\ \A u, b : Load(u, b) \notin Pending
      /\ \A id, b : Arm(id, b) \notin Pending
      /\ \A id : Drop(id) \notin Pending /\ Cancel(id) \notin Pending
      /\ \A id : Place(id) \in Pending => id = p
  BY <1>1, <1>5, StepFields
<1>8. ty \in Types /\ p \in IdsOf(ty) /\ \A u \in Types : u # ty => p \notin IdsOf(u)
  BY <1>5 DEF TInv, Timers, RowsTyped, Row, IdsOf
<1> HIDE DEF p, ty
<1>9. /\ EnabledIds' = EnabledIds
      /\ \A u \in Types : IdsOf(u)' = IdsOf(u) /\ IdsOf(u) \subseteq DOMAIN db
      /\ p \in EnabledIds <=> saved[ty]
  BY <1>4, <1>5 DEF EnabledIds, IdsOf, ty
<1>10. \A u \in Types : Range(list[u]) = IdsOf(u) \ {p}
  <2> SUFFICES ASSUME NEW u \in Types PROVE Range(list[u]) = IdsOf(u) \ {p}
    OBVIOUS
  <2>1. \A id \in Range(list[u]) : id \in IdsOf(u)
    BY <1>7 DEF TInv, Timers, Mirrored
  <2>2. \A id \in IdsOf(u) : id \in Range(list[u]) \/ id = p
    BY <1>5, <1>7 DEF TInv, Timers, Mirrored
  <2> QED BY <1>5, <2>1, <2>2
<1> DEFINE r == InsertAt(list[ty], i, p)
<1>11. /\ list[ty] \in Seq(UsedIds) /\ p \in UsedIds
       /\ i \in 1 .. Len(list[ty]) + 1
       /\ \A j \in 1 .. i - 1 : db[list[ty][j]].tod <= db[p].tod
       /\ i <= Len(list[ty]) => db[p].tod < db[list[ty][i]].tod
  BY <1>3, <1>5, <1>8 DEF Places, TInv, IInv, UsedIdsOnly
<1>12. /\ Range(r) = IdsOf(ty) /\ IsInjective(r)
       /\ DOMAIN r = 1 .. Len(list[ty]) + 1
       /\ \A j \in 1 .. Len(list[ty]) + 1 :
             r[j] = IF j < i THEN list[ty][j] ELSE IF j = i THEN p ELSE list[ty][j - 1]
  <2>1. IsInjective(list[ty]) /\ p \notin Range(list[ty])
    BY <1>5, <1>8 DEF TInv, Timers, Mirrored
  <2>2. Range(r) = Range(list[ty]) \cup {p} /\ IsInjective(r)
    BY <1>11, <2>1, InsertAtKeeps
  <2>3. /\ DOMAIN r = 1 .. Len(list[ty]) + 1
        /\ \A j \in 1 .. Len(list[ty]) + 1 :
              r[j] = IF j < i THEN list[ty][j] ELSE IF j = i THEN p ELSE list[ty][j - 1]
    BY <1>11, InsertAtIs
  <2> QED BY <1>8, <1>10, <2>2, <2>3
<1> HIDE DEF r
<1>13. \A u \in Types : list'[u] = IF u = ty THEN r ELSE list[u]
  BY <1>3, <1>8 DEF r, TInv, IInv, UsedIdsOnly, ty, p
<1>14. \A u \in Types : Range(list'[u]) = IdsOf(u)
  BY <1>8, <1>10, <1>12, <1>13
<1> USE DEF TInv, Timers
<1>15. RowsTyped' /\ NothingClosed' /\ StepsMakeSense'
  <2>1. RowsTyped'
    BY <1>4 DEF RowsTyped
  <2>2. NothingClosed'
    BY <1>4, <1>5 DEF NothingClosed
  <2>3. \A s \in Pending' : s.op = "arm" /\ s.id \in EnabledIds
    BY <1>6, <1>9, StepFields
  <2>4. StepsMakeSense'
    BY <1>9, <2>3 DEF StepsMakeSense
  <2> QED BY <2>1, <2>2, <2>4
<1>16. Mirrored'
  BY <1>9, <1>12, <1>13, <1>14 DEF Mirrored
<1>17. OneList'
  <2>1. \A u, v \in Types : u # v => IdsOf(u) \cap IdsOf(v) = {}
    BY DEF IdsOf
  <2> QED BY <1>14, <2>1 DEF OneList
<1>18. Armed'
  BY <1>4, <1>6, <1>7, <1>9 DEF Armed
<1>19. Accounted'
  BY <1>4, <1>7, <1>9 DEF Accounted
<1>20. Ordered'
  <2> SUFFICES ASSUME day = 0, NEW u \in Types,
                      NEW j \in DOMAIN list'[u], NEW k \in DOMAIN list'[u], j < k
               PROVE  db[list'[u][j]].tod <= db[list'[u][k]].tod
    BY <1>4 DEF Ordered
  <2> DEFINE s == list[u]
  <2>1. /\ s \in Seq(UsedIds) /\ Len(s) \in Nat /\ DOMAIN s = 1 .. Len(s)
        /\ \A n \in 1 .. Len(s) : s[n] \in DOMAIN db
    <3>1. s \in Seq(UsedIds)
      BY DEF IInv, UsedIdsOnly
    <3>2. \A n \in DOMAIN s : s[n] \in Range(s)
      BY DEF Range
    <3> QED BY <1>9, <1>10, <3>1, <3>2
  <2>2. \A m, n \in 1 .. Len(s) : m < n => db[s[m]].tod <= db[s[n]].tod
    BY <2>1 DEF Ordered
  <2>3. CASE u # ty
    BY <1>13, <2>1, <2>2, <2>3
  <2>4. CASE u = ty
    <3>1. /\ db[p].tod \in Nat
          /\ \A n \in 1 .. Len(s) : db[s[n]].tod \in Nat
      BY <1>5, <2>1 DEF RowsTyped, Row
    <3> HIDE DEF s
    <3>2. /\ i \in 1 .. Len(s) + 1 /\ j \in 1 .. Len(s) + 1 /\ k \in 1 .. Len(s) + 1
          /\ \A n \in 1 .. i - 1 : db[s[n]].tod <= db[p].tod
          /\ i <= Len(s) => db[p].tod < db[s[i]].tod
          /\ \A n \in 1 .. Len(s) + 1 :
                r[n] = IF n < i THEN s[n] ELSE IF n = i THEN p ELSE s[n - 1]
      BY <1>11, <1>12, <1>13, <2>4 DEF s
    <3>3. \A n \in i .. Len(s) : db[p].tod < db[s[n]].tod
      <4> SUFFICES ASSUME NEW n \in i .. Len(s) PROVE db[p].tod < db[s[n]].tod
        OBVIOUS
      <4>1. i \in 1 .. Len(s) /\ n \in 1 .. Len(s) /\ db[p].tod < db[s[i]].tod
        BY <2>1, <3>2
      <4>2. db[s[i]].tod <= db[s[n]].tod
        BY <2>1, <2>2, <3>1, <4>1
      <4> QED BY <3>1, <4>1, <4>2
    <3>4. CASE k < i
      BY <1>13, <2>1, <2>2, <2>4, <3>2, <3>4
    <3>5. CASE k = i
      <4>1. r[k] = p /\ r[j] = s[j] /\ j \in 1 .. i - 1
        BY <2>1, <3>2, <3>5
      <4> QED BY <1>13, <2>4, <3>2, <4>1
    <3>6. CASE i < k
      <4>1. k - 1 \in i .. Len(s) /\ k - 1 \in 1 .. Len(s) /\ r[k] = s[k - 1]
        BY <2>1, <3>2, <3>6
      <4>2. CASE j < i
        <5>1. r[j] = s[j] /\ j \in 1 .. Len(s) /\ j < k - 1
          BY <2>1, <3>2, <3>6, <4>2
        <5> QED BY <1>13, <2>2, <2>4, <4>1, <5>1
      <4>3. CASE j = i
        <5>1. r[j] = p /\ db[p].tod < db[s[k - 1]].tod
          BY <3>2, <3>3, <4>1, <4>3
        <5> QED BY <1>13, <2>4, <3>1, <4>1, <5>1
      <4>4. CASE i < j
        <5>1. r[j] = s[j - 1] /\ j - 1 \in 1 .. Len(s) /\ j - 1 < k - 1
          BY <2>1, <3>2, <4>4
        <5> QED BY <1>13, <2>2, <2>4, <4>1, <5>1
      <4> QED BY <3>2, <4>2, <4>3, <4>4
    <3> QED BY <3>2, <3>4, <3>5, <3>6
  <2> QED BY <2>3, <2>4
<1> QED BY <1>15, <1>16, <1>17, <1>18, <1>19, <1>20

(* mEvents.remove: only the entry of the row that is gone leaves its list. *)
LEMMA DropStepTimers ==
    ASSUME TInv, DropStep
    PROVE  Timers'
<1> DEFINE h == Head(todo)
           d == h.id
           rest == Range(Tail(todo))
<1>1. todo # << >> /\ h.op = "drop"
  BY DEF DropStep, At
<1>2. h \in Pending /\ Pending = {h} \cup rest
  BY <1>1, Performed DEF TInv, IInv
<1>3. /\ Pending' = rest
      /\ UNCHANGED <<db, saved, alarms, ui, refs, day, orphans>>
  BY DEF DropStep, Pending
<1>4. PICK ty \in Types : \E i \in DOMAIN list[ty] :
         /\ list[ty][i] = d
         /\ list' = [list EXCEPT ![ty] = RemoveAt(list[ty], i)]
  BY DEF DropStep
<1>5. PICK i \in DOMAIN list[ty] :
         /\ list[ty][i] = d
         /\ list' = [list EXCEPT ![ty] = RemoveAt(list[ty], i)]
  BY <1>4
<1> HIDE DEF h, rest, d
<1>6. EnabledIds' = EnabledIds /\ \A u \in Types : IdsOf(u)' = IdsOf(u)
  BY <1>3 DEF EnabledIds, IdsOf
<1>7. /\ \A id : Cancel(id) \in Pending <=> Cancel(id) \in rest
      /\ \A id : Place(id) \in Pending <=> Place(id) \in rest
      /\ \A id, b : Arm(id, b) \in Pending <=> Arm(id, b) \in rest
      /\ \A u, b : Load(u, b) \in Pending <=> Load(u, b) \in rest
      /\ \A id : Drop(id) \in Pending => Drop(id) \in rest \/ id = d
  BY <1>1, <1>2, StepFields DEF d
<1> DEFINE s == list[ty]
           r == RemoveAt(list[ty], i)
<1>8. s \in Seq(UsedIds) /\ Len(s) \in Nat /\ DOMAIN s = 1 .. Len(s) /\ i \in 1 .. Len(s)
  <2>1. s \in Seq(UsedIds)
    BY DEF TInv, IInv, UsedIdsOnly
  <2> QED BY <1>5, <2>1
<1>9. /\ Range(r) = Range(s) \ {d} /\ IsInjective(r)
      /\ DOMAIN r = 1 .. Len(s) - 1
      /\ \A j \in 1 .. Len(s) - 1 : r[j] = IF j < i THEN s[j] ELSE s[j + 1]
  <2>1. IsInjective(s)
    BY DEF TInv, Timers, Mirrored
  <2>2. Range(r) = Range(s) \ {s[i]} /\ IsInjective(r)
    BY <1>8, <2>1, RemoveAtKeeps
  <2>3. /\ DOMAIN r = 1 .. Len(s) - 1
        /\ \A j \in 1 .. Len(s) - 1 : r[j] = IF j < i THEN s[j] ELSE s[j + 1]
    BY <1>8, RemoveAtIs
  <2> QED BY <1>5, <2>2, <2>3
<1>10. \A u \in Types : list'[u] = IF u = ty THEN r ELSE list[u]
  BY <1>5 DEF TInv, IInv, UsedIdsOnly
<1>11. d \in Range(s)
  BY <1>5 DEF Range
<1> HIDE DEF r, s
<1> USE DEF TInv, Timers
<1>12. d \notin DOMAIN db /\ \A u \in Types : d \notin IdsOf(u)
  BY <1>1, <1>2 DEF StepsMakeSense, IdsOf, d
<1>13. \A u \in Types : Range(list'[u]) = Range(list[u]) \ {d}
  <2> SUFFICES ASSUME NEW u \in Types PROVE Range(list'[u]) = Range(list[u]) \ {d}
    OBVIOUS
  <2>1. CASE u = ty
    BY <1>9, <1>10, <2>1 DEF s
  <2>2. CASE u # ty
    BY <1>10, <1>11, <2>2 DEF OneList, s
  <2> QED BY <2>1, <2>2
<1>14. RowsTyped' /\ NothingClosed' /\ StepsMakeSense'
  <2>1. h.by = "ui" /\ ui
    BY <1>1, <1>2 DEF StepsMakeSense, NothingClosed
  <2>2. \A x \in rest : x.op # "place"
    BY <1>1, <1>2 DEF StepsMakeSense
  <2>3. RowsTyped' /\ NothingClosed'
    BY <1>3, <2>1 DEF RowsTyped, NothingClosed
  <2>4. StepsMakeSense'
    BY <1>2, <1>3, <1>6, <2>2 DEF StepsMakeSense
  <2> QED BY <2>3, <2>4
<1>15. Mirrored'
  <2> SUFFICES ASSUME NEW u \in Types
               PROVE  /\ IsInjective(list'[u])
                      /\ \A id \in Range(list'[u]) :
                            id \in IdsOf(u) \/ Drop(id) \in rest
                      /\ ui => \/ Load(u, "ui") \in rest
                               \/ \A id \in IdsOf(u) :
                                     id \in Range(list'[u]) \/ Place(id) \in rest
    BY <1>3, <1>6 DEF Mirrored
  <2>1. IsInjective(list'[u])
    BY <1>9, <1>10 DEF Mirrored
  <2>2. \A id \in Range(list'[u]) : id \in IdsOf(u) \/ Drop(id) \in rest
    BY <1>7, <1>13 DEF Mirrored
  <2>3. ui => \/ Load(u, "ui") \in Pending
              \/ \A id \in IdsOf(u) : id \in Range(list[u]) \/ Place(id) \in Pending
    BY DEF Mirrored
  <2> QED BY <1>7, <1>12, <1>13, <2>1, <2>2, <2>3
<1>16. OneList'
  BY <1>13 DEF OneList
<1>17. Armed' /\ Accounted'
  BY <1>3, <1>6, <1>7 DEF Armed, Accounted
<1>18. Ordered'
  <2> SUFFICES ASSUME day = 0, NEW u \in Types,
                      NEW j \in DOMAIN list'[u], NEW k \in DOMAIN list'[u], j < k,
                      list'[u][j] \in DOMAIN db, list'[u][k] \in DOMAIN db
               PROVE  db[list'[u][j]].tod <= db[list'[u][k]].tod
    BY <1>3 DEF Ordered
  <2>1. CASE u # ty
    BY <1>10, <2>1 DEF Ordered
  <2>2. CASE u = ty
    <3>1. PICK m \in 1 .. Len(s) : r[j] = s[m] /\ m = IF j < i THEN j ELSE j + 1
      BY <1>8, <1>9, <1>10, <2>2
    <3>2. PICK n \in 1 .. Len(s) : r[k] = s[n] /\ n = IF k < i THEN k ELSE k + 1
      BY <1>8, <1>9, <1>10, <2>2, SMTT(20)
    <3>3. m < n
      BY <1>8, <1>9, <1>10, <2>2, <3>1, <3>2
    <3> QED BY <1>8, <1>10, <2>2, <3>1, <3>2, <3>3, SMTT(20) DEF Ordered, s
  <2> QED BY <2>1, <2>2
<1> QED BY <1>14, <1>15, <1>16, <1>17, <1>18

-----------------------------------------------------------------------------
(* Every step of the system keeps the invariant. *)
LEMMA NextTimers == TInv /\ [Next]_vars => TInv'
<1> SUFFICES ASSUME TInv, [Next]_vars PROVE TInv'
  OBVIOUS
<1>1. IInv'
  BY NextInv DEF TInv
<1>2. CASE UserStep
  <2>1. Timers'
    BY <1>2, OpenCloseBootTimers, AddEventTimers, DeleteEventTimers,
       ToggleAlarmsTimers DEF UserStep
  <2> QED BY <1>1, <2>1 DEF TInv
<1>3. CASE BootCompleted
  BY <1>1, <1>3, OpenCloseBootTimers DEF TInv
<1>4. CASE HandlerStep
  <2>1. Timers'
    BY <1>4, LoadStepTimers, ArmStepTimers, CancelStepTimers, PlaceStepTimers,
       DropStepTimers DEF HandlerStep
  <2> QED BY <1>1, <2>1 DEF TInv
<1>5. CASE Kill \/ Reboot
  BY <1>1, <1>5, KillOrRebootTimers DEF TInv
<1>6. ASSUME \/ \E m \in inflight : Receive(m)
             \/ \E id \in alarms : Fire(id)
             \/ \E id \in DOMAIN intents : Collect(id)
             \/ NextDay
             \/ UNCHANGED vars
      PROVE  TInv'
  <2>1. /\ UNCHANGED <<db, saved, alarms, ui, list, refs, todo, orphans>>
        /\ day' = day \/ day' = day + 1
    BY <1>6 DEF Receive, Fire, Collect, NextDay, vars
  <2> QED BY <1>1, <2>1, OutsideTimers DEF TInv
<1> QED BY <1>2, <1>3, <1>4, <1>5, <1>6 DEF Next, Environment

(* The invariant holds in every reachable state. *)
LEMMA TimersAlways == Spec => []TInv
<1>1. Init => TInv
  BY InitInv, InitTimers DEF TInv
<1> QED BY <1>1, NextTimers, PTL DEF Spec

-----------------------------------------------------------------------------
(* What the theorem of types needs besides: the bound on the ids, and that an *)
(* intent and a broadcast have the type of an event, gone or not.              *)
Remaining ==
    /\ nextId <= MaxEvents + 1
    /\ orphans \subseteq UsedIds
    /\ booting \in BOOLEAN /\ faults \in Nat
    /\ \A id \in DOMAIN intents : intents[id].type \in Types
    /\ \A m \in inflight : m.extras.type \in Types
    /\ command.service \in {"none", "PowerService", "LightService"}

(* Every step keeps the rest of what the types need. *)
LEMMA NextRemaining ==
    ASSUME TInv, Remaining, [Next]_vars
    PROVE  Remaining'
<1> USE EventsAssumption
<1>1. nextId \in Nat /\ nextId <= MaxEvents + 1
  BY DEF TInv, IInv, UsedIdsOnly, Remaining
<1>2. ASSUME UNCHANGED <<intents, inflight, command>>,
             UNCHANGED orphans \/ (orphans' \subseteq orphans \cup (CutOff \cap alarms)),
             nextId' = nextId,
             booting' \in BOOLEAN, faults' \in Nat
      PROVE  Remaining'
  <2>1. alarms \subseteq UsedIds /\ UsedIds' = UsedIds
    BY <1>2 DEF TInv, IInv, AlarmsHaveIntents, UsedIdsOnly, UsedIds
  <2> QED BY <1>2, <2>1 DEF Remaining
<1>3. ASSUME NEW t \in Templates, AddEvent(t)
      PROVE  Remaining'
  <2>1. /\ nextId' = nextId + 1 /\ nextId \in 1 .. MaxEvents
        /\ UNCHANGED <<intents, inflight, command, orphans, booting, faults>>
    BY <1>3 DEF AddEvent, NewId, Ids
  <2>2. nextId' <= MaxEvents + 1 /\ UsedIds \subseteq UsedIds'
    BY <1>1, <2>1 DEF UsedIds
  <2> QED BY <2>1, <2>2 DEF Remaining
<1>4. ASSUME \/ \E id \in DOMAIN db : DeleteEvent(id)
             \/ \E ty \in Types : ToggleAlarms(ty)
             \/ OpenApp \/ CloseApp \/ BootCompleted
             \/ LoadStep \/ CancelStep \/ PlaceStep \/ DropStep
             \/ NextDay \/ UNCHANGED vars
      PROVE  Remaining'
  <2>1. /\ UNCHANGED <<intents, inflight, command, orphans, nextId, faults>>
        /\ booting' \in BOOLEAN
    BY <1>4 DEF DeleteEvent, ToggleAlarms, OpenApp, CloseApp, BootCompleted, LoadStep,
                CancelStep, PlaceStep, DropStep, NextDay, vars, Remaining
  <2> QED BY <1>2, <2>1 DEF Remaining
<1>5. ASSUME Kill
      PROVE  Remaining'
  BY <1>2, <1>5 DEF Kill, ProcessEnds, Remaining
<1>6. ASSUME Reboot
      PROVE  Remaining'
  BY <1>6 DEF Reboot, ProcessEnds, Remaining
<1>7. ASSUME ArmStep
      PROVE  Remaining'
  <2> DEFINE a == Head(todo).id
  <2>1. Head(todo) \in Pending /\ Head(todo).op = "arm"
    BY <1>7, Performed DEF ArmStep, At, TInv, IInv
  <2>2. a \in DOMAIN db /\ db[a].type \in Types
    BY <2>1 DEF TInv, Timers, StepsMakeSense, EnabledIds, RowsTyped, Row
  <2>3. Extras(db[a]).type \in Types
    BY <2>2 DEF Extras
  <2>4. \A id \in DOMAIN intents' : intents'[id].type \in Types
    BY <1>7, <2>3 DEF ArmStep, Remaining
  <2>5. /\ UNCHANGED <<nextId, inflight, command, booting, faults>>
        /\ orphans' \subseteq orphans /\ UsedIds' = UsedIds
    BY <1>7 DEF ArmStep, UsedIds
  <2> QED BY <2>4, <2>5 DEF Remaining
<1>8. ASSUME NEW m \in inflight, Receive(m)
      PROVE  Remaining'
  <2>1. m.extras.type \in Types
    BY DEF Remaining
  <2>2. command'.service \in {"none", "PowerService", "LightService"}
    <3>1. Service(m.extras) \in {"PowerService", "LightService"}
      BY <2>1 DEF Service, Types
    <3>2. command'.service = Service(m.extras)
      BY <1>8 DEF Receive
    <3> QED BY <3>1, <3>2
  <2>3. /\ inflight' \subseteq inflight /\ UsedIds' = UsedIds
        /\ UNCHANGED <<nextId, intents, booting, faults, orphans>>
    BY <1>8 DEF Receive, UsedIds
  <2> QED BY <2>2, <2>3 DEF Remaining
<1>9. ASSUME NEW id \in alarms, Fire(id)
      PROVE  Remaining'
  <2> DEFINE sent == [id |-> id, extras |-> intents[id]]
  <2>1. sent.extras.type \in Types
    BY DEF TInv, IInv, AlarmsHaveIntents, Remaining
  <2>2. /\ inflight' = inflight \cup {sent} /\ UsedIds' = UsedIds
        /\ UNCHANGED <<nextId, intents, command, booting, faults, orphans>>
    BY <1>9 DEF Fire, UsedIds
  <2> HIDE DEF sent
  <2> QED BY <2>1, <2>2 DEF Remaining
<1>10. ASSUME NEW id \in DOMAIN intents, Collect(id)
       PROVE  Remaining'
  <2>1. \A i \in DOMAIN intents' : i \in DOMAIN intents /\ intents'[i] = intents[i]
    BY <1>10 DEF Collect, Restrict
  <2>2. /\ UNCHANGED <<nextId, inflight, command, booting, faults, orphans>>
        /\ UsedIds' = UsedIds
    BY <1>10 DEF Collect, UsedIds
  <2> QED BY <2>1, <2>2 DEF Remaining
<1> QED BY <1>3, <1>4, <1>5, <1>6, <1>7, <1>8, <1>9, <1>10
        DEF Next, UserStep, HandlerStep, Environment

-----------------------------------------------------------------------------
(* Every variable has its type, for any bound on the events ever inserted.     *)
THEOREM TypesHold == Spec => []TypeOK
<1>1. Init => Remaining
  <2> SUFFICES ASSUME Init PROVE Remaining
    OBVIOUS
  <2>1. nextId <= MaxEvents + 1
    BY EventsAssumption DEF Init
  <2>2. /\ DOMAIN intents = {} /\ inflight = {} /\ orphans = {}
        /\ booting = FALSE /\ faults = 0 /\ command.service = "none"
    BY DEF Init, NoCommand
  <2> QED BY <2>1, <2>2 DEF Remaining
<1>2. Spec => [](TInv /\ Remaining)
  <2>1. Init => TInv
    BY InitInv, InitTimers DEF TInv
  <2> QED BY <1>1, <2>1, NextTimers, NextRemaining, PTL DEF Spec
<1>3. TInv /\ Remaining => TypeOK
  <2> SUFFICES ASSUME TInv, Remaining PROVE TypeOK
    OBVIOUS
  <2>1. UsedIds \subseteq Ids
    BY EventsAssumption DEF UsedIds, Ids, Remaining, TInv, IInv, UsedIdsOnly
  <2>2. \A ty \in Types : list[ty] \in Seq(Ids)
    BY <2>1, SeqWidens DEF TInv, IInv, UsedIdsOnly
  <2>3. todo \in Seq(Step)
    <3>1. StepOn(UsedIds) \subseteq Step
      BY <2>1 DEF StepOn, Step
    <3> QED BY <3>1, SeqWidens DEF TInv, IInv, UsedIdsOnly
  <2>4. refs \subseteq alarms /\ alarms \subseteq DOMAIN intents
    BY DEF TInv, Timers, Armed, IInv, AlarmsHaveIntents
  <2>5. /\ DOMAIN db \subseteq UsedIds /\ DOMAIN intents \subseteq UsedIds
        /\ nextId \in Nat
    BY DEF TInv, IInv, UsedIdsOnly
  <2>6. /\ \A id \in DOMAIN db : db[id] \in Row
        /\ saved \in [Types -> BOOLEAN] /\ day \in Nat /\ ui \in BOOLEAN
    BY DEF TInv, Timers, RowsTyped, NothingClosed
  <2> QED BY <2>1, <2>2, <2>3, <2>4, <2>5, <2>6 DEF TypeOK, Remaining
<1> QED BY <1>2, <1>3, PTL

(* With the activity open and no handler running, every event of an enabled    *)
(* system has its alarm, whatever kills and reboots came before.               *)
THEOREM NoneMissed == Spec => []NoMissedTimer
<1>1. TInv => NoMissedTimer
  <2> SUFFICES ASSUME TInv, ui, Idle PROVE EnabledIds \subseteq alarms
    BY DEF NoMissedTimer
  <2>1. EnabledIds \subseteq refs
    BY WhenIdle
  <2> QED BY <2>1 DEF TInv, Timers, Armed
<1> QED BY <1>1, TimersAlways, PTL

(* Between handlers, an alarm of an event that is deleted or switched off is    *)
(* one whose cancelAlarm a kill has cut off.                                   *)
THEOREM NoGhosts == Spec => []NoGhostTimer
<1>1. TInv => NoGhostTimer
  BY WhenIdle DEF NoGhostTimer
<1> QED BY <1>1, TimersAlways, PTL

(* The event objects on screen hold the alarms of their events, also those a    *)
(* BootLoader armed: they can be cancelled from the screen.                    *)
THEOREM CancelIsPossible == Spec => []CancelReaches
<1>1. TInv => CancelReaches
  <2> SUFFICES ASSUME TInv, ui, Idle, NEW id \in alarms, id \notin orphans
               PROVE  id \in refs
    BY DEF CancelReaches
  <2>1. id \in EnabledIds /\ EnabledIds \subseteq refs
    BY WhenIdle
  <2> QED BY <2>1
<1> QED BY <1>1, TimersAlways, PTL

(* A manager's mEvents holds exactly the rows of its type, each once.           *)
THEOREM ListsMatch == Spec => []ListMatchesTable
<1>1. TInv => ListMatchesTable
  <2> SUFFICES ASSUME TInv, ui, Idle, NEW ty \in Types
               PROVE  /\ Range(list[ty]) = IdsOf(ty)
                      /\ Len(list[ty]) = Cardinality(IdsOf(ty))
    BY DEF ListMatchesTable
  <2>1. Range(list[ty]) = IdsOf(ty)
    BY WhenIdle
  <2>2. list[ty] \in Seq(UsedIds) /\ IsInjective(list[ty])
    BY DEF TInv, Timers, Mirrored, IInv, UsedIdsOnly
  <2> QED BY <2>1, <2>2, LengthIsCardinality
<1> QED BY <1>1, TimersAlways, PTL

(* On one day, the order in which addEvent keeps a list and the order in which  *)
(* a query returns it are the same: by time of day.                            *)
THEOREM ListsSorted == Spec => []SortedWithinOneDay
<1>1. TInv => SortedWithinOneDay
  <2> SUFFICES ASSUME TInv, day = 0, ui, Idle, NEW ty \in Types,
                      NEW i \in DOMAIN list[ty], NEW j \in DOMAIN list[ty], i < j
               PROVE  db[list[ty][i]].tod <= db[list[ty][j]].tod
    BY DEF SortedWithinOneDay
  <2>1. Range(list[ty]) = IdsOf(ty)
    BY WhenIdle
  <2>2. list[ty][i] \in DOMAIN db /\ list[ty][j] \in DOMAIN db
    BY <2>1 DEF Range, IdsOf
  <2> QED BY <2>2 DEF TInv, Timers, Ordered
<1> QED BY <1>1, TimersAlways, PTL

=============================================================================
