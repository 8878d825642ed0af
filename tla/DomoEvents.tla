----------------------------- MODULE DomoEvents -----------------------------
(***************************************************************************)
(* The timers of the power and the light system: the events table           *)
(* (EventDbHelper), the two event managers that mirror it in memory and arm  *)
(* one repeating alarm per event (DomoEvent), the activity and the boot      *)
(* receiver that create them, and the receiver of the alarms (PowerAlarm).   *)
(*                                                                           *)
(* The main thread runs one handler at a time.  A handler is the sequence    *)
(* todo of its remaining durable steps, because the process may be killed    *)
(* between any two of them: the database, the preferences and what           *)
(* AlarmManager holds survive the process, the managers do not; a reboot     *)
(* also empties AlarmManager.                                                *)
(***************************************************************************)
EXTENDS Integers, SequencesExt

CONSTANTS
    Templates,  \* the events a user may add: records [type, tod, action, socket]
    MaxEvents,  \* bound on the events ever inserted
    MaxDays,    \* bound on the days that pass
    MaxFaults   \* bound on the process kills and reboots

Types == {"power", "light"}

Ids == 1 .. MaxEvents

ASSUME EventsAssumption ==
    /\ MaxEvents \in Nat
    /\ MaxDays \in Nat
    /\ MaxFaults \in Nat
    /\ Templates \subseteq [type : Types, tod : Nat, action : BOOLEAN, socket : Nat]

VARIABLES
    db,         \* the events table: id -> row
    nextId,     \* its AUTOINCREMENT counter
    saved,      \* saved[ty] : mAlarmsEnabled, in memory and in the preferences
    alarms,     \* AlarmManager: the request codes (ids) with a repeating alarm
    intents,    \* the PendingIntents alive in the system: id -> extras
    inflight,   \* alarm broadcasts sent and not yet received
    command,    \* the last service command PowerAlarm issued
    ui,         \* an activity, and with it the systems' managers, exists
    list,       \* list[ty] : the ids in the manager's mEvents, in order
    refs,       \* the events of those lists whose mAlarmManager is set
    todo,       \* the remaining steps of the handler the main thread runs
    booting,    \* BOOT_COMPLETED has not been delivered yet
    day,        \* days gone by
    faults,     \* kills and reboots so far
    orphans     \* auxiliary: ids whose cancelAlarm a kill has prevented

vars == <<db, nextId, saved, alarms, intents, inflight, command, ui, list,
          refs, todo, booting, day, faults, orphans>>

----------------------------------------------------------------------------
Row == [type : Types, tod : Nat, action : BOOLEAN, socket : Nat, day : Nat]

\* setAlarm's extras: ALARM_TYPE, ALARM_ACTION and, for power, ALARM_SOCKET.
Extras(row) == [type |-> row.type, action |-> row.action, socket |-> row.socket]

\* PowerAlarm.onReceive starts the service of the type with the same extras.
Service(extras) ==
    CASE extras.type = "power" -> "PowerService"
      [] extras.type = "light" -> "LightService"

NoCommand == [id |-> 0, service |-> "none", action |-> FALSE, socket |-> 0]

(* The steps of a handler.  by tells whose event objects they touch. *)
Load(ty, by) == [op |-> "load", type |-> ty, by |-> by]
Arm(id, by)  == [op |-> "arm", id |-> id, by |-> by]
Cancel(id)   == [op |-> "cancel", id |-> id, by |-> "ui"]
Place(id)    == [op |-> "place", id |-> id, by |-> "ui"]
Drop(id)     == [op |-> "drop", id |-> id, by |-> "ui"]

Idle == todo = << >>

\* Mutants: without AUTOINCREMENT, the largest id present plus one; and a
\* counter that starts one too low.
NewIdReused == 1 + Max(DOMAIN db \cup {0})

NewIdTooLow == nextId - 1

\* INTEGER PRIMARY KEY AUTOINCREMENT: no id is ever used again.
NewId == nextId

\* Mutant: deleteEvent forgets the alarm.
DeleteStepsNoCancel(id) == <<Drop(id)>>

\* deleteEvent after its row is gone: cancelAlarm, then mEvents.remove.
DeleteSteps(id) == <<Cancel(id), Drop(id)>>

\* Mutants: a constructor that arms nothing, one that arms through events it
\* does not keep, and one whose loop stops an event early.
ConstructStepsNone(ids, ty, by) == << >>

ConstructStepsForeign(ids, ty, by) ==
    IF saved[ty] THEN [i \in DOMAIN ids |-> Arm(ids[i], "boot")] ELSE << >>

ConstructStepsShort(ids, ty, by) ==
    IF saved[ty] THEN [i \in 1 .. Len(ids) - 1 |-> Arm(ids[i], by)] ELSE << >>

\* A manager's constructor after its query: enableAlarms if enabled.
ConstructSteps(ids, ty, by) ==
    IF saved[ty] THEN [i \in DOMAIN ids |-> Arm(ids[i], by)] ELSE << >>

IdsOf(ty) == {id \in DOMAIN db : db[id].type = ty}

\* timemillis, the absolute time of the first firing.
Earlier(a, b) ==
    db[a].day < db[b].day \/ (db[a].day = db[b].day /\ db[a].tod < db[b].tod)

\* The results of a query for some rows ordered by timemillis; ties are free.
Orders(ids) ==
    {s \in [1 .. Cardinality(ids) -> ids] :
        \A i, j \in DOMAIN s : i < j => s[i] # s[j] /\ ~Earlier(s[j], s[i])}

\* Mutant: the query forgets the event type.
LoadedAll(ty) == Orders(DOMAIN db)

\* getPowerEvents, getLightEvents: the rows of the type.
Loaded(ty) == Orders(IdsOf(ty))

\* Mutant: addEvent appends.
PlacesLast(s, id) == {Len(s) + 1}

\* addEvent puts the event before the first one later in the day (getTime).
Places(s, id) ==
    {i \in 1 .. Len(s) + 1 :
        /\ \A j \in 1 .. i - 1 : db[s[j]].tod <= db[id].tod
        /\ i <= Len(s) => db[id].tod < db[s[i]].tod}

Init ==
    /\ db = << >>
    /\ nextId = 1
    /\ saved = [ty \in Types |-> FALSE]
    /\ alarms = {}
    /\ intents = << >>
    /\ inflight = {}
    /\ command = NoCommand
    /\ ui = FALSE
    /\ list = [ty \in Types |-> << >>]
    /\ refs = {}
    /\ todo = << >>
    /\ booting = FALSE
    /\ day = 0
    /\ faults = 0
    /\ orphans = {}

----------------------------------------------------------------------------
(* Handlers of the main thread: each performs its first durable step. *)

\* initSystems: new systems with new managers; their constructors load and arm.
OpenApp ==
    /\ Idle /\ ~ui
    /\ ui' = TRUE
    /\ todo' = <<Load("power", "ui"), Load("light", "ui")>>
    /\ UNCHANGED <<db, nextId, saved, alarms, intents, inflight, command, list,
                   refs, booting, day, faults, orphans>>

\* The activity is destroyed; the managers and their events are garbage.
CloseApp ==
    /\ Idle /\ ui
    /\ ui' = FALSE
    /\ list' = [ty \in Types |-> << >>]
    /\ refs' = {}
    /\ UNCHANGED <<db, nextId, saved, alarms, intents, inflight, command, todo,
                   booting, day, faults, orphans>>

\* BootLoader.onReceive: managers nobody keeps, which load and arm.
BootCompleted ==
    /\ Idle /\ booting
    /\ booting' = FALSE
    /\ todo' = <<Load("power", "boot"), Load("light", "boot")>>
    /\ UNCHANGED <<db, nextId, saved, alarms, intents, inflight, command, ui,
                   list, refs, day, faults, orphans>>

\* addEvent: insertEvent commits the row, the rest follows.
AddEvent(t) ==
    /\ Idle /\ ui
    /\ nextId \in Ids
    /\ db' = [id \in DOMAIN db \cup {NewId} |->
                 IF id = NewId
                 THEN [type |-> t.type, tod |-> t.tod, action |-> t.action,
                       socket |-> t.socket, day |-> day]
                 ELSE db[id]]
    /\ nextId' = NewId + 1
    /\ todo' = <<Place(NewId)>>
    /\ UNCHANGED <<saved, alarms, intents, inflight, command, ui, list, refs,
                   booting, day, faults, orphans>>

\* deleteEvent: the row goes first, then the alarm, then the list entry.
DeleteEvent(id) ==
    /\ Idle /\ ui
    /\ \E ty \in Types : id \in Range(list[ty])
    /\ db' = Restrict(db, DOMAIN db \ {id})
    /\ todo' = DeleteSteps(id)
    /\ UNCHANGED <<nextId, saved, alarms, intents, inflight, command, ui, list,
                   refs, booting, day, faults, orphans>>

\* alarmsEnabledListener: exportSettings commits the switch, then enableAlarms.
ToggleAlarms(ty) ==
    /\ Idle /\ ui
    /\ saved' = [saved EXCEPT ![ty] = ~saved[ty]]
    /\ todo' = [i \in DOMAIN list[ty] |->
                   IF saved[ty] THEN Cancel(list[ty][i]) ELSE Arm(list[ty][i], "ui")]
    /\ UNCHANGED <<db, nextId, alarms, intents, inflight, command, ui, list,
                   refs, booting, day, faults, orphans>>

\* PowerAlarm.onReceive, in a process started for it if need be.
Receive(m) ==
    /\ Idle
    /\ m \in inflight
    /\ inflight' = inflight \ {m}
    /\ command' = [id |-> m.id, service |-> Service(m.extras),
                   action |-> m.extras.action, socket |-> m.extras.socket]
    /\ UNCHANGED <<db, nextId, saved, alarms, intents, ui, list, refs, todo,
                   booting, day, faults, orphans>>

----------------------------------------------------------------------------
(* The remaining steps of a handler *)

At(op) == todo # << >> /\ Head(todo).op = op

\* A manager's constructor: read the table; arm everything if enabled.
LoadStep ==
    /\ At("load")
    /\ LET ty == Head(todo).type
           by == Head(todo).by
       IN  \E ids \in Loaded(ty) :
             /\ list' = IF by = "ui" THEN [list EXCEPT ![ty] = ids] ELSE list
             /\ todo' = ConstructSteps(ids, ty, by) \o Tail(todo)
    /\ UNCHANGED <<db, nextId, saved, alarms, intents, inflight, command, ui,
                   refs, booting, day, faults, orphans>>

\* setAlarm: an equal PendingIntent that is still alive keeps its extras.  Its
\* call of cancelAlarm finds nothing: no event object is armed twice in a row.
ArmStep ==
    /\ At("arm")
    /\ LET id == Head(todo).id
       IN  /\ alarms' = alarms \cup {id}
           /\ intents' = [i \in DOMAIN intents \cup {id} |->
                             IF i \in DOMAIN intents THEN intents[i]
                             ELSE Extras(db[id])]
           /\ IF Head(todo).by = "ui"
              THEN refs' = refs \cup {id} /\ orphans' = orphans \ {id}
              ELSE UNCHANGED <<refs, orphans>>
    /\ todo' = Tail(todo)
    /\ UNCHANGED <<db, nextId, saved, inflight, command, ui, list, booting, day,
                   faults>>

\* cancelAlarm does nothing for an event object that armed no alarm itself.
CancelStep ==
    /\ At("cancel")
    /\ LET id == Head(todo).id
       IN  IF id \in refs
           THEN /\ alarms' = alarms \ {id}
                /\ refs' = refs \ {id}
           ELSE UNCHANGED <<alarms, refs>>
    /\ todo' = Tail(todo)
    /\ UNCHANGED <<db, nextId, saved, intents, inflight, command, ui, list,
                   booting, day, faults, orphans>>

PlaceStep ==
    /\ At("place")
    /\ LET id == Head(todo).id
           ty == db[id].type
       IN  /\ \E i \in Places(list[ty], id) :
                 list' = [list EXCEPT ![ty] = InsertAt(list[ty], i, id)]
           /\ todo' = IF saved[ty] THEN <<Arm(id, "ui")>> ELSE << >>
    /\ UNCHANGED <<db, nextId, saved, alarms, intents, inflight, command, ui,
                   refs, booting, day, faults, orphans>>

\* mEvents.remove at the first index whose event has the id.
DropStep ==
    /\ At("drop")
    /\ \E ty \in Types : \E i \in DOMAIN list[ty] :
          /\ list[ty][i] = Head(todo).id
          /\ \A j \in 1 .. i - 1 : list[ty][j] # Head(todo).id
          /\ list' = [list EXCEPT ![ty] = RemoveAt(list[ty], i)]
    /\ todo' = Tail(todo)
    /\ UNCHANGED <<db, nextId, saved, alarms, intents, inflight, command, ui,
                   refs, booting, day, faults, orphans>>

HandlerStep == LoadStep \/ ArmStep \/ CancelStep \/ PlaceStep \/ DropStep

----------------------------------------------------------------------------
(* The system around the application *)

\* AlarmManager sends the intent of an armed alarm, once a day.
Fire(id) ==
    /\ id \in alarms
    /\ inflight' = inflight \cup {[id |-> id, extras |-> intents[id]]}
    /\ UNCHANGED <<db, nextId, saved, alarms, intents, command, ui, list, refs,
                   todo, booting, day, faults, orphans>>

\* A PendingIntent neither armed nor held by an event object is collected.
Collect(id) ==
    /\ id \in DOMAIN intents
    /\ id \notin alarms
    /\ \A ty \in Types : id \notin Range(list[ty])
    /\ intents' = Restrict(intents, DOMAIN intents \ {id})
    /\ UNCHANGED <<db, nextId, saved, alarms, inflight, command, ui, list, refs,
                   todo, booting, day, faults, orphans>>

NextDay ==
    /\ day < MaxDays
    /\ day' = day + 1
    /\ UNCHANGED <<db, nextId, saved, alarms, intents, inflight, command, ui,
                   list, refs, todo, booting, faults, orphans>>

CutOff == {todo[i].id : i \in {j \in DOMAIN todo : todo[j].op = "cancel"}}

ProcessEnds ==
    /\ faults < MaxFaults
    /\ faults' = faults + 1
    /\ ui' = FALSE
    /\ list' = [ty \in Types |-> << >>]
    /\ refs' = {}
    /\ todo' = << >>

\* Low memory, or an uncaught exception of a network task, kills the process.
Kill ==
    /\ ProcessEnds
    /\ orphans' = orphans \cup (CutOff \cap alarms)
    /\ UNCHANGED <<db, nextId, saved, alarms, intents, inflight, command,
                   booting, day>>

Reboot ==
    /\ ProcessEnds
    /\ alarms' = {}
    /\ intents' = << >>
    /\ inflight' = {}
    /\ booting' = TRUE
    /\ orphans' = {}
    /\ UNCHANGED <<db, nextId, saved, command, day>>

UserStep ==
    \/ OpenApp \/ CloseApp
    \/ \E t \in Templates : AddEvent(t)
    \/ \E id \in DOMAIN db : DeleteEvent(id)
    \/ \E ty \in Types : ToggleAlarms(ty)

Environment ==
    \/ \E id \in alarms : Fire(id)
    \/ \E id \in DOMAIN intents : Collect(id)
    \/ NextDay \/ Kill \/ Reboot

Next ==
    \/ UserStep
    \/ BootCompleted
    \/ \E m \in inflight : Receive(m)
    \/ HandlerStep
    \/ Environment

Spec == Init /\ [][Next]_vars

\* A handler runs to its end, and Android delivers BOOT_COMPLETED.
FairSpec == Spec /\ WF_vars(HandlerStep) /\ SF_vars(BootCompleted)

----------------------------------------------------------------------------
Step ==
    [op : {"load"}, type : Types, by : {"ui", "boot"}]
        \cup [op : {"arm", "cancel", "place", "drop"}, id : Ids, by : {"ui", "boot"}]

TypeOK ==
    /\ DOMAIN db \subseteq Ids /\ \A id \in DOMAIN db : db[id] \in Row
    /\ nextId \in Nat
    /\ saved \in [Types -> BOOLEAN]
    /\ alarms \subseteq DOMAIN intents
    /\ DOMAIN intents \subseteq Ids
    /\ command.service \in {"none", "PowerService", "LightService"}
    /\ ui \in BOOLEAN /\ booting \in BOOLEAN
    /\ \A ty \in Types : list[ty] \in Seq(Ids)
    /\ refs \subseteq Ids /\ orphans \subseteq Ids
    /\ todo \in Seq(Step)
    /\ day \in Nat /\ faults \in Nat

EnabledIds == {id \in DOMAIN db : saved[db[id].type]}

\* setAlarm passes flag 0, so an old PendingIntent of the same request code
\* would keep its extras: whatever is armed, in flight or was last commanded
\* for an event in the table still carries that event's own type and action.
PayloadFaithful ==
    /\ \A id \in DOMAIN db \cap DOMAIN intents : intents[id] = Extras(db[id])
    /\ \A m \in inflight : m.id \in DOMAIN db => m.extras = Extras(db[m.id])
    /\ command.id \in DOMAIN db =>
          /\ command.service = Service(Extras(db[command.id]))
          /\ command.action = db[command.id].action
          /\ command.socket = db[command.id].socket

\* Once an activity has loaded its events, every event of an enabled system is
\* armed, whatever kills and reboots came before (enableAlarms, constructors).
NoMissedTimer == ui /\ Idle => EnabledIds \subseteq alarms

\* Between handlers only events in the table of an enabled system are armed,
\* except those whose cancelAlarm was cut off by a kill.
NoGhostTimer == Idle => alarms \subseteq EnabledIds \cup orphans

\* An armed event on screen can be disarmed from it, even when BootLoader's
\* own manager armed it too: its event object holds the AlarmManager.
CancelReaches ==
    ui /\ Idle => \A id \in alarms \cap DOMAIN db : id \in refs \/ id \in orphans

\* The managers' lists hold exactly the rows of their type, each once.
ListMatchesTable ==
    ui /\ Idle => \A ty \in Types : /\ Range(list[ty]) = IdsOf(ty)
                                    /\ Len(list[ty]) = Cardinality(IdsOf(ty))

\* As long as the day has not changed, events are listed by time of day:
\* the order of addEvent and the order by timemillis of a reload agree.
SortedWithinOneDay ==
    day = 0 /\ ui /\ Idle =>
        \A ty \in Types : \A i, j \in DOMAIN list[ty] :
            i < j => db[list[ty][i]].tod <= db[list[ty][j]].tod

\* BootLoader: after a reboot the events of enabled systems are armed again,
\* unless the process is killed or the device restarted once more.
BootRearms ==
    \A n \in 1 .. MaxFaults :
        booting /\ faults = n
            ~> (~booting /\ Idle /\ EnabledIds \subseteq alarms) \/ faults > n

\* With no handler running and the timer of a system off, none of its alarms
\* is armed.
OffMeansOff ==
    ui /\ Idle => \A id \in alarms \cap DOMAIN db : saved[db[id].type]
=============================================================================
