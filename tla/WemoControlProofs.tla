------------------------- MODULE WemoControlProofs -------------------------
(***************************************************************************)
(* Proofs about WemoControl, for any addresses, names and bounds: what may    *)
(* crash, what a search ends in, when preferences are lost and that the       *)
(* screen follows the plug.                                                   *)
(***************************************************************************)
EXTENDS WemoControl, ListFacts, FiniteSetTheorems

\* The records of TypeOK.
Finders ==
    [thread : {"new", "bind", "receive", "report", "remove", "ended"},
     timeout : BOOLEAN, found : Addresses \cup {NoAddress}]

WemoSystems ==
    [status : Statuses, error : Errors, screen : Screens, tab : Tabs, bound : BOOLEAN,
     data : Saved]

WemoServices == [data : Saved, device : Addresses \cup {NoAddress}]

Sessions ==
    [pc : {"idle", "try", "sent"}, task : TaskRecords, tries : 0 .. CONNECTION_RETIES]

\* TypeOK, with its records named.
Typed ==
    /\ on \in BOOLEAN /\ crashed \in BOOLEAN /\ touched \in BOOLEAN /\ known \in BOOLEAN
    /\ raced \in BOOLEAN /\ excused \in BOOLEAN /\ unsafe \in BOOLEAN
    /\ where \in Addresses
    /\ saved \in Saved
    /\ service \in [Activities -> WemoServices]
    /\ finder \in [Activities -> Finders]
    /\ port \in 0 .. MaxActivities /\ starting \in 0 .. MaxActivities
    /\ queue \in Seq(TaskRecords)
    /\ session \in Sessions
    /\ messages \in Seq(Messages)
    /\ system \in WemoSystems
    /\ activity \in Activities
    /\ gone \in [Activities -> Statuses]
    /\ taps \in 0 .. MaxTaps /\ renames \in 0 .. MaxRenames /\ presses \in 0 .. MaxPresses
    /\ newest \in [url : Addresses \cup {NoAddress}, name : Names]
    /\ wrote \subseteq [by : {"user", "finder"}, activity : Activities]

(***************************************************************************)
(* A service connects once, so one task, or one answer to it, may start its   *)
(* finder: it is in the queue, in the session or among the messages.          *)
(***************************************************************************)
ConnectTasks(a) == {task \in TaskRecords : task.kind = "connect" /\ task.for = a}

ConnectAnswers(a) == {m \in Messages : m.to = "service" /\ m.activity = a}

InQueue(a) == Occurs(queue, ConnectTasks(a))

InSession(a) == session.task \in ConnectTasks(a)

InMessages(a) == Occurs(messages, ConnectAnswers(a))

Connecting(a) == InQueue(a) \/ InSession(a) \/ InMessages(a)

ConnectsOnce(a) ==
    /\ OccursOnce(queue, ConnectTasks(a))
    /\ OccursOnce(messages, ConnectAnswers(a))
    /\ InQueue(a) => ~InSession(a) /\ ~InMessages(a)
    /\ InSession(a) => ~InMessages(a)

Searching(a) == finder[a].thread # "new"

\* A service searches only after its connection has failed, and both only once
\* it was bound.
BoundFirst(a) ==
    /\ ~(Connecting(a) /\ Searching(a))
    /\ Connecting(a) \/ Searching(a) => a < activity \/ (a = activity /\ system.bound)
    /\ finder[a].timeout => Searching(a)

Connections ==
    /\ \A a \in Activities : ConnectsOnce(a) /\ BoundFirst(a)
    /\ starting # 0 => Searching(starting)

\* Whatever is awaited, the current activity awaits.
Owned ==
    /\ messages \in Seq({m \in Messages : m.activity = activity})
    /\ queue \in Seq({task \in TaskRecords : task.for \in {0, activity}})
    /\ session.task.for \in {0, activity}
    /\ starting \in {0, activity}
    /\ \A a \in Activities \ {activity} :
          ~finder[a].timeout /\ finder[a].thread \in {"new", "ended"}

\* A screen was left only when nothing was awaited.
LeftAlone == system.screen = "left" => system.bound /\ ~Awaited /\ starting = 0

(***************************************************************************)
(* The copies of the preferences: a finder writes its service's name and a    *)
(* user the screen's URL, so each must still be the newest when written.      *)
(***************************************************************************)
Wrote(by, a) == [by |-> by, activity |-> a] \in wrote

OneWriter == \A a \in Activities : ~(Wrote("user", a) /\ Wrote("finder", a))

CopiesFresh ==
    /\ saved.url = newest.url /\ saved.name = newest.name
    /\ system.data.name = newest.name
    /\ ~Wrote("finder", activity) => system.data.url = newest.url
    /\ \A a \in Activities :
          /\ Connecting(a) \/ Searching(a)
          /\ \A b \in a .. activity : ~Wrote("user", b)
          => service[a].data.name = newest.name

(***************************************************************************)
(* Unless a timeout and a removal race, the report of a plug is followed by   *)
(* no report that none was found.                                             *)
(***************************************************************************)
Outcomes(what) ==
    {m \in Messages : m.to = "system" /\ m.activity = activity /\ m.what = what}

ReportLast ==
    /\ system.error = "find" => Occurs(messages, Outcomes("none"))
    /\ FollowedBy(messages, Outcomes("find"), Outcomes("none"))

Searches ==
    \A a \in Activities :
        /\ finder[a].found # NoAddress => finder[a].thread \in {"report", "remove", "ended"}
        /\ finder[a].thread = "ended" /\ finder[a].timeout => raced /\ starting # a

Reported(a) ==
    finder[a].found # NoAddress /\ finder[a].thread \in {"remove", "ended"}

IInv ==
    /\ Typed
    /\ Connections
    /\ ~unsafe => Owned /\ LeftAlone
    /\ CrashesOnlyIfUnsafe
    /\ OneWriter => CopiesFresh
    /\ Searches
    /\ ~raced /\ Reported(activity) => ReportLast

-----------------------------------------------------------------------------
(* Types *)

(* Bounded activities are numbers. *)
LEMMA ActivitiesAre ==
    /\ MaxActivities \in Nat /\ MaxActivities > 0
    /\ Activities = 1 .. MaxActivities
    /\ \A a \in Activities : a \in Nat /\ a > 0
BY WemoAssumption DEF Activities

(* Nothing but names lies between the two. *)
LEMMA TypedIsTypeOK == Typed <=> TypeOK
BY DEF Typed, TypeOK, WemoServices, Finders, Sessions, WemoSystems

(* The idle session is one. *)
LEMMA IdleTyped == NoTask \in TaskRecords /\ Idle \in Sessions
<1>1. NoTask \in TaskRecords
  BY ActivitiesAre DEF NoTask, TaskRecords
<1>2. 0 \in 0 .. CONNECTION_RETIES
  BY DEF CONNECTION_RETIES
<1> QED BY <1>1, <1>2 DEF Idle, Sessions

(* At the start everything has its type. *)
LEMMA InitTypes == Init => Typed
<1> SUFFICES ASSUME Init PROVE Typed
  OBVIOUS
<1>1. 1 \in Activities
  BY ActivitiesAre
<1>2. saved \in Saved /\ saved.name \in Names /\ saved.url \in Addresses \cup {NoAddress}
  BY WemoAssumption DEF Init, Saved
<1>3. service \in [Activities -> WemoServices]
  BY <1>2 DEF Init, WemoServices
<1>4. finder \in [Activities -> Finders]
  BY DEF Init, Finders
<1>5. session \in Sessions
  BY IdleTyped DEF Init
<1>6. system \in WemoSystems
  BY <1>2 DEF Init, NewSystem, WemoSystems, Statuses, Errors, Screens, Tabs
<1>7. queue \in Seq(TaskRecords) /\ messages \in Seq(Messages)
  BY DEF Init
<1>8. newest \in [url : Addresses \cup {NoAddress}, name : Names]
  BY <1>2 DEF Init
<1>9. /\ gone \in [Activities -> Statuses]
      /\ taps \in 0 .. MaxTaps /\ renames \in 0 .. MaxRenames /\ presses \in 0 .. MaxPresses
  BY WemoAssumption DEF Init, Statuses
<1>10. /\ on \in BOOLEAN /\ crashed \in BOOLEAN /\ touched \in BOOLEAN /\ known \in BOOLEAN
       /\ raced \in BOOLEAN /\ excused \in BOOLEAN /\ unsafe \in BOOLEAN
  BY DEF Init
<1>11. /\ where \in Addresses /\ saved \in Saved /\ activity \in Activities /\ wrote = {}
       /\ port \in 0 .. MaxActivities /\ starting \in 0 .. MaxActivities
  BY <1>1, <1>2, WemoAssumption, ActivitiesAre DEF Init
<1> QED
  BY <1>3, <1>4, <1>5, <1>6, <1>7, <1>8, <1>9, <1>10, <1>11 DEF Typed

(* What a message leaves of a system is a system, with the screen where it was. *)
LEMMA ToldTyped ==
    ASSUME NEW s \in WemoSystems, NEW message \in Messages
    PROVE  /\ Responded(s, message) \in WemoSystems
           /\ Responded(s, message).screen = s.screen
<1>1. message.what \in Errors /\ message.state \in SUBSET BOOLEAN
  BY DEF Messages
<1>2. StatusOf(message.what) \in Statuses
  BY <1>1 DEF StatusOf, Statuses
<1> DEFINE t == Told(s, message.what)
<1>3. t \in WemoSystems /\ t.screen = s.screen
  <2>1. NextTab(s, StatusOf(message.what)) \in Tabs
    BY DEF NextTab, Tabs, WemoSystems
  <2> QED BY <1>1, <1>2, <2>1 DEF Told, WemoSystems
<1> DEFINE state == IF message.state = {} THEN t.data.status
                    ELSE CHOOSE x \in message.state : TRUE
<1>4. t.data \in Saved
  BY <1>3 DEF WemoSystems
<1>5. state \in BOOLEAN
  <2>1. message.state # {} => (CHOOSE x \in message.state : TRUE) \in message.state
    OBVIOUS
  <2> QED BY <1>1, <1>4, <2>1 DEF Saved
<1>6. Responded(s, message) = [t EXCEPT !.data = [@ EXCEPT !.status = state]]
  BY DEF Responded
<1> HIDE DEF t, state
<1>7. [t.data EXCEPT !.status = state] \in Saved
  BY <1>4, <1>5 DEF Saved
<1> QED BY <1>3, <1>6, <1>7 DEF WemoSystems

\* A step that changes the system in its screen and its tab at most.
SameSystem ==
    /\ system' \in WemoSystems
    /\ system'.status = system.status /\ system'.error = system.error
    /\ system'.bound = system.bound /\ system'.data = system.data

Quietly == NavigationUnchanged /\ SameSystem /\ unsafe' \in BOOLEAN /\ (unsafe => unsafe')

(* A user who goes about the screens does no more, kills the process, or creates
   an activity. *)
LEMMA NavigateSteps ==
    ASSUME Typed, Navigate
    PROVE  Quietly \/ (CreateView /\ Crash) \/ Reopen \/ Restore
<1>1. CASE CreateView /\ ~Crash
  <2>1. PICK tab \in Tabs : system' = [system EXCEPT !.screen = "shown", !.tab = tab]
    BY <1>1 DEF CreateView
  <2>2. SameSystem
    BY <2>1 DEF SameSystem, Typed, WemoSystems, Screens
  <2> QED BY <1>1, <2>2 DEF CreateView, Quietly, Typed
<1>2. CASE Leave
  <2>1. SameSystem
    BY <1>2 DEF Leave, SameSystem, Typed, WemoSystems, Screens
  <2>2. unsafe' \in BOOLEAN
    BY <1>2 DEF Leave
  <2> QED BY <1>2, <2>1, <2>2 DEF Leave, Quietly
<1>3. ASSUME NEW tab \in {"main", "setup"}, SelectTab(tab) PROVE Quietly
  <2>1. SameSystem
    BY <1>3 DEF SelectTab, SameSystem, Typed, WemoSystems, Tabs
  <2> QED BY <1>3, <2>1 DEF SelectTab, Quietly, Typed
<1> QED BY <1>1, <1>2, <1>3 DEF Navigate

-----------------------------------------------------------------------------
(* The steps of the main thread keep the types. *)
LEMMA MainTypes ==
    ASSUME Typed,
           \/ PostTimeout \/ Connect \/ Navigate \/ RequestPlugSwitch
           \/ \E name \in NewNames : ApplySettings(name)
           \/ \E value \in Switches : OnStartCommand(value)
    PROVE  Typed'
<1> USE DEF plugVars, savedVars, findVars, taskVars, screenVars
<1>0. ASSUME Crash PROVE Typed'
  BY <1>0 DEF Crash, Typed
<1>1. CASE PostTimeout
  <2>1. starting \in Activities
    BY <1>1, ActivitiesAre DEF PostTimeout, Typed
  <2>2. [finder[starting] EXCEPT !.timeout = TRUE] \in Finders
    BY <2>1, ZenonT(30) DEF Typed, Finders
  <2>3. finder' \in [Activities -> Finders]
    <3>1. finder' = [finder EXCEPT ![starting] = [@ EXCEPT !.timeout = TRUE]]
      BY <1>1 DEF PostTimeout
    <3> QED BY <2>1, <2>2, <3>1 DEF Typed
  <2>4. raced' \in BOOLEAN /\ starting' \in 0 .. MaxActivities
    BY <1>1, ActivitiesAre DEF PostTimeout
  <2> QED BY <1>1, <2>3, <2>4 DEF PostTimeout, Typed
<1>2. CASE Connect
  <2>1. activity \in Activities /\ saved \in Saved /\ saved.url \in Addresses \cup {NoAddress}
    BY DEF Typed, Saved
  <2>2. system' \in WemoSystems
    BY <1>2 DEF Connect, Typed, WemoSystems
  <2>3. service' \in [Activities -> WemoServices]
    BY <1>2, <2>1 DEF Connect, Typed, WemoServices
  <2>4. queue' \in Seq(TaskRecords)
    <3> DEFINE task == [kind |-> "connect", for |-> activity, value |-> FALSE,
                        url |-> saved.url]
    <3>1. task \in TaskRecords
      BY <2>1, ActivitiesAre DEF TaskRecords
    <3>2. queue' = Append(queue, task) \/ queue' = queue
      BY <1>2 DEF Connect
    <3>3. queue \in Seq(TaskRecords)
      BY DEF Typed
    <3> HIDE DEF task
    <3> QED BY <3>1, <3>2, <3>3
  <2>5. finder' \in [Activities -> Finders] /\ starting' \in 0 .. MaxActivities
    <3>1. [finder[activity] EXCEPT !.thread = "bind"] \in Finders
      BY <2>1 DEF Typed, Finders
    <3>2. \/ UNCHANGED <<finder, starting>>
          \/ /\ finder' = [finder EXCEPT ![activity] = [@ EXCEPT !.thread = "bind"]]
             /\ starting' = activity
      BY <1>2 DEF Connect, StartFinder
    <3>3. activity \in 0 .. MaxActivities
      BY <2>1, ActivitiesAre
    <3>4. CASE UNCHANGED <<finder, starting>>
      BY <3>4 DEF Typed
    <3>5. CASE finder' = [finder EXCEPT ![activity] = [@ EXCEPT !.thread = "bind"]]
      <4>1. finder' \in [Activities -> Finders]
        BY <2>1, <3>1, <3>5 DEF Typed
      <4> QED BY <3>2, <3>3, <4>1 DEF Typed
    <3> QED BY <3>2, <3>4, <3>5
  <2> QED BY <1>2, <2>2, <2>3, <2>4, <2>5 DEF Connect, Typed
<1>3. CASE Navigate
  <2>1. CASE Quietly
    BY <2>1 DEF Quietly, NavigationUnchanged, SameSystem, Typed
  <2>2. CASE Reopen
    <3>1. activity' \in Activities
      BY <2>2, ActivitiesAre DEF Reopen, Typed
    <3>2. system' \in WemoSystems
      BY <2>2 DEF Reopen, NewSystem, Typed, WemoSystems, Statuses, Errors, Screens, Tabs
    <3>3. gone' \in [Activities -> Statuses]
      BY <2>2 DEF Reopen, Typed, WemoSystems
    <3>4. unsafe' \in BOOLEAN
      BY <2>2 DEF Reopen
    <3> QED BY <2>2, <3>1, <3>2, <3>3, <3>4 DEF Reopen, Typed
  <2>3. CASE Restore
    BY <2>3 DEF Restore, Typed
  <2> QED BY <1>0, <1>3, <2>1, <2>2, <2>3, NavigateSteps
<1>4. CASE RequestPlugSwitch
  <2>1. /\ activity \in Activities /\ service[activity].device \in Addresses \cup {NoAddress}
        /\ (~system.data.status) \in BOOLEAN
    <3>1. activity \in Activities /\ service[activity] \in WemoServices
      BY DEF Typed
    <3>2. service[activity].device \in Addresses \cup {NoAddress}
      BY <3>1 DEF WemoServices
    <3> QED BY <3>1, <3>2
  <2>2. [kind |-> "set", for |-> activity, value |-> ~system.data.status,
         url |-> service[activity].device] \in TaskRecords
    BY <2>1, ActivitiesAre DEF TaskRecords
  <2>3. queue' \in Seq(TaskRecords)
    BY <1>4, <2>2 DEF RequestPlugSwitch, Typed
  <2>4. taps' \in 0 .. MaxTaps
    BY <1>4, WemoAssumption DEF RequestPlugSwitch, Typed
  <2> QED BY <1>4, <2>3, <2>4 DEF RequestPlugSwitch, Typed
<1>6. ASSUME NEW name \in NewNames, ApplySettings(name)
      PROVE  Typed'
  <2>0. name \in Names
    BY WemoAssumption
  <2>1. system' \in WemoSystems
    <3>1. [system.data EXCEPT !.name = name] \in Saved
      BY <2>0 DEF Typed, WemoSystems, Saved
    <3>2. system' = [system EXCEPT !.data = [@ EXCEPT !.name = name]]
      BY <1>6 DEF ApplySettings
    <3> QED BY <3>1, <3>2 DEF Typed, WemoSystems
  <2>2. saved' \in Saved
    BY <1>6, <2>1 DEF ApplySettings, WemoSystems
  <2>3. newest' \in [url : Addresses \cup {NoAddress}, name : Names]
    BY <1>6, <2>0 DEF ApplySettings, Typed
  <2>4. /\ wrote' \subseteq [by : {"user", "finder"}, activity : Activities]
        /\ renames' \in 0 .. MaxRenames
    BY <1>6, WemoAssumption DEF ApplySettings, Typed
  <2> QED BY <1>6, <2>1, <2>2, <2>3, <2>4 DEF ApplySettings, Typed
<1>7. ASSUME NEW value \in Switches, OnStartCommand(value)
      PROVE  Typed'
  <2>1. [kind |-> "set", for |-> 0, value |-> value,
         url |-> IF system.bound THEN service[activity].device ELSE saved.url]
           \in TaskRecords
    <3>1. /\ service[activity].device \in Addresses \cup {NoAddress}
          /\ saved.url \in Addresses \cup {NoAddress}
      BY DEF Typed, WemoServices, Saved
    <3> QED BY <3>1, WemoAssumption, ActivitiesAre DEF TaskRecords
  <2>2. queue' \in Seq(TaskRecords)
    BY <1>7, <2>1 DEF OnStartCommand, Typed
  <2>3. presses' \in 0 .. MaxPresses
    BY <1>7, WemoAssumption DEF OnStartCommand, Typed
  <2> QED BY <1>7, <2>2, <2>3 DEF OnStartCommand, Typed
<1> QED BY <1>1, <1>2, <1>3, <1>4, <1>6, <1>7

(* The handlers of messages keep the types. *)
LEMMA HandleTypes == ASSUME Typed, Handle PROVE Typed'
<1> USE DEF plugVars, savedVars, findVars, taskVars, screenVars
<1>1. ASSUME Crash PROVE Typed'
  BY <1>1 DEF Crash, Typed
<1>2. ASSUME messages # << >>
      PROVE  Head(messages) \in Messages /\ Tail(messages) \in Seq(Messages)
  BY <1>2 DEF Typed
<1>3. CASE HandleSystem /\ ~Crash
  <2>1. Head(messages) \in Messages /\ Tail(messages) \in Seq(Messages)
    BY <1>2, <1>3 DEF HandleSystem
  <2>2. system' = Responded(system, Head(messages))
    BY <1>3 DEF HandleSystem
  <2>3. system' \in WemoSystems
    BY <2>1, <2>2, ToldTyped DEF Typed
  <2>4. known' \in BOOLEAN
    BY <1>3 DEF HandleSystem, Typed
  <2> QED BY <1>3, <2>1, <2>3, <2>4 DEF HandleSystem, Typed
<1>4. CASE HandleGone
  <2>1. ASSUME ~Crash PROVE Typed'
    <3>1. messages' \in Seq(Messages)
      BY <1>2, <1>4, <2>1 DEF HandleGone
    <3> QED BY <1>4, <2>1, <3>1 DEF HandleGone, Typed
  <2> QED BY <1>1, <2>1
<1>5. CASE HandleConnect
  <2> DEFINE m == Head(messages)
             a == m.activity
  <2>1. m \in Messages /\ Tail(messages) \in Seq(Messages) /\ a \in Activities
    BY <1>2, <1>5 DEF HandleConnect, Messages
  <2>2. CASE Crash
    BY <1>1, <2>2
  <2>3. CASE /\ messages' = Append(Tail(messages), ToSystem(a, "none", m.state))
             /\ UNCHANGED <<plugVars, savedVars, findVars, taskVars, screenVars,
                            starting, crashed>>
    <3>1. ToSystem(a, "none", m.state) \in Messages
      BY <2>1 DEF ToSystem, Messages, Errors
    <3>2. messages' \in Seq(Messages)
      BY <2>1, <2>3, <3>1
    <3> QED BY <2>3, <3>2 DEF Typed
  <2>4. CASE /\ StartFinder(a)
             /\ messages' = Tail(messages)
             /\ UNCHANGED <<plugVars, savedVars, service, port, raced, excused,
                            taskVars, screenVars, crashed>>
    <3>1. [finder[a] EXCEPT !.thread = "bind"] \in Finders
      BY <2>1, SMTT(20) DEF Typed, Finders
    <3>2. finder' \in [Activities -> Finders]
      BY <2>1, <2>4, <3>1 DEF Typed, StartFinder
    <3>3. starting' \in 0 .. MaxActivities
      BY <2>1, <2>4, ActivitiesAre DEF StartFinder
    <3>4. messages' \in Seq(Messages)
      BY <2>1, <2>4
    <3> QED BY <2>4, <3>2, <3>3, <3>4 DEF Typed
  <2> QED BY <1>5, <2>2, <2>3, <2>4 DEF HandleConnect
<1> QED BY <1>1, <1>3, <1>4, <1>5 DEF Handle

(* The steps of a finder and its timeout keep the types. *)
LEMMA FinderTypes ==
    ASSUME Typed, NEW a \in Activities, FindTimeout(a) \/ Find(a) \/ Receive(a)
    PROVE  Typed'
<1> USE DEF plugVars, savedVars, taskVars, screenVars
<1>1. /\ finder \in [Activities -> Finders] /\ finder[a] \in Finders
      /\ service \in [Activities -> WemoServices] /\ service[a] \in WemoServices
      /\ where \in Addresses /\ messages \in Seq(Messages)
  BY DEF Typed
<1>2. CASE FindTimeout(a)
  <2>1. [finder[a] EXCEPT !.timeout = FALSE] \in Finders
    BY <1>1 DEF Finders
  <2>2. finder' \in [Activities -> Finders]
    BY <1>1, <1>2, <2>1 DEF FindTimeout
  <2>3. ToSystem(a, "find", {}) \in Messages
    BY DEF ToSystem, Messages, Errors
  <2>4. messages' \in Seq(Messages)
    BY <1>1, <1>2, <2>3 DEF FindTimeout, Send
  <2>5. raced' \in BOOLEAN
    BY <1>2 DEF FindTimeout, Typed
  <2> QED BY <1>2, <2>2, <2>4, <2>5 DEF FindTimeout, Typed
<1>3. CASE Bind(a)
  <2>1. [finder[a] EXCEPT !.thread = "receive"] \in Finders
    BY <1>1 DEF Finders
  <2>2. finder' \in [Activities -> Finders]
    BY <1>1, <1>3, <2>1 DEF Bind
  <2>3. port' \in 0 .. MaxActivities
    BY <1>3, ActivitiesAre DEF Bind
  <2> QED BY <1>3, <2>2, <2>3 DEF Bind, FinderUnchanged, Typed
<1>4. CASE BindFails(a)
  <2>1. [finder[a] EXCEPT !.thread = "remove"] \in Finders
    BY <1>1 DEF Finders
  <2>2. finder' \in [Activities -> Finders]
    BY <1>1, <1>4, <2>1 DEF BindFails
  <2> QED BY <1>4, <2>2 DEF BindFails, FinderUnchanged, Typed
<1>5. CASE Receive(a)
  <2>1. /\ [finder[a] EXCEPT !.thread = "remove"] \in Finders
        /\ [finder[a] EXCEPT !.thread = "report", !.found = where] \in Finders
    BY <1>1 DEF Finders
  <2>2. \/ finder' = [finder EXCEPT ![a] = [@ EXCEPT !.thread = "remove"]]
        \/ finder' = [finder EXCEPT ![a] = [@ EXCEPT !.thread = "report", !.found = where]]
    BY <1>1, <1>5 DEF Receive
  <2>3. finder' \in [Activities -> Finders]
    BY <1>1, <2>1, <2>2
  <2>4. excused' \in BOOLEAN
    BY <1>5 DEF Receive, Typed
  <2> QED BY <1>5, <2>3, <2>4 DEF Receive, FinderUnchanged, Typed
<1>6. CASE Report(a)
  <2>1. [finder[a] EXCEPT !.thread = "remove"] \in Finders
    BY <1>1 DEF Finders
  <2>2. finder' \in [Activities -> Finders]
    BY <1>1, <1>6, <2>1 DEF Report
  <2> DEFINE u == finder[a].found
             s == [data |-> [service[a].data EXCEPT !.url = u], device |-> u]
  <2>3. u \in Addresses \cup {NoAddress} /\ service[a].data \in Saved
    BY <1>1 DEF Finders, WemoServices
  <2>4. s \in WemoServices /\ s.data \in Saved
    BY <2>3 DEF WemoServices, Saved
  <2>5. service' = [service EXCEPT ![a] = s]
    <3> DEFINE t == [service EXCEPT ![a].data.url = u]
    <3>1. service' = [t EXCEPT ![a].device = u]
      BY <1>6 DEF Report
    <3>2. t[a] = [data |-> [service[a].data EXCEPT !.url = u], device |-> service[a].device]
      <4>1. t[a] = [service[a] EXCEPT !.data.url = u]
        BY <1>1
      <4>2. service[a] = [data |-> service[a].data, device |-> service[a].device]
        BY <1>1 DEF WemoServices
      <4> HIDE DEF t, u
      <4> QED BY <4>1, <4>2
    <3>3. /\ DOMAIN t = Activities
          /\ \A b \in Activities \ {a} : t[b] = service[b]
      BY <1>1
    <3> HIDE DEF t, u
    <3>4. service' = [t EXCEPT ![a] = s]
      <4>1. [t[a] EXCEPT !.device = u] = s
        BY <3>2
      <4> QED BY <3>1, <3>3, <4>1
    <3> QED BY <1>1, <3>3, <3>4
  <2>6. service' \in [Activities -> WemoServices] /\ service'[a] = s
    BY <1>1, <2>4, <2>5
  <2>7. saved' \in Saved
    BY <1>6, <2>4, <2>6 DEF Report
  <2>8. newest' \in [url : Addresses \cup {NoAddress}, name : Names]
    BY <1>6, <2>3 DEF Report, Typed
  <2>9. wrote' \subseteq [by : {"user", "finder"}, activity : Activities]
    <3>1. a .. activity \subseteq Activities
      BY ActivitiesAre DEF Typed
    <3> QED BY <1>6, <3>1 DEF Report, Typed
  <2>10. messages' \in Seq(Messages)
    <3>1. ToSystem(a, "none", {}) \in Messages
      BY DEF ToSystem, Messages, Errors
    <3> QED BY <1>1, <1>6, <3>1 DEF Report, Send
  <2> QED BY <1>6, <2>2, <2>6, <2>7, <2>8, <2>9, <2>10 DEF Report, Typed
<1>7. CASE RemoveTimeout(a)
  <2>1. [finder[a] EXCEPT !.thread = "ended", !.timeout = FALSE] \in Finders
    BY <1>1 DEF Finders
  <2>2. finder' = [finder EXCEPT ![a] = [@ EXCEPT !.thread = "ended", !.timeout = FALSE]]
    BY <1>1, <1>7 DEF RemoveTimeout
  <2>3. finder' \in [Activities -> Finders]
    BY <1>1, <2>1, <2>2
  <2> QED BY <1>7, <2>3 DEF RemoveTimeout, FinderUnchanged, Typed
<1> QED BY <1>2, <1>3, <1>4, <1>5, <1>6, <1>7 DEF Find

(* What a task answers is a message. *)
LEMMA AnswerTypes ==
    ASSUME Typed, NEW what \in Errors, NEW state \in BOOLEAN, Answer(what, state)
    PROVE  messages' \in Seq(Messages) /\ session' \in Sessions
<1>1. session' \in Sessions
  BY IdleTyped DEF Answer
<1>2. CASE session.task.for = 0
  BY <1>1, <1>2 DEF Answer, Typed
<1>3. CASE session.task.for # 0
  <2>1. session.task.for \in Activities
    BY <1>3, ActivitiesAre DEF Typed, Sessions, TaskRecords
  <2> DEFINE m == [to |-> IF session.task.kind = "connect" THEN "service" ELSE "system",
                   activity |-> session.task.for, what |-> what, state |-> {state}]
  <2>2. m \in Messages
    BY <2>1 DEF Messages
  <2>3. messages' = Append(messages, m)
    BY <1>3 DEF Answer, Send
  <2>4. messages \in Seq(Messages)
    BY DEF Typed
  <2> HIDE DEF m
  <2> QED BY <1>1, <2>2, <2>3, <2>4
<1> QED BY <1>2, <1>3

(* The steps of a task and of the plug keep the types. *)
LEMMA TaskTypes ==
    ASSUME Typed,
           Collect \/ Start \/ Session \/ Press \/ \E url \in Addresses \ {where} : Move(url)
    PROVE  Typed'
<1> USE DEF plugVars, savedVars, taskVars, screenVars
<1>1. session \in Sessions /\ session.task \in TaskRecords /\ session.task.value \in BOOLEAN
  BY DEF Typed, Sessions, TaskRecords
<1>2. CASE Collect
  <2>1. port' \in 0 .. MaxActivities
    BY <1>2, ActivitiesAre DEF Collect
  <2> QED BY <1>2, <2>1 DEF Collect, FinderUnchanged, Typed
<1>3. CASE Start
  <2>1. Head(queue) \in TaskRecords /\ queue' \in Seq(TaskRecords)
    BY <1>3 DEF Start, Typed
  <2>2. session' \in Sessions
    <3>1. CONNECTION_RETIES \in 0 .. CONNECTION_RETIES
      BY DEF CONNECTION_RETIES
    <3> QED BY <1>3, <2>1, <3>1 DEF Start, Sessions
  <2> QED BY <1>3, <2>1, <2>2 DEF Start, TaskUnchanged, findVars, Typed
<1>4. CASE GetState
  <2>1. messages' \in Seq(Messages) /\ session' \in Sessions
    <3>1. "none" \in Errors /\ on \in BOOLEAN
      BY DEF Errors, Typed
    <3> QED BY <1>4, <3>1, AnswerTypes DEF GetState
  <2> QED BY <1>4, <2>1 DEF GetState, TaskUnchanged, findVars, Typed
<1>5. CASE SetState
  <2>1. session' \in Sessions
    BY <1>1, <1>5 DEF SetState, Sessions
  <2>2. touched' \in BOOLEAN
    BY <1>5 DEF SetState
  <2>3. on' \in BOOLEAN
    BY <1>1, <1>5 DEF SetState
  <2> QED BY <1>5, <2>1, <2>2, <2>3 DEF SetState, TaskUnchanged, findVars, Typed
<1>6. CASE SetAnswered
  <2>1. messages' \in Seq(Messages) /\ session' \in Sessions
    <3>1. "none" \in Errors
      BY DEF Errors
    <3> QED BY <1>1, <1>6, <3>1, AnswerTypes DEF SetAnswered
  <2> QED BY <1>6, <2>1 DEF SetAnswered, TaskUnchanged, findVars, Typed
<1>7. CASE Retry
  <2>1. messages' \in Seq(Messages) /\ session' \in Sessions
    <3>1. CASE Answer("network", FALSE)
      <4>1. "network" \in Errors
        BY DEF Errors
      <4> QED BY <3>1, <4>1, AnswerTypes
    <3>2. CASE /\ session.tries > 1
               /\ session' = [session EXCEPT !.pc = "try", !.tries = @ - 1]
               /\ UNCHANGED messages
      <4>1. session.tries \in 0 .. CONNECTION_RETIES
        BY <1>1 DEF Sessions
      <4>2. session.tries - 1 \in 0 .. CONNECTION_RETIES
        BY <3>2, <4>1 DEF CONNECTION_RETIES
      <4> QED BY <1>1, <3>2, <4>2 DEF Sessions, Typed
    <3> QED BY <1>7, <3>1, <3>2 DEF Retry
  <2> QED BY <1>7, <2>1 DEF Retry, TaskUnchanged, findVars, Typed
<1>8. CASE Press
  <2>1. presses' \in 0 .. MaxPresses /\ on' \in BOOLEAN
    BY <1>8, WemoAssumption DEF Press, Typed
  <2> QED BY <1>8, <2>1 DEF Press, findVars, Typed
<1>9. ASSUME NEW url \in Addresses, Move(url) PROVE Typed'
  <2>1. presses' \in 0 .. MaxPresses /\ where' \in Addresses
    BY <1>9, WemoAssumption DEF Move, Typed
  <2> QED BY <1>9, <2>1 DEF Move, findVars, Typed
<1> QED BY <1>2, <1>3, <1>4, <1>5, <1>6, <1>7, <1>8, <1>9 DEF Session

(* Every step keeps the types. *)
LEMMA NextTypes == ASSUME Typed, [Next]_vars PROVE Typed'
<1>1. CASE UNCHANGED vars
  BY <1>1 DEF vars, plugVars, savedVars, findVars, taskVars, screenVars, Typed
<1>2. CASE Handle
  BY <1>2, HandleTypes
<1>3. CASE \E a \in Activities : FindTimeout(a) \/ Find(a) \/ Receive(a)
  BY <1>3, FinderTypes
<1>4. CASE \/ PostTimeout \/ Connect \/ Navigate \/ RequestPlugSwitch
           \/ \E name \in NewNames : ApplySettings(name)
           \/ \E value \in Switches : OnStartCommand(value)
  BY <1>4, MainTypes
<1>5. CASE Collect \/ Start \/ Session \/ Press \/ \E url \in Addresses \ {where} : Move(url)
  BY <1>5, TaskTypes
<1> QED BY <1>1, <1>2, <1>3, <1>4, <1>5 DEF Next

-----------------------------------------------------------------------------
(* Steps *)

(* A crash is the last step. *)
LEMMA CrashedIsLast == Next => ~crashed
BY DEF Next, PostTimeout, Connect, Navigate, CreateView, Leave, SelectTab, Reopen,
       Restore, RequestPlugSwitch, Handle, HandleSystem, HandleGone, HandleConnect,
       ApplySettings, OnStartCommand, FindTimeout, Find, Bind, BindFails, Report,
       RemoveTimeout, Receive, Finding, Collect, Start,
       Session, GetState, SetState, SetAnswered, Retry, At, Press, Move, Main

\* A message to a system.
Shown(m) == m \in Messages /\ m.to = "system"

\* What a step does to queue, session and messages, and on whose behalf.
QueueGrows(task) ==
    /\ task \in TaskRecords /\ queue' = Append(queue, task)
    /\ task.for \in {0, activity}
    /\ task.for # 0 => system.status = "online" /\ system.screen = "shown"
    /\ UNCHANGED <<session, messages>>

MessageShown(m) ==
    /\ Shown(m) /\ m.state = {} /\ messages' = Append(messages, m)
    /\ finder[m.activity].timeout \/ finder[m.activity].thread = "report"
    /\ UNCHANGED <<queue, session>>

MessageTaken ==
    /\ messages # << >> /\ messages' = Tail(messages)
    /\ UNCHANGED <<queue, session>>

MessageForwarded(m) ==
    /\ messages # << >> /\ Shown(m) /\ messages' = Append(Tail(messages), m)
    /\ Head(messages) \in ConnectAnswers(m.activity)
    /\ UNCHANGED <<queue, session>>

TaskStarted ==
    /\ queue # << >> /\ session'.task = Head(queue) /\ queue' = Tail(queue)
    /\ UNCHANGED messages

TaskGoesOn == session'.task = session.task /\ UNCHANGED <<queue, messages>>

Answered ==
    /\ \E what \in Errors \ {"find"}, state \in BOOLEAN : Answer(what, state)
    /\ UNCHANGED queue

\* Every step but the connection of a service does one of these.
Moved ==
    \/ UNCHANGED <<queue, session, messages>>
    \/ \E task \in TaskRecords : task.kind = "set" /\ QueueGrows(task)
    \/ \E m \in Messages : MessageShown(m)
    \/ MessageTaken
    \/ \E m \in Messages : MessageForwarded(m)
    \/ TaskStarted
    \/ TaskGoesOn
    \/ Answered

(* Every other step of the main thread is one. *)
LEMMA MainMoves ==
    ASSUME Typed,
           \/ PostTimeout \/ Navigate \/ RequestPlugSwitch \/ Handle
           \/ \E name \in NewNames : ApplySettings(name)
           \/ \E value \in Switches : OnStartCommand(value)
    PROVE  Moved
<1> USE DEF taskVars, Moved
<1>1. ASSUME Crash PROVE Moved
  BY <1>1 DEF Crash
<1>2. CASE PostTimeout
  BY <1>2 DEF PostTimeout
<1>3. CASE Navigate
  <2>1. CASE Quietly \/ Reopen \/ Restore
    BY <2>1 DEF Quietly, NavigationUnchanged, Reopen, Restore
  <2> QED BY <1>1, <1>3, <2>1, NavigateSteps
<1>4. CASE RequestPlugSwitch
  <2> DEFINE task == [kind |-> "set", for |-> activity, value |-> ~system.data.status,
                      url |-> service[activity].device]
  <2>1. /\ activity \in Activities /\ service[activity].device \in Addresses \cup {NoAddress}
        /\ (~system.data.status) \in BOOLEAN
    <3>1. activity \in Activities /\ service[activity] \in WemoServices
      BY DEF Typed
    <3> QED BY <3>1 DEF WemoServices
  <2>2. task \in TaskRecords /\ task.kind = "set" /\ task.for \in {0, activity}
    BY <2>1, ActivitiesAre DEF TaskRecords
  <2>3. /\ queue' = Append(queue, task) /\ UNCHANGED <<session, messages>>
        /\ system.status = "online" /\ system.screen = "shown"
    BY <1>4 DEF RequestPlugSwitch
  <2> HIDE DEF task
  <2> QED BY <2>2, <2>3 DEF QueueGrows
<1>6. ASSUME NEW name \in NewNames, ApplySettings(name) PROVE Moved
  BY <1>6 DEF ApplySettings
<1>7. ASSUME NEW value \in Switches, OnStartCommand(value) PROVE Moved
  <2> DEFINE task == [kind |-> "set", for |-> 0, value |-> value,
                      url |-> IF system.bound THEN service[activity].device ELSE saved.url]
  <2>1. /\ service[activity].device \in Addresses \cup {NoAddress}
        /\ saved.url \in Addresses \cup {NoAddress}
    BY DEF Typed, WemoServices, Saved
  <2>2. task \in TaskRecords /\ task.kind = "set" /\ task.for = 0
    BY <2>1, WemoAssumption, ActivitiesAre DEF TaskRecords
  <2>3. queue' = Append(queue, task) /\ UNCHANGED <<session, messages>>
    BY <1>7 DEF OnStartCommand
  <2> HIDE DEF task
  <2> QED BY <2>2, <2>3 DEF QueueGrows
<1>8. CASE HandleSystem
  BY <1>1, <1>8 DEF HandleSystem, MessageTaken
<1>9. CASE HandleGone
  BY <1>1, <1>9 DEF HandleGone, MessageTaken
<1>10. CASE HandleConnect
  <2> DEFINE m == Head(messages)
             shown == ToSystem(m.activity, "none", m.state)
  <2>1. messages # << >> /\ m \in Messages /\ m.to = "service"
    BY <1>10 DEF HandleConnect, Typed
  <2>2. /\ shown \in Messages /\ Shown(shown)
        /\ m \in ConnectAnswers(shown.activity)
    BY <2>1 DEF ToSystem, Shown, ConnectAnswers, Messages, Errors
  <2>3. \/ Crash
        \/ messages' = Append(Tail(messages), shown) /\ UNCHANGED <<queue, session>>
        \/ messages' = Tail(messages) /\ UNCHANGED <<queue, session>>
    BY <1>10 DEF HandleConnect
  <2> HIDE DEF shown
  <2> QED BY <1>1, <2>1, <2>2, <2>3 DEF MessageForwarded, MessageTaken
<1> QED BY <1>2, <1>3, <1>4, <1>6, <1>7, <1>8, <1>9, <1>10 DEF Handle

(* Every step of the other threads is one. *)
LEMMA OthersMove ==
    ASSUME Typed,
           \/ \E a \in Activities : FindTimeout(a) \/ Find(a) \/ Receive(a)
           \/ Collect \/ Start \/ Session \/ Press
           \/ \E url \in Addresses \ {where} : Move(url)
    PROVE  Moved
<1> USE DEF taskVars, Moved
<1>1. ASSUME NEW a \in Activities, FindTimeout(a) PROVE Moved
  <2> DEFINE m == ToSystem(a, "find", {})
  <2>1. m \in Messages /\ Shown(m) /\ m.activity = a /\ m.state = {}
    BY DEF ToSystem, Shown, Messages, Errors
  <2>2. messages' = Append(messages, m) /\ finder[a].timeout /\ UNCHANGED <<queue, session>>
    BY <1>1 DEF FindTimeout, Send
  <2> HIDE DEF m
  <2> QED BY <2>1, <2>2 DEF MessageShown
<1>2. ASSUME NEW a \in Activities, Report(a) PROVE Moved
  <2> DEFINE m == ToSystem(a, "none", {})
  <2>1. m \in Messages /\ Shown(m) /\ m.activity = a /\ m.state = {}
    BY DEF ToSystem, Shown, Messages, Errors
  <2>2. /\ messages' = Append(messages, m) /\ UNCHANGED <<queue, session>>
        /\ finder[a].thread = "report"
    BY <1>2 DEF Report, Send, Finding
  <2> HIDE DEF m
  <2> QED BY <2>1, <2>2 DEF MessageShown
<1>3. ASSUME NEW a \in Activities, Bind(a) \/ BindFails(a) \/ Receive(a) \/ RemoveTimeout(a)
      PROVE  Moved
  BY <1>3 DEF Bind, BindFails, Receive, RemoveTimeout, FinderUnchanged
<1>4. CASE Collect
  BY <1>4 DEF Collect, FinderUnchanged
<1>5. CASE Start
  BY <1>5 DEF Start, TaskStarted
<1>6. CASE GetState
  <2>1. "none" \in Errors \ {"find"} /\ on \in BOOLEAN
    BY DEF Errors, Typed
  <2> QED BY <1>6, <2>1 DEF GetState, Answered
<1>7. CASE SetState
  <2>1. session'.task = session.task
    BY <1>7 DEF SetState, Typed, Sessions
  <2> QED BY <1>7, <2>1 DEF SetState, TaskGoesOn
<1>8. CASE SetAnswered
  <2>1. "none" \in Errors \ {"find"} /\ session.task.value \in BOOLEAN
    BY DEF Errors, Typed, Sessions, TaskRecords
  <2> QED BY <1>8, <2>1 DEF SetAnswered, Answered
<1>9. CASE Retry
  <2>1. "network" \in Errors \ {"find"}
    BY DEF Errors
  <2>2. CASE Answer("network", FALSE)
    BY <1>9, <2>1, <2>2 DEF Retry, Answered
  <2>3. CASE session' = [session EXCEPT !.pc = "try", !.tries = @ - 1] /\ UNCHANGED messages
    <3>1. session'.task = session.task
      BY <2>3 DEF Typed, Sessions
    <3> QED BY <1>9, <2>3, <3>1 DEF Retry, TaskGoesOn
  <2> QED BY <1>9, <2>2, <2>3 DEF Retry
<1>10. CASE Press
  BY <1>10 DEF Press
<1>11. ASSUME NEW url, Move(url) PROVE Moved
  BY <1>11 DEF Move
<1> QED BY <1>1, <1>2, <1>3, <1>4, <1>5, <1>6, <1>7, <1>8, <1>9, <1>10, <1>11
        DEF Find, Session

(* A move keeps the one token of each service where it was, or hands it on. *)
LEMMA TokensKept ==
    ASSUME Typed, Moved, NEW a \in Activities, ConnectsOnce(a)
    PROVE  ConnectsOnce(a)' /\ (Connecting(a)' => Connecting(a))
<1> DEFINE T == ConnectTasks(a)
           A == ConnectAnswers(a)
<1>1. queue \in Seq(TaskRecords) /\ messages \in Seq(Messages)
  BY DEF Typed
<1>2. /\ OccursOnce(queue, T) /\ OccursOnce(messages, A)
      /\ Occurs(queue, T) => session.task \notin T /\ ~Occurs(messages, A)
      /\ session.task \in T => ~Occurs(messages, A)
  BY DEF ConnectsOnce, InQueue, InSession, InMessages
<1>3. SUFFICES /\ OccursOnce(queue', T) /\ OccursOnce(messages', A)
               /\ Occurs(queue', T) => session'.task \notin T /\ ~Occurs(messages', A)
               /\ session'.task \in T => ~Occurs(messages', A)
               /\ Occurs(queue', T) \/ session'.task \in T \/ Occurs(messages', A) =>
                     Occurs(queue, T) \/ session.task \in T \/ Occurs(messages, A)
  BY DEF ConnectsOnce, Connecting, InQueue, InSession, InMessages, ConnectTasks,
         ConnectAnswers
<1>4. ASSUME NEW m, Shown(m) PROVE m \notin A
  BY <1>4 DEF Shown, ConnectAnswers
<1> HIDE DEF A
<1>5. CASE UNCHANGED <<queue, session, messages>>
  BY <1>2, <1>5
<1>6. ASSUME NEW task \in TaskRecords, task.kind = "set", QueueGrows(task)
      PROVE  /\ OccursOnce(queue', T)
             /\ Occurs(queue', T) => Occurs(queue, T)
             /\ session' = session /\ messages' = messages
  <2>1. task \notin T
    BY <1>6 DEF ConnectTasks
  <2> HIDE DEF T
  <2> QED BY <1>1, <1>2, <1>6, <2>1, OccursInAppend DEF QueueGrows
<1> HIDE DEF T
<1>7. CASE \E task \in TaskRecords : task.kind = "set" /\ QueueGrows(task)
  <2>1. /\ OccursOnce(queue', T)
        /\ Occurs(queue', T) => Occurs(queue, T)
        /\ session' = session /\ messages' = messages
    BY <1>6, <1>7
  <2> QED BY <1>2, <2>1
<1>8. CASE \E m \in Messages : MessageShown(m)
  <2>1. PICK m \in Messages : MessageShown(m)
    BY <1>8
  <2>2. /\ OccursOnce(messages', A)
        /\ Occurs(messages', A) => Occurs(messages, A)
    BY <1>1, <1>2, <1>4, <2>1, OccursInAppend DEF MessageShown
  <2> QED BY <1>2, <2>1, <2>2 DEF MessageShown
<1>9. CASE MessageTaken
  <2>1. /\ OccursOnce(messages', A)
        /\ Occurs(messages', A) => Occurs(messages, A)
    BY <1>1, <1>2, <1>9, OccursInTail DEF MessageTaken
  <2> QED BY <1>2, <1>9, <2>1 DEF MessageTaken
<1>10. CASE \E m \in Messages : MessageForwarded(m)
  <2>1. PICK m \in Messages : MessageForwarded(m)
    BY <1>10
  <2> DEFINE t == Tail(messages)
  <2>2. messages # << >> /\ messages' = Append(t, m) /\ m \notin A /\ t \in Seq(Messages)
    BY <1>1, <1>4, <2>1 DEF MessageForwarded
  <2>3. OccursOnce(t, A) /\ (Occurs(t, A) => Occurs(messages, A))
    BY <1>1, <1>2, <2>2, OccursInTail
  <2> HIDE DEF t
  <2>4. /\ OccursOnce(messages', A)
        /\ Occurs(messages', A) => Occurs(messages, A)
    BY <2>2, <2>3, OccursInAppend
  <2> QED BY <1>2, <2>1, <2>4 DEF MessageForwarded
<1>11. CASE TaskStarted
  <2>1. /\ OccursOnce(queue', T)
        /\ Occurs(queue, T) <=> session'.task \in T \/ Occurs(queue', T)
        /\ ~(session'.task \in T /\ Occurs(queue', T))
    BY <1>1, <1>2, <1>11, OccursInTail DEF TaskStarted
  <2> QED BY <1>2, <1>11, <2>1 DEF TaskStarted
<1>12. CASE TaskGoesOn
  BY <1>2, <1>12 DEF TaskGoesOn
<1>13. CASE Answered
  <2>1. PICK what \in Errors \ {"find"}, state \in BOOLEAN : Answer(what, state)
    BY <1>13 DEF Answered
  <2>2. queue' = queue /\ session'.task \notin T
    BY <1>13, <2>1, ActivitiesAre DEF Answered, Answer, Idle, NoTask, T, ConnectTasks
  <2>3. CASE session.task.for = 0
    <3>1. messages' = messages
      BY <2>1, <2>3 DEF Answer
    <3> QED BY <1>2, <2>2, <3>1
  <2>4. CASE session.task.for # 0
    <3> DEFINE m == [to |-> IF session.task.kind = "connect" THEN "service" ELSE "system",
                     activity |-> session.task.for, what |-> what, state |-> {state}]
    <3>1. messages' = Append(messages, m)
      BY <2>1, <2>4 DEF Answer, Send
    <3>2. session.task \in TaskRecords
      BY DEF Typed, Sessions
    <3>3. m \in A => session.task \in T
      BY <3>2 DEF A, ConnectAnswers, T, ConnectTasks
    <3> HIDE DEF m
    <3>4. /\ Occurs(messages', A) <=> Occurs(messages, A) \/ m \in A
          /\ OccursOnce(messages', A)
      BY <1>1, <1>2, <3>1, <3>3, OccursInAppend
    <3> QED BY <1>2, <2>2, <3>3, <3>4
  <2> QED BY <2>3, <2>4
<1> QED BY <1>5, <1>7, <1>8, <1>9, <1>10, <1>11, <1>12, <1>13 DEF Moved

(* A connection brings the token of a service that has none. *)
LEMMA ConnectTokens ==
    ASSUME Typed, Connections, Connect, NEW a \in Activities
    PROVE  /\ ConnectsOnce(a)'
           /\ Connecting(a)' => Connecting(a) \/ (a = activity /\ saved.url # NoAddress)
<1> DEFINE T == ConnectTasks(a)
           A == ConnectAnswers(a)
           task == [kind |-> "connect", for |-> activity, value |-> FALSE, url |-> saved.url]
<1>1. queue \in Seq(TaskRecords)
  BY DEF Typed
<1>2. /\ OccursOnce(queue, T) /\ OccursOnce(messages, A)
      /\ Occurs(queue, T) => session.task \notin T /\ ~Occurs(messages, A)
      /\ session.task \in T => ~Occurs(messages, A)
  BY DEF Connections, ConnectsOnce, InQueue, InSession, InMessages
<1>3. SUFFICES /\ OccursOnce(queue', T) /\ OccursOnce(messages', A)
               /\ Occurs(queue', T) => session'.task \notin T /\ ~Occurs(messages', A)
               /\ session'.task \in T => ~Occurs(messages', A)
               /\ Occurs(queue', T) \/ session'.task \in T \/ Occurs(messages', A) =>
                     \/ Occurs(queue, T) \/ session.task \in T \/ Occurs(messages, A)
                     \/ a = activity /\ saved.url # NoAddress
  BY DEF ConnectsOnce, Connecting, InQueue, InSession, InMessages, ConnectTasks,
         ConnectAnswers
<1>4. a = activity =>
          ~Occurs(queue, T) /\ session.task \notin T /\ ~Occurs(messages, A)
  <2>1. a = activity => ~Connecting(a)
    <3>1. BoundFirst(a) /\ a \in Nat /\ ~system.bound
      BY ActivitiesAre DEF Connections, Connect
    <3> QED BY <3>1 DEF BoundFirst
  <2> QED BY <2>1 DEF Connecting, InQueue, InSession, InMessages
<1>5. task \in T => a = activity
  BY DEF ConnectTasks
<1>6. /\ UNCHANGED <<session, messages>>
      /\ UNCHANGED queue \/ (saved.url # NoAddress /\ queue' = Append(queue, task))
  BY DEF Connect
<1> HIDE DEF T, A, task
<1>7. CASE UNCHANGED queue
  BY <1>2, <1>6, <1>7
<1>8. CASE saved.url # NoAddress /\ queue' = Append(queue, task)
  <2>1. /\ Occurs(queue', T) <=> Occurs(queue, T) \/ task \in T
        /\ OccursOnce(queue', T)
    BY <1>1, <1>2, <1>4, <1>5, <1>8, OccursInAppend
  <2> QED BY <1>2, <1>4, <1>5, <1>6, <1>8, <2>1
<1> QED BY <1>6, <1>7, <1>8

(* The answer that starts a search is taken. *)
LEMMA AnswerTaken ==
    ASSUME Typed, NEW a \in Activities, ConnectsOnce(a),
           MessageTaken, Head(messages) \in ConnectAnswers(a)
    PROVE  Connecting(a) /\ ~Connecting(a)'
<1> DEFINE T == ConnectTasks(a)
           A == ConnectAnswers(a)
<1>1. /\ OccursOnce(messages, A)
      /\ Occurs(queue, T) => ~Occurs(messages, A)
      /\ session.task \in T => ~Occurs(messages, A)
  BY DEF ConnectsOnce, InQueue, InSession, InMessages
<1> HIDE DEF T
<1>2. messages \in Seq(Messages) /\ messages # << >> /\ messages' = Tail(messages)
  BY DEF Typed, MessageTaken
<1>3. Head(messages) \in A
  OBVIOUS
<1> HIDE DEF A
<1>4. Occurs(messages, A) /\ ~Occurs(messages', A)
  BY <1>1, <1>2, <1>3, OccursInTail
<1>5. ~Occurs(queue', T) /\ session'.task \notin T
  BY <1>1, <1>4 DEF MessageTaken
<1> QED BY <1>4, <1>5 DEF Connecting, InQueue, InSession, InMessages, T, A, ConnectTasks,
           ConnectAnswers

-----------------------------------------------------------------------------
(* Connections *)

\* The two ways to start a finder.
Starts(a) ==
    /\ StartFinder(a)
    /\ \/ Connect /\ a = activity /\ saved.url = NoAddress
       \/ ~Connect /\ MessageTaken /\ Head(messages) \in ConnectAnswers(a)

\* What a step does to a finder.
Turn(a) ==
    \/ finder'[a] = finder[a]
    \/ Starts(a)
    \/ PostTimeout /\ a = starting
    \/ FindTimeout(a) \/ Find(a) \/ Receive(a)

\* What a step does to the rest.
Frame ==
    /\ raced => raced'
    /\ unsafe => unsafe'
    /\ starting' \in {starting, 0} \/ \E a \in Activities : starting' = a /\ Starts(a)
    /\ \/ activity' = activity /\ (system.bound => system'.bound)
       \/ Reopen /\ activity' = activity + 1
    /\ wrote \subseteq wrote'

\* For a crash, and for whatever else leaves these variables alone.
Still == UNCHANGED <<finder, starting, raced, unsafe, activity, wrote, system>>

LEMMA StillIsFrame == ASSUME Still PROVE Frame /\ \A b \in Activities : Turn(b)
BY DEF Still, Frame, Turn

(* What the main thread does to finders. *)
LEMMA MainTurns ==
    ASSUME Typed, ~Connect,
           \/ PostTimeout \/ Navigate \/ RequestPlugSwitch \/ Handle
           \/ \E name \in NewNames : ApplySettings(name)
           \/ \E value \in Switches : OnStartCommand(value)
    PROVE  Frame /\ \A b \in Activities : Turn(b)
<1> USE DEF findVars, savedVars, screenVars
<1>1. ASSUME Crash PROVE Frame /\ \A b \in Activities : Turn(b)
  BY <1>1, StillIsFrame DEF Crash, Still
<1>2. CASE PostTimeout
  <2>1. Frame
    BY <1>2 DEF PostTimeout, Frame
  <2>2. ASSUME NEW b \in Activities, b # starting PROVE finder'[b] = finder[b]
    BY <1>2, <2>2 DEF PostTimeout, Typed
  <2> QED BY <1>2, <2>1, <2>2 DEF Turn
<1>3. CASE Navigate
  <2>1. CASE Quietly
    BY <2>1 DEF Quietly, NavigationUnchanged, SameSystem, Frame, Turn
  <2>2. CASE Reopen
    BY <2>2 DEF Reopen, Frame, Turn
  <2>3. CASE Restore
    BY <2>3 DEF Restore, Frame, Turn
  <2> QED BY <1>1, <1>3, <2>1, <2>2, <2>3, NavigateSteps
<1>4. CASE RequestPlugSwitch
  BY <1>4, StillIsFrame DEF RequestPlugSwitch, Still
<1>6. ASSUME NEW name \in NewNames, ApplySettings(name)
      PROVE  Frame /\ \A b \in Activities : Turn(b)
  <2>1. system' = [system EXCEPT !.data.name = name]
    BY <1>6 DEF ApplySettings
  <2>2. system'.bound = system.bound
    BY <2>1 DEF Typed, WemoSystems
  <2> QED BY <1>6, <2>2 DEF ApplySettings, Frame, Turn
<1>7. ASSUME NEW value \in Switches, OnStartCommand(value)
      PROVE  Frame /\ \A b \in Activities : Turn(b)
  BY <1>7, StillIsFrame DEF OnStartCommand, Still
<1>8. CASE HandleSystem /\ ~Crash
  <2>1. system' = Responded(system, Head(messages))
    BY <1>8 DEF HandleSystem
  <2>2. system'.bound = system.bound
    BY <2>1 DEF Responded, Told, Typed, WemoSystems
  <2> QED BY <1>8, <2>2 DEF HandleSystem, Frame, Turn
<1>9. CASE HandleGone
  BY <1>1, <1>9, StillIsFrame DEF HandleGone, Still
<1>10. CASE HandleConnect
  <2> DEFINE a == Head(messages).activity
  <2>1. messages # << >> /\ Head(messages) \in Messages /\ a \in Activities
    <3>1. messages # << >>
      BY <1>10 DEF HandleConnect
    <3>2. Head(messages) \in Messages
      BY <3>1 DEF Typed
    <3> QED BY <3>1, <3>2 DEF Messages
  <2>2. Head(messages) \in ConnectAnswers(a)
    BY <1>10, <2>1 DEF HandleConnect, ConnectAnswers
  <2>3. CASE UNCHANGED <<savedVars, findVars, screenVars, starting>>
    BY <2>3, StillIsFrame DEF Still
  <2>4. CASE /\ StartFinder(a) /\ messages' = Tail(messages)
             /\ UNCHANGED <<savedVars, raced, taskVars, screenVars>>
    <3>1. MessageTaken
      BY <2>1, <2>4 DEF MessageTaken, taskVars
    <3>2. Starts(a) /\ starting' = a
      BY <2>2, <2>4, <3>1 DEF Starts, StartFinder
    <3>3. Frame
      BY <2>1, <2>4, <3>2 DEF Frame
    <3>4. ASSUME NEW b \in Activities, b # a PROVE finder'[b] = finder[b]
      BY <2>4, <3>4 DEF StartFinder, Typed
    <3> QED BY <3>2, <3>3, <3>4 DEF Turn
  <2> QED BY <1>1, <1>10, <2>3, <2>4 DEF HandleConnect
<1> QED BY <1>1, <1>2, <1>3, <1>4, <1>6, <1>7, <1>8, <1>9, <1>10 DEF Handle

(* What the connection of a service, and the other threads, do to finders. *)
LEMMA OthersTurn ==
    ASSUME Typed,
           \/ Connect
           \/ \E a \in Activities : FindTimeout(a) \/ Find(a) \/ Receive(a)
           \/ Collect \/ Start \/ Session \/ Press
           \/ \E url \in Addresses \ {where} : Move(url)
    PROVE  Frame /\ \A b \in Activities : Turn(b)
<1> USE DEF savedVars, screenVars
<1>1. CASE Connect
  <2>1. system' = [system EXCEPT !.bound = TRUE]
    BY <1>1 DEF Connect
  <2>2. activity' = activity /\ activity \in Activities /\ system'.bound
    BY <1>1, <2>1 DEF Connect, Typed, WemoSystems
  <2>3. CASE UNCHANGED <<finder, starting>>
    BY <1>1, <2>2, <2>3 DEF Connect, Frame, Turn
  <2>4. CASE saved.url = NoAddress /\ StartFinder(activity)
    <3>1. Starts(activity) /\ starting' = activity
      BY <1>1, <2>4 DEF Starts, StartFinder
    <3>2. Frame
      BY <1>1, <2>2, <3>1 DEF Connect, Frame
    <3>3. ASSUME NEW b \in Activities, b # activity PROVE finder'[b] = finder[b]
      BY <2>4, <3>3 DEF StartFinder, Typed
    <3> QED BY <3>1, <3>2, <3>3 DEF Turn
  <2> QED BY <1>1, <2>3, <2>4 DEF Connect
<1>2. ASSUME NEW a \in Activities, FindTimeout(a) \/ Find(a) \/ Receive(a)
      PROVE  Frame /\ \A b \in Activities : Turn(b)
  <2>1. UNCHANGED <<starting, unsafe, activity, system>>
    BY <1>2 DEF FindTimeout, Find, Bind, BindFails, Report, RemoveTimeout, Receive,
                FinderUnchanged
  <2>2. wrote \subseteq wrote' /\ (raced => raced')
    <3>1. CASE FindTimeout(a)
      BY <3>1 DEF FindTimeout
    <3>2. CASE Report(a)
      BY <3>2 DEF Report
    <3>3. CASE Bind(a) \/ BindFails(a) \/ RemoveTimeout(a) \/ Receive(a)
      BY <3>3 DEF Bind, BindFails, RemoveTimeout, Receive
    <3> QED BY <1>2, <3>1, <3>2, <3>3 DEF Find
  <2>3. ASSUME NEW b \in Activities, b # a PROVE finder'[b] = finder[b]
    BY <1>2, <2>3 DEF FindTimeout, Find, Bind, BindFails, Report, RemoveTimeout, Receive,
                      Typed
  <2> QED BY <1>2, <2>1, <2>2, <2>3 DEF Frame, Turn
<1>3. CASE Collect
  BY <1>3, StillIsFrame DEF Collect, FinderUnchanged, Still
<1>4. CASE Start \/ Session
  BY <1>4, StillIsFrame DEF Start, Session, GetState, SetState, SetAnswered, Retry,
     TaskUnchanged, findVars, Still
<1>5. CASE Press
  BY <1>5, StillIsFrame DEF Press, findVars, Still
<1>6. ASSUME NEW url, Move(url) PROVE Frame /\ \A b \in Activities : Turn(b)
  BY <1>6, StillIsFrame DEF Move, findVars, Still
<1> QED BY <1>1, <1>2, <1>3, <1>4, <1>5, <1>6

(* Once a search has begun, it has for ever. *)
LEMMA SearchBegins ==
    ASSUME Typed, NEW a \in Activities, Turn(a)
    PROVE  /\ Searching(a) => Searching(a)'
           /\ Searching(a)' => Searching(a) \/ Starts(a)
           /\ finder'[a].timeout => finder[a].timeout \/ a = starting
<1>1. finder \in [Activities -> Finders] /\ finder[a] \in Finders
  BY DEF Typed
<1>2. CASE finder'[a] = finder[a]
  BY <1>2 DEF Searching
<1>3. CASE Starts(a)
  <2>1. finder'[a] = [finder[a] EXCEPT !.thread = "bind"]
    BY <1>1, <1>3 DEF Starts, StartFinder
  <2> QED BY <1>1, <1>3, <2>1 DEF Searching, Finders
<1>4. CASE PostTimeout /\ a = starting
  <2>1. finder'[a] = [finder[a] EXCEPT !.timeout = TRUE]
    BY <1>1, <1>4 DEF PostTimeout
  <2> QED BY <1>1, <1>4, <2>1 DEF Searching, Finders
<1>5. CASE FindTimeout(a)
  <2>1. finder'[a] = [finder[a] EXCEPT !.timeout = FALSE]
    BY <1>1, <1>5 DEF FindTimeout
  <2> QED BY <1>1, <2>1 DEF Searching, Finders
<1>6. CASE Find(a) \/ Receive(a)
  <2>1. finder[a].thread # "new" /\ finder'[a].thread # "new"
    BY <1>1, <1>6 DEF Find, Bind, BindFails, Report, RemoveTimeout, Receive, Finding,
                      Finders
  <2>2. finder'[a].timeout => finder[a].timeout
    BY <1>1, <1>6 DEF Find, Bind, BindFails, Report, RemoveTimeout, Receive, Finders
  <2> QED BY <2>1, <2>2 DEF Searching
<1> QED BY <1>2, <1>3, <1>4, <1>5, <1>6 DEF Turn

(* Every step is a move, but for the connection of a service, and turns finders. *)
LEMMA NextFrame ==
    ASSUME Typed, Next
    PROVE  /\ Frame /\ \A b \in Activities : Turn(b)
           /\ Connect \/ Moved
<1>1. CASE \E a \in Activities : FindTimeout(a) \/ Find(a) \/ Receive(a)
  BY <1>1, OthersTurn, OthersMove
<1>2. CASE \/ PostTimeout \/ Navigate \/ RequestPlugSwitch \/ Handle
           \/ \E name \in NewNames : ApplySettings(name)
           \/ \E value \in Switches : OnStartCommand(value)
  <2>1. CASE Connect
    BY <2>1, OthersTurn
  <2> QED BY <1>2, <2>1, MainTurns, MainMoves
<1>3. CASE Collect \/ Start \/ Session \/ Press \/ \E url \in Addresses \ {where} : Move(url)
  BY <1>3, OthersTurn, OthersMove
<1>4. CASE Connect
  BY <1>4, OthersTurn
<1> QED BY <1>1, <1>2, <1>3, <1>4 DEF Next

\* A service connects or searches.
Active(a) == Connecting(a) \/ Searching(a)

(* Only a connection makes a service active, and it does so once. *)
LEMMA NextActive ==
    ASSUME Typed, Connections, Next, NEW a \in Activities
    PROVE  /\ ConnectsOnce(a)'
           /\ Active(a)' => Active(a) \/ (Connect /\ a = activity)
           /\ ~(Connecting(a)' /\ Searching(a)')
<1>1. ConnectsOnce(a) /\ BoundFirst(a)
  BY DEF Connections
<1>2. Turn(a) /\ (Connect \/ Moved)
  BY NextFrame
<1>3. /\ Searching(a)' => Searching(a) \/ Starts(a)
      /\ ~(Connecting(a) /\ Searching(a))
  BY <1>1, <1>2, SearchBegins DEF BoundFirst
<1>4. CASE Connect
  <2>1. /\ ConnectsOnce(a)'
        /\ Connecting(a)' => Connecting(a) \/ (a = activity /\ saved.url # NoAddress)
    BY <1>4, ConnectTokens
  <2>2. Starts(a) => a = activity /\ saved.url = NoAddress
    BY <1>4 DEF Starts
  <2>3. a = activity => ~Connecting(a) /\ ~Searching(a)
    <3>1. ~system.bound /\ a \in Nat
      BY <1>4, ActivitiesAre DEF Connect
    <3> QED BY <1>1, <3>1 DEF BoundFirst
  <2> QED BY <1>3, <1>4, <2>1, <2>2, <2>3 DEF Active
<1>5. CASE ~Connect
  <2>1. ConnectsOnce(a)' /\ (Connecting(a)' => Connecting(a))
    BY <1>1, <1>2, <1>5, TokensKept
  <2>2. Starts(a) => Connecting(a) /\ ~Connecting(a)'
    <3>1. Starts(a) => MessageTaken /\ Head(messages) \in ConnectAnswers(a)
      BY <1>5 DEF Starts
    <3> QED BY <1>1, <3>1, AnswerTaken
  <2> QED BY <1>3, <2>1, <2>2 DEF Active
<1> QED BY <1>4, <1>5

LEMMA NextConnections == ASSUME Typed, Connections, Next PROVE Connections'
<1>1. /\ Frame /\ \A b \in Activities : Turn(b)
      /\ activity \in Nat /\ starting \in 0 .. MaxActivities
  BY NextFrame, ActivitiesAre DEF Typed
<1>2. starting # 0 => starting \in Activities /\ Searching(starting)
  BY <1>1, ActivitiesAre DEF Connections
<1>3. ASSUME NEW a \in Activities
      PROVE  ConnectsOnce(a)' /\ BoundFirst(a)'
  <2>1. /\ ConnectsOnce(a)'
        /\ Active(a)' => Active(a) \/ (Connect /\ a = activity)
        /\ ~(Connecting(a)' /\ Searching(a)')
    BY NextActive
  <2>2. /\ Active(a) => a < activity \/ (a = activity /\ system.bound)
        /\ finder[a].timeout => Searching(a)
    BY DEF Connections, BoundFirst, Active
  <2>3. Connect => activity' = activity /\ system'.bound
    BY DEF Connect, screenVars, Typed, WemoSystems
  <2>4. Active(a)' => a < activity' \/ (a = activity' /\ system'.bound)
    BY <1>1, <2>1, <2>2, <2>3, ActivitiesAre DEF Frame
  <2>5. finder'[a].timeout => Searching(a)'
    <3>1. /\ Searching(a) => Searching(a)'
          /\ finder'[a].timeout => finder[a].timeout \/ a = starting
      BY <1>1, SearchBegins
    <3>2. a = starting => Searching(a)
      BY <1>2, ActivitiesAre
    <3> QED BY <2>2, <3>1, <3>2
  <2> QED BY <2>1, <2>4, <2>5 DEF BoundFirst, Active
<1>4. starting' # 0 => Searching(starting)'
  <2>1. CASE starting' = starting /\ starting # 0
    <3>1. Searching(starting)'
      BY <1>1, <1>2, <2>1, SearchBegins
    <3> QED BY <2>1, <3>1
  <2>2. ASSUME NEW a \in Activities, starting' = a, Starts(a)
        PROVE  Searching(starting)'
    <3>1. finder'[a] = [finder[a] EXCEPT !.thread = "bind"]
      BY <2>2 DEF Starts, StartFinder, Typed
    <3>2. finder'[a].thread = "bind"
      BY <3>1 DEF Typed, Finders
    <3> QED BY <2>2, <3>2 DEF Searching
  <2> QED BY <1>1, <2>1, <2>2 DEF Frame
<1> QED BY <1>3, <1>4 DEF Connections

(* A search that has ended has no timeout, unless the two raced. *)
LEMMA NextSearches ==
    ASSUME Typed, Connections, Searches, Next
    PROVE  Searches'
<1>1. /\ Frame /\ \A b \in Activities : Turn(b)
      /\ finder \in [Activities -> Finders]
  BY NextFrame DEF Typed
<1> SUFFICES ASSUME NEW a \in Activities
             PROVE  /\ finder'[a].found # NoAddress =>
                          finder'[a].thread \in {"report", "remove", "ended"}
                    /\ finder'[a].thread = "ended" /\ finder'[a].timeout =>
                          raced' /\ starting' # a
  BY DEF Searches
<1>2. /\ finder[a] \in Finders
      /\ finder[a].found # NoAddress => finder[a].thread \in {"report", "remove", "ended"}
      /\ finder[a].thread = "ended" /\ finder[a].timeout => raced /\ starting # a
  BY <1>1 DEF Searches
<1>3. CASE finder'[a] = finder[a]
  <2>1. ASSUME starting' = a, starting # a, finder[a].thread = "ended" PROVE FALSE
    <3>1. Starts(a)
      BY <1>1, <2>1, ActivitiesAre DEF Frame
    <3> QED BY <2>1, <3>1 DEF Starts, StartFinder
  <2> QED BY <1>1, <1>2, <1>3, <2>1 DEF Frame
<1>4. CASE Starts(a)
  <2>1. /\ finder'[a] = [finder[a] EXCEPT !.thread = "bind"]
        /\ finder[a].thread = "new"
    BY <1>1, <1>4 DEF Starts, StartFinder
  <2>2. finder'[a].found = finder[a].found /\ finder'[a].thread = "bind"
    BY <1>2, <2>1 DEF Finders
  <2> QED BY <1>2, <2>1, <2>2
<1>5. CASE PostTimeout /\ a = starting
  <2>1. /\ finder'[a] = [finder[a] EXCEPT !.timeout = TRUE]
        /\ starting' = 0
    BY <1>1, <1>5 DEF PostTimeout
  <2>2. finder[a].thread = "ended" => raced'
    BY <1>5 DEF PostTimeout
  <2>3. finder'[a].found = finder[a].found /\ finder'[a].thread = finder[a].thread
    BY <1>2, <2>1 DEF Finders
  <2>4. starting' # a
    BY <2>1, ActivitiesAre
  <2> QED BY <1>2, <2>2, <2>3, <2>4
<1>6. CASE FindTimeout(a)
  <2>1. finder'[a] = [finder[a] EXCEPT !.timeout = FALSE]
    BY <1>1, <1>6 DEF FindTimeout
  <2>2. /\ finder'[a].found = finder[a].found /\ finder'[a].thread = finder[a].thread
        /\ ~finder'[a].timeout
    BY <1>2, <2>1 DEF Finders
  <2> QED BY <1>2, <2>2
<1>7. CASE Bind(a) \/ BindFails(a) \/ Receive(a) \/ Report(a)
  <2>1. /\ finder'[a].thread \in {"receive", "remove", "report"}
        /\ \/ finder'[a].thread \in {"remove", "report"}
           \/ finder'[a].found = finder[a].found /\ finder[a].thread = "bind"
    BY <1>1, <1>2, <1>7 DEF Bind, BindFails, Receive, Report, Finding, Finders
  <2> QED BY <1>2, <2>1
<1>8. CASE RemoveTimeout(a)
  <2>1. finder'[a].thread = "ended" /\ ~finder'[a].timeout
    BY <1>1, <1>2, <1>8 DEF RemoveTimeout, Finders
  <2> QED BY <2>1
<1> QED BY <1>1, <1>3, <1>4, <1>5, <1>6, <1>7, <1>8 DEF Turn, Find

-----------------------------------------------------------------------------
(* Crashes *)

LEMMA NextCrashes ==
    ASSUME Typed, Connections, ~unsafe => Owned /\ LeftAlone, CrashesOnlyIfUnsafe, Next
    PROVE  CrashesOnlyIfUnsafe'
<1>1. crashed = FALSE
  BY CrashedIsLast DEF Typed
<1>2. ASSUME Crash, unsafe \/ system.data.url = NoAddress PROVE CrashesOnlyIfUnsafe'
  BY <1>2 DEF Crash, screenVars, CrashesOnlyIfUnsafe
<1>3. ASSUME messages # << >>, ~unsafe
      PROVE  Head(messages) \in Messages /\ Head(messages).activity = activity
  <2>1. messages \in Seq({m \in Messages : m.activity = activity})
    BY <1>3 DEF Owned
  <2> QED BY <1>3, <2>1
<1>4. CASE crashed' = crashed
  BY <1>1, <1>4 DEF CrashesOnlyIfUnsafe
<1>5. CASE Navigate
  <2>1. CASE Quietly \/ Reopen
    BY <1>4, <2>1 DEF Quietly, NavigationUnchanged, Reopen
  <2>2. CASE CreateView /\ Crash
    <3>1. system.data.url = NoAddress
      BY <1>1, <2>2 DEF CreateView, NavigationUnchanged, Crash
    <3> QED BY <1>2, <2>2, <3>1
  <2>3. CASE Restore
    BY <2>3 DEF Restore, CrashesOnlyIfUnsafe
  <2> QED BY <1>5, <2>1, <2>2, <2>3, NavigateSteps
<1>6. CASE HandleGone
  <2>1. CASE Crash
    BY <1>2, <1>3, <1>6, <2>1 DEF HandleGone
  <2> QED BY <1>4, <1>6, <2>1 DEF HandleGone
<1>7. CASE HandleConnect
  <2> DEFINE m == Head(messages)
             a == m.activity
  <2>1. CASE Crash
    <3>1. CASE unsafe
      BY <1>2, <2>1, <3>1
    <3>2. CASE ~unsafe
      <4>1. messages # << >> /\ m \in Messages /\ a = activity /\ m.to = "service"
        BY <1>3, <1>7, <3>2 DEF HandleConnect
      <4>2. activity \in Activities /\ ~crashed'
        <5>1. activity \in Activities
          BY DEF Typed
        <5>2. m \in ConnectAnswers(activity)
          BY <4>1 DEF ConnectAnswers
        <5>3. messages \in Seq(Messages)
          BY DEF Typed
        <5>4. InMessages(activity)
          <6> HIDE DEF m
          <6>1. Head(messages) \in ConnectAnswers(activity)
            BY <5>2 DEF m
          <6> QED BY <4>1, <5>3, <6>1, OccursInTail DEF InMessages
        <5>5. ~Searching(activity)
          BY <5>1, <5>4 DEF Connections, BoundFirst, Connecting
        <5>6. finder[a].thread = "new"
          BY <4>1, <5>5 DEF Searching
        <5> QED BY <1>1, <1>7, <4>1, <5>1, <5>6 DEF HandleConnect
      <4> QED BY <4>2 DEF CrashesOnlyIfUnsafe
    <3> QED BY <3>1, <3>2
  <2> QED BY <1>4, <1>7, <2>1 DEF HandleConnect
<1>8. ASSUME ~Navigate, ~Handle PROVE crashed' = crashed
  <2>1. CASE PostTimeout \/ Connect \/ RequestPlugSwitch
    BY <2>1 DEF PostTimeout, Connect, RequestPlugSwitch
  <2>2. CASE \/ \E name \in NewNames : ApplySettings(name)
             \/ \E value \in Switches : OnStartCommand(value)
    BY <2>2 DEF ApplySettings, OnStartCommand
  <2>3. CASE \E a \in Activities : FindTimeout(a) \/ Find(a) \/ Receive(a)
    BY <2>3 DEF FindTimeout, Find, Bind, BindFails, Report, RemoveTimeout, Receive,
                FinderUnchanged
  <2>4. CASE Collect \/ Start \/ Session
    BY <2>4 DEF Collect, FinderUnchanged, Start, Session, GetState, SetState, SetAnswered,
                Retry, TaskUnchanged
  <2>5. CASE Press \/ \E url \in Addresses \ {where} : Move(url)
    BY <2>5 DEF Press, Move
  <2> QED BY <1>8, <2>1, <2>2, <2>3, <2>4, <2>5 DEF Next
<1>9. CASE HandleSystem
  <2>1. CASE Crash
    <3>1. messages # << >> /\ system.screen = "left"
      BY <1>1, <1>9, <2>1 DEF HandleSystem, TurnFails, Crash
    <3>2. unsafe
      BY <3>1 DEF LeftAlone, Awaited
    <3> QED BY <1>2, <2>1, <3>2
  <2> QED BY <1>4, <1>9, <2>1 DEF HandleSystem
<1> QED BY <1>4, <1>5, <1>6, <1>7, <1>8, <1>9 DEF Handle

-----------------------------------------------------------------------------
(* Copies *)

\* The steps that write a copy or say what is newest.
Writes ==
    \/ Connect \/ Reopen \/ HandleSystem
    \/ \E name \in NewNames : ApplySettings(name)
    \/ \E a \in Activities : Report(a)

(* Other steps leave all copies alone. *)
LEMMA OthersWriteNothing ==
    ASSUME Typed, Next, ~Writes
    PROVE  UNCHANGED <<saved, newest, wrote, activity, service, system.data>>
<1> USE DEF savedVars, findVars, screenVars
<1>1. CASE Crash
  BY <1>1 DEF Crash
<1>2. CASE PostTimeout \/ RequestPlugSwitch
  BY <1>2 DEF PostTimeout, RequestPlugSwitch
<1>3. CASE Navigate /\ ~Reopen
  <2>1. CASE Quietly \/ Restore
    BY <2>1 DEF Quietly, NavigationUnchanged, SameSystem, Restore
  <2> QED BY <1>1, <1>3, <2>1, NavigateSteps
<1>4. CASE HandleGone
  BY <1>1, <1>4 DEF HandleGone
<1>5. CASE HandleConnect
  BY <1>1, <1>5 DEF HandleConnect
<1>6. ASSUME NEW value \in Switches, OnStartCommand(value)
      PROVE  UNCHANGED <<saved, newest, wrote, activity, service, system.data>>
  BY <1>6 DEF OnStartCommand
<1>7. ASSUME NEW a \in Activities,
             FindTimeout(a) \/ Bind(a) \/ BindFails(a) \/ RemoveTimeout(a) \/ Receive(a)
      PROVE  UNCHANGED <<saved, newest, wrote, activity, service, system.data>>
  BY <1>7 DEF FindTimeout, Bind, BindFails, RemoveTimeout, Receive, FinderUnchanged
<1>8. CASE Collect
  BY <1>8 DEF Collect, FinderUnchanged
<1>9. CASE Start \/ Session
  BY <1>9 DEF Start, Session, GetState, SetState, SetAnswered, Retry, TaskUnchanged
<1>10. CASE Press \/ \E url \in Addresses \ {where} : Move(url)
  BY <1>10 DEF Press, Move
<1> QED BY <1>2, <1>3, <1>4, <1>5, <1>6, <1>7, <1>8, <1>9, <1>10
        DEF Next, Writes, Handle, Find

(* The copies stay fresh while user and finder do not write in one activity. *)
LEMMA NextCopies ==
    ASSUME Typed, Connections, Next, OneWriter => CopiesFresh, OneWriter'
    PROVE  CopiesFresh'
<1>1. /\ Frame
      /\ \A a \in Activities : Active(a)' => Active(a) \/ (Connect /\ a = activity)
  BY NextFrame, NextActive
<1>2. CopiesFresh /\ OneWriter
  <2>1. wrote \subseteq wrote'
    BY <1>1 DEF Frame
  <2> QED BY <2>1 DEF OneWriter, Wrote
<1>3. /\ saved.url = newest.url /\ saved.name = newest.name
      /\ system.data.name = newest.name
      /\ ~Wrote("finder", activity) => system.data.url = newest.url
      /\ \A a \in Activities :
            Active(a) /\ (\A b \in a .. activity : ~Wrote("user", b)) =>
                service[a].data.name = newest.name
  BY <1>2 DEF CopiesFresh, Active
<1>4. ASSUME saved'.url = newest'.url, saved'.name = newest'.name,
             system'.data.name = newest'.name,
             ~Wrote("finder", activity)' => system'.data.url = newest'.url,
             \A a \in Activities :
                Active(a)' /\ (\A b \in a .. activity' : ~Wrote("user", b)') =>
                    service'[a].data.name = newest'.name
      PROVE  CopiesFresh'
  BY <1>4 DEF CopiesFresh, Active
<1>5. /\ activity \in Nat /\ activity \in Activities
      /\ \A a \in Activities : a \in Nat /\ (Active(a) => a <= activity)
  <2>1. \A a \in Activities : a \in Nat /\ BoundFirst(a)
    BY ActivitiesAre DEF Connections
  <2>2. activity \in Activities
    BY DEF Typed
  <2> QED BY <2>1, <2>2 DEF BoundFirst, Active
<1>6. /\ service \in [Activities -> WemoServices] /\ system \in WemoSystems
      /\ system.data \in Saved /\ saved \in Saved
      /\ newest \in [url : Addresses \cup {NoAddress}, name : Names]
      /\ \A a \in Activities : service[a].data \in Saved
  BY DEF Typed, WemoSystems, WemoServices
<1>6a. Connect => ~system.bound /\ system'.bound
  BY <1>6 DEF Connect, WemoSystems
<1>7. ASSUME UNCHANGED <<newest, wrote, activity, service, saved>>, ~Connect,
             system'.data.name = system.data.name, system'.data.url = system.data.url
      PROVE  CopiesFresh'
  <2>1. \A b : Wrote("user", b)' <=> Wrote("user", b)
    BY <1>7 DEF Wrote
  <2>2. Wrote("finder", activity)' <=> Wrote("finder", activity)
    BY <1>7 DEF Wrote
  <2>3. ASSUME NEW a \in Activities, Active(a)', \A b \in a .. activity' : ~Wrote("user", b)'
        PROVE  service'[a].data.name = newest'.name
    <3>1. Active(a) /\ \A b \in a .. activity : ~Wrote("user", b)
      BY <1>1, <1>7, <2>1, <2>3
    <3> QED BY <1>3, <1>7, <3>1
  <2> QED BY <1>3, <1>4, <1>7, <2>2, <2>3
<1>8. CASE ~Writes
  <2>1. ~Connect
    BY <1>8 DEF Writes
  <2>2. UNCHANGED <<newest, wrote, activity, service, saved>> /\ system'.data = system.data
    BY <1>8, OthersWriteNothing
  <2> QED BY <1>7, <2>1, <2>2
<1>9. CASE Connect
  <2>1. /\ UNCHANGED <<saved, newest, wrote, activity>>
        /\ system' = [system EXCEPT !.bound = TRUE]
        /\ service' = [service EXCEPT ![activity] = [data |-> saved, device |-> saved.url]]
    BY <1>9 DEF Connect, savedVars
  <2>2. system'.data = system.data
    BY <1>6, <2>1 DEF WemoSystems
  <2>3. \A b : Wrote("user", b)' <=> Wrote("user", b)
    BY <2>1 DEF Wrote
  <2>4. Wrote("finder", activity)' <=> Wrote("finder", activity)
    BY <2>1 DEF Wrote
  <2>5. ASSUME NEW a \in Activities, Active(a)', \A b \in a .. activity' : ~Wrote("user", b)'
        PROVE  service'[a].data.name = newest'.name
    <3>1. CASE a = activity
      BY <1>3, <1>5, <1>6, <2>1, <3>1
    <3>2. CASE a # activity
      BY <1>1, <1>3, <1>6, <2>1, <2>3, <2>5, <3>2
    <3> QED BY <3>1, <3>2
  <2> QED BY <1>3, <1>4, <2>1, <2>2, <2>4, <2>5
<1>10. CASE Reopen
  <2>1. /\ UNCHANGED <<saved, newest, wrote, service>>
        /\ activity' = activity + 1 /\ system'.data = saved /\ ~Connect
    BY <1>10 DEF Reopen, savedVars, findVars, NewSystem, Connect
  <2>2. \A b : Wrote("user", b)' <=> Wrote("user", b)
    BY <2>1 DEF Wrote
  <2>3. \A a \in Activities : a .. activity \subseteq a .. activity'
    BY <1>5, <2>1
  <2> QED BY <1>1, <1>3, <1>4, <2>1, <2>2, <2>3
<1>11. CASE HandleSystem /\ ~Crash
  <2>1. UNCHANGED <<newest, wrote, activity, service, saved>>
    BY <1>11 DEF HandleSystem, savedVars, findVars
  <2>2. system' = Responded(system, Head(messages)) /\ messages # << >>
    BY <1>11 DEF HandleSystem
  <2>3. system'.data.name = system.data.name /\ system'.data.url = system.data.url
    BY <1>6, <2>2 DEF Responded, Told, WemoSystems, Saved
  <2>4. ~Connect
    <3>1. system'.bound = system.bound
      BY <1>6, <2>2 DEF Responded, Told, WemoSystems
    <3> QED BY <1>6a, <3>1
  <2> QED BY <1>7, <2>1, <2>3, <2>4
<1>14. CASE Crash
  <2>1. UNCHANGED <<newest, wrote, activity, service, saved, system>>
    BY <1>14 DEF Crash, savedVars, findVars, screenVars
  <2> QED BY <1>6a, <1>7, <2>1
<1>12. ASSUME NEW name \in NewNames, ApplySettings(name)
       PROVE  CopiesFresh'
  <2>1. /\ system' = [system EXCEPT !.data.name = name]
        /\ saved' = system'.data
        /\ newest' = [newest EXCEPT !.name = name]
        /\ wrote' = wrote \cup {[by |-> "user", activity |-> activity]}
        /\ UNCHANGED <<activity, service>>
    BY <1>12 DEF ApplySettings, findVars
  <2>2. /\ newest'.name = name /\ newest'.url = newest.url
        /\ saved'.name = name /\ saved'.url = system.data.url
        /\ system'.data.name = name /\ system'.data.url = system.data.url
    BY <1>6, <2>1 DEF WemoSystems, Saved
  <2>3. Wrote("user", activity)'
    BY <2>1 DEF Wrote
  <2>4. ~Wrote("finder", activity)'
    BY <1>5, <2>1, <2>3 DEF OneWriter
  <2>5. ~Wrote("finder", activity)
    BY <2>1, <2>4 DEF Wrote
  <2>6. \A a \in Activities : Active(a)' => activity \in a .. activity'
    <3>1. ~Connect
      <4>1. system'.bound = system.bound
        BY <1>6, <2>1 DEF WemoSystems
      <4> QED BY <1>6a, <4>1
    <3> QED BY <1>1, <1>5, <2>1, <3>1
  <2>7. ~Wrote("finder", activity)' => system'.data.url = newest'.url
    BY <1>3, <2>2, <2>5
  <2>8. saved'.url = newest'.url
    BY <1>3, <2>2, <2>5
  <2>9. ASSUME NEW a \in Activities, Active(a)', \A b \in a .. activity' : ~Wrote("user", b)'
        PROVE  FALSE
    BY <2>1, <2>3, <2>6, <2>9 DEF Wrote
  <2> QED BY <1>4, <2>2, <2>7, <2>8, <2>9
<1>13. ASSUME NEW c \in Activities, Report(c)
       PROVE  CopiesFresh'
  <2> DEFINE u == finder[c].found
  <2>1. /\ service' = [service EXCEPT ![c].data.url = u, ![c].device = u]
        /\ saved' = service'[c].data
        /\ newest' = [newest EXCEPT !.url = u]
        /\ wrote' = wrote \cup {[by |-> "finder", activity |-> b] : b \in c .. activity}
        /\ UNCHANGED <<activity, system>>
        /\ finder[c].thread = "report"
    BY <1>13 DEF Report, screenVars, Finding
  <2> HIDE DEF u
  <2>2. newest'.name = newest.name /\ newest'.url = u
    BY <1>6, <2>1
  <2>3. /\ \A a \in Activities : service'[a].data.name = service[a].data.name
        /\ service'[c].data.url = u
    <3> DEFINE t == [service EXCEPT ![c].data.url = u]
    <3>1. service' = [t EXCEPT ![c].device = u]
      BY <2>1
    <3>2. t[c] = [service[c] EXCEPT !.data.url = u]
      BY <1>6
    <3>3. /\ t \in [Activities -> [data : Saved \cup {t[c].data},
                               device : Addresses \cup {NoAddress}]]
          /\ t[c].data.name = service[c].data.name /\ t[c].data.url = u
      BY <1>6, <3>2 DEF WemoServices, Saved
    <3>4. \A a \in Activities \ {c} : t[a] = service[a]
      BY <1>6
    <3> HIDE DEF t
    <3>5. \A a \in Activities : service'[a].data = t[a].data
      BY <3>1, <3>3
    <3> QED BY <3>3, <3>4, <3>5
  <2>4. Active(c)
    BY <2>1 DEF Active, Searching
  <2>5. \A b \in c .. activity : Wrote("finder", b)' /\ b \in Activities
    <3>1. \A b \in c .. activity : b \in Activities
      BY <1>5, ActivitiesAre
    <3>2. \A b \in c .. activity : Wrote("finder", b)'
      BY <2>1 DEF Wrote
    <3> QED BY <3>1, <3>2
  <2>6. \A b \in c .. activity : ~Wrote("user", b)
    BY <2>5, <1>1 DEF Frame, OneWriter, Wrote
  <2>7. service[c].data.name = newest.name
    BY <1>3, <2>4, <2>6
  <2>8. activity \in c .. activity
    BY <1>5, <2>4
  <2>9. saved'.name = newest'.name /\ saved'.url = newest'.url
    BY <2>1, <2>2, <2>3, <2>7
  <2>10. system'.data.name = newest'.name /\ Wrote("finder", activity)'
    BY <1>3, <2>1, <2>2, <2>5, <2>8
  <2>11. ~Connect
    BY <1>6a, <2>1
  <2>12. \A b : Wrote("user", b)' <=> Wrote("user", b)
    BY <2>1 DEF Wrote
  <2>13. ASSUME NEW a \in Activities, Active(a)', \A b \in a .. activity' : ~Wrote("user", b)'
         PROVE  service'[a].data.name = newest'.name
    <3>1. Active(a) /\ \A b \in a .. activity : ~Wrote("user", b)
      <4>1. activity' = activity
        BY <2>1
      <4> QED BY <1>1, <2>11, <2>12, <2>13, <4>1
    <3> QED BY <1>3, <2>2, <2>3, <3>1
  <2> QED BY <1>4, <2>9, <2>10, <2>13
<1> QED BY <1>8, <1>9, <1>10, <1>11, <1>12, <1>13, <1>14 DEF Writes

-----------------------------------------------------------------------------
(* Owners *)

\* The messages and tasks of the current activity.
OwnMessages == {m \in Messages : m.activity = activity}

OwnTasks == {task \in TaskRecords : task.for \in {0, activity}}

(* An activity is replaced safely only when nothing is awaited. *)
LEMMA ReopenOwned ==
    ASSUME Typed, Connections, Owned, Reopen, ~Awaited
    PROVE  Owned'
<1>1. /\ activity' = activity + 1 /\ activity' \in Nat
      /\ UNCHANGED <<finder, queue, session, starting, messages>>
      /\ starting = 0 /\ messages = << >>
  BY ActivitiesAre DEF Reopen, findVars, taskVars, Main, Awaited, Typed
<1>2. /\ queue \in Seq(TaskRecords)
      /\ \A i \in 1 .. Len(queue) : queue[i].for = 0
      /\ session.task.for = 0
  BY DEF Awaited, Typed
<1>3. queue' \in Seq({task \in TaskRecords : task.for \in {0, activity'}})
  BY <1>1, <1>2
<1>4. ASSUME NEW a \in Activities
      PROVE  ~finder'[a].timeout /\ finder'[a].thread \in {"new", "ended"}
  <2>1. CASE a = activity
    BY <1>1, <2>1 DEF Awaited
  <2>2. CASE a # activity
    BY <1>1, <2>2 DEF Owned
  <2> QED BY <2>1, <2>2
<1>5. messages' \in Seq({m \in Messages : m.activity = activity'})
  BY <1>1
<1> QED BY <1>1, <1>2, <1>3, <1>4, <1>5 DEF Owned

(* What a step sends, the current activity has asked for. *)
LEMMA NextOwned ==
    ASSUME Typed, Connections, ~unsafe => Owned, Next, ~unsafe'
    PROVE  Owned'
<1>1. /\ Frame /\ \A b \in Activities : Turn(b)
      /\ Connect \/ Moved
  BY NextFrame
<1>2. CASE Reopen
  <2>1. ~unsafe /\ ~Awaited
    BY <1>2 DEF Reopen
  <2> QED BY <1>2, <2>1, ReopenOwned
<1>3. CASE ~Reopen
  <2>1. Owned /\ activity' = activity /\ activity \in Activities
    <3>1. ~unsafe /\ activity \in Activities
      BY <1>1 DEF Frame, Typed
    <3>2. activity' = activity
      BY <1>1, <1>3 DEF Frame
    <3> QED BY <3>1, <3>2
  <2>2. /\ messages \in Seq(OwnMessages) /\ queue \in Seq(OwnTasks)
        /\ session.task \in OwnTasks
        /\ starting \in {0, activity}
        /\ \A a \in Activities \ {activity} :
              ~finder[a].timeout /\ finder[a].thread \in {"new", "ended"}
    BY <2>1 DEF Owned, OwnMessages, OwnTasks, Typed, Sessions
  <2>3. OwnMessages' = OwnMessages /\ OwnTasks' = OwnTasks
    BY <2>1 DEF OwnMessages, OwnTasks
  <2>4. ASSUME NEW a \in Activities, Starts(a) PROVE a = activity
    <3>1. MessageTaken /\ Head(messages) \in ConnectAnswers(a) => a = activity
      BY <2>2 DEF MessageTaken, ConnectAnswers, OwnMessages
    <3> QED BY <2>4, <3>1 DEF Starts
  <2>5. starting' \in {0, activity}
    BY <1>1, <2>2, <2>4 DEF Frame
  <2>6. ASSUME NEW a \in Activities \ {activity} PROVE finder'[a] = finder[a]
    <3>1. ~Starts(a) /\ Turn(a) /\ a # 0
      BY <1>1, <2>4, <2>6, ActivitiesAre
    <3>2. ~(FindTimeout(a) \/ Find(a) \/ Receive(a))
      BY <2>2, <2>6 DEF FindTimeout, Find, Bind, BindFails, Report, RemoveTimeout, Receive,
                        Finding
    <3> QED BY <2>2, <2>6, <3>1, <3>2 DEF Turn
  <2>7. queue' \in Seq(OwnTasks) /\ session'.task \in OwnTasks /\ messages' \in Seq(OwnMessages)
    <3>1. CASE Connect
      <4> DEFINE task == [kind |-> "connect", for |-> activity, value |-> FALSE,
                          url |-> saved.url]
      <4>1. task \in OwnTasks
        BY <2>1, ActivitiesAre DEF OwnTasks, TaskRecords, Typed, Saved
      <4>2. /\ UNCHANGED queue \/ queue' = Append(queue, task)
            /\ UNCHANGED <<session, messages>>
        BY <3>1 DEF Connect
      <4> HIDE DEF task
      <4> QED BY <2>2, <4>1, <4>2
    <3>2. CASE \E task \in TaskRecords : task.kind = "set" /\ QueueGrows(task)
      <4>1. PICK task \in TaskRecords : QueueGrows(task)
        BY <3>2
      <4>2. task \in OwnTasks
        BY <4>1 DEF QueueGrows, OwnTasks
      <4> QED BY <2>2, <4>1, <4>2 DEF QueueGrows
    <3>3. CASE \E m \in Messages : MessageShown(m)
      <4>1. PICK m \in Messages : MessageShown(m)
        BY <3>3
      <4>2. m \in OwnMessages
        BY <2>2, <4>1 DEF MessageShown, OwnMessages, Messages
      <4> QED BY <2>2, <4>1, <4>2 DEF MessageShown
    <3>4. CASE \E m \in Messages : MessageForwarded(m)
      <4>1. PICK m \in Messages : MessageForwarded(m)
        BY <3>4
      <4>2. m \in OwnMessages /\ Tail(messages) \in Seq(OwnMessages)
        BY <2>2, <4>1 DEF MessageForwarded, OwnMessages, ConnectAnswers
      <4> QED BY <2>2, <4>1, <4>2 DEF MessageForwarded
    <3>5. CASE MessageTaken
      BY <2>2, <3>5 DEF MessageTaken
    <3>6. CASE TaskStarted
      BY <2>2, <3>6 DEF TaskStarted
    <3>7. CASE TaskGoesOn
      BY <2>2, <3>7 DEF TaskGoesOn
    <3>8. CASE Answered
      <4>1. PICK what \in Errors \ {"find"}, state \in BOOLEAN : Answer(what, state)
        BY <3>8 DEF Answered
      <4>2. queue' = queue /\ session'.task \in OwnTasks
        BY <3>8, <4>1, ActivitiesAre DEF Answered, Answer, Idle, NoTask, OwnTasks,
           TaskRecords
      <4>3. CASE session.task.for = 0
        BY <2>2, <4>1, <4>2, <4>3 DEF Answer
      <4>4. CASE session.task.for # 0
        <5> DEFINE m == [to |-> IF session.task.kind = "connect" THEN "service" ELSE "system",
                         activity |-> session.task.for, what |-> what, state |-> {state}]
        <5>1. messages' = Append(messages, m)
          BY <4>1, <4>4 DEF Answer, Send
        <5>2. session.task.for = activity
          BY <2>2, <4>4 DEF OwnTasks
        <5>3. m \in OwnMessages
          BY <2>1, <4>1, <5>2 DEF OwnMessages, Messages
        <5> HIDE DEF m
        <5> QED BY <2>2, <4>2, <5>1, <5>3
      <4> QED BY <4>3, <4>4
    <3>9. CASE UNCHANGED <<queue, session, messages>>
      BY <2>2, <3>9
    <3> QED BY <1>1, <3>1, <3>2, <3>3, <3>4, <3>5, <3>6, <3>7, <3>8, <3>9 DEF Moved
  <2>8. UNCHANGED activity
    BY <2>1
  <2> QED BY <2>2, <2>3, <2>5, <2>6, <2>7, <2>8 DEF Owned, OwnMessages, OwnTasks
<1> QED BY <1>2, <1>3

(* Only who goes about the screens changes where they are. *)
LEMMA ScreenKept ==
    ASSUME Typed, Next, ~Navigate
    PROVE  system'.screen = system.screen
<1>1. ASSUME UNCHANGED system PROVE system'.screen = system.screen
  BY <1>1
<1>2. CASE Crash
  BY <1>2 DEF Crash, screenVars
<1>3. CASE Connect
  BY <1>3 DEF Connect, Typed, WemoSystems
<1>4. ASSUME NEW name \in NewNames, ApplySettings(name)
      PROVE  system'.screen = system.screen
  BY <1>4 DEF ApplySettings, Typed, WemoSystems
<1>5. CASE HandleSystem /\ ~Crash
  <2>1. messages # << >> /\ system' = Responded(system, Head(messages))
    BY <1>5 DEF HandleSystem
  <2>2. Head(messages) \in Messages /\ system \in WemoSystems
    BY <2>1 DEF Typed
  <2> QED BY <2>1, <2>2, ToldTyped
<1>6. CASE (HandleGone \/ HandleConnect) /\ ~Crash
  BY <1>6 DEF HandleGone, HandleConnect, screenVars
<1>7. CASE \/ PostTimeout \/ RequestPlugSwitch
           \/ \E value \in Switches : OnStartCommand(value)
  BY <1>7 DEF PostTimeout, RequestPlugSwitch, OnStartCommand, screenVars
<1>8. CASE \/ \E a \in Activities : FindTimeout(a) \/ Find(a) \/ Receive(a)
           \/ Collect
  BY <1>8 DEF FindTimeout, Find, Bind, BindFails, Report, RemoveTimeout, Receive, Collect,
              FinderUnchanged, screenVars
<1>9. CASE Start \/ Session \/ Press \/ \E url \in Addresses \ {where} : Move(url)
  BY <1>9 DEF Start, Session, GetState, SetState, SetAnswered, Retry, TaskUnchanged, Press,
              Move, screenVars
<1> QED BY <1>2, <1>3, <1>4, <1>5, <1>6, <1>7, <1>8, <1>9 DEF Next, Handle

(* Who has left a screen that waits for nothing will not see it wait. *)
LEMMA NextLeft ==
    ASSUME Typed, Connections, ~unsafe => Owned /\ LeftAlone, Next, ~unsafe'
    PROVE  LeftAlone'
<1> SUFFICES ASSUME system'.screen = "left"
             PROVE  system'.bound /\ ~Awaited' /\ starting' = 0
  BY DEF LeftAlone
<1>1. /\ Frame /\ \A b \in Activities : Turn(b)
      /\ Connect \/ Moved
      /\ activity \in Activities /\ activity # 0
  BY NextFrame, ActivitiesAre DEF Typed
<1>2. CASE Navigate
  <2>1. ~Restore
    BY DEF Restore
  <2>2. ~Reopen
    BY DEF Reopen, NewSystem
  <2>3. CASE CreateView \/ \E tab \in {"main", "setup"} : SelectTab(tab)
    <3>1. system.screen = "left" /\ Crash
      BY <2>3 DEF CreateView, SelectTab, Crash, screenVars, Typed, WemoSystems
    <3>2. LeftAlone
      BY <3>1 DEF Crash, screenVars
    <3> QED BY <3>1, <3>2 DEF LeftAlone, Awaited, Crash, screenVars, findVars, taskVars
  <2>4. CASE Leave
    <3>1. /\ ~Awaited /\ system.bound /\ starting = 0
          /\ NavigationUnchanged /\ system' = [system EXCEPT !.screen = "left"]
      BY <2>4 DEF Leave, Main
    <3>2. system'.bound
      BY <3>1 DEF Typed, WemoSystems
    <3> QED BY <3>1, <3>2 DEF NavigationUnchanged, Awaited, findVars, taskVars
  <2> QED BY <1>2, <2>1, <2>2, <2>3, <2>4 DEF Navigate
<1>3. CASE ~Navigate
  <2>1. system.screen = "left" /\ ~unsafe /\ ~Reopen
    BY <1>1, <1>3, ScreenKept DEF Frame, Navigate
  <2>2. /\ system.bound /\ starting = 0
        /\ messages = << >> /\ session.task.for = 0
        /\ \A i \in 1 .. Len(queue) : queue[i].for = 0
        /\ ~finder[activity].timeout /\ finder[activity].thread \in {"new", "ended"}
        /\ \A a \in Activities : ~finder[a].timeout /\ finder[a].thread \in {"new", "ended"}
    BY <2>1 DEF LeftAlone, Awaited, Owned
  <2>3. ~Connect /\ ~MessageTaken /\ \A m : ~MessageForwarded(m)
    BY <2>2 DEF Connect, MessageTaken, MessageForwarded
  <2>4. \A a : ~Starts(a)
    BY <2>3 DEF Starts
  <2>5. system'.bound /\ starting' = 0 /\ activity' = activity
    BY <1>1, <2>1, <2>2, <2>4 DEF Frame
  <2>6. finder'[activity] = finder[activity]
    <3>1. ~FindTimeout(activity) /\ ~Find(activity) /\ ~Receive(activity)
      BY <2>2 DEF FindTimeout, Find, Bind, BindFails, Report, RemoveTimeout, Receive, Finding
    <3> QED BY <1>1, <2>2, <2>4, <3>1 DEF Turn
  <2>7. /\ messages' = << >> /\ session'.task.for = 0
        /\ \A i \in 1 .. Len(queue') : queue'[i].for = 0
    <3>1. queue \in Seq(TaskRecords)
      BY DEF Typed
    <3>2. CASE UNCHANGED <<queue, session, messages>> \/ TaskGoesOn
      BY <2>2, <3>2 DEF TaskGoesOn
    <3>3. CASE \E task \in TaskRecords : task.kind = "set" /\ QueueGrows(task)
      <4>1. PICK task \in TaskRecords : QueueGrows(task)
        BY <3>3
      <4>2. task.for = 0 /\ queue' = Append(queue, task) /\ UNCHANGED <<session, messages>>
        BY <2>1, <4>1 DEF QueueGrows
      <4> QED BY <2>2, <3>1, <4>2
    <3>4. ~ \E m \in Messages : MessageShown(m)
      BY <2>2 DEF MessageShown, Messages
    <3>5. CASE TaskStarted
      BY <2>2, <3>1, <3>5 DEF TaskStarted
    <3>6. CASE Answered
      BY <2>2, <3>6 DEF Answered, Answer, Idle, NoTask
    <3> QED BY <1>1, <2>3, <3>2, <3>3, <3>4, <3>5, <3>6 DEF Moved
  <2> QED BY <2>2, <2>5, <2>6, <2>7 DEF Awaited
<1> QED BY <1>2, <1>3

-----------------------------------------------------------------------------
(* Reports *)

(* A message that is no "find" of the current system keeps the last word. *)
LEMMA WordKept ==
    ASSUME ReportLast, NEW s \in Seq(Messages), NEW m \in Messages,
           m \notin Outcomes("find"),
           system.error = "find" => Occurs(s, Outcomes("none")),
           FollowedBy(s, Outcomes("find"), Outcomes("none")),
           activity' = activity, system'.error = system.error,
           messages' = s \/ messages' = Append(s, m)
    PROVE  ReportLast'
<1> DEFINE F == Outcomes("find")
           N == Outcomes("none")
<1>1. Outcomes("find")' = F /\ Outcomes("none")' = N
  BY DEF Outcomes
<1>2. m \notin F /\ FollowedBy(s, F, N) /\ (system.error = "find" => Occurs(s, N))
  OBVIOUS
<1> HIDE DEF F, N
<1>3. CASE messages' = s
  BY <1>1, <1>2, <1>3 DEF ReportLast
<1>4. CASE messages' = Append(s, m)
  <2>1. FollowedBy(messages', F, N)
    BY <1>2, <1>4, FollowedInAppend
  <2>2. system'.error = "find" => Occurs(messages', N)
    BY <1>2, <1>4, OccursInAppend
  <2> QED BY <1>1, <2>1, <2>2 DEF ReportLast
<1> QED BY <1>3, <1>4

(* Taking a message that is for another keeps it as well. *)
LEMMA WordAfterTail ==
    ASSUME Typed, ReportLast, messages # << >>, Head(messages) \notin Outcomes("none")
    PROVE  /\ Tail(messages) \in Seq(Messages)
           /\ system.error = "find" => Occurs(Tail(messages), Outcomes("none"))
           /\ FollowedBy(Tail(messages), Outcomes("find"), Outcomes("none"))
<1> DEFINE F == Outcomes("find")
           N == Outcomes("none")
<1>1. messages \in Seq(Messages) /\ Tail(messages) \in Seq(Messages)
  BY DEF Typed
<1>2. FollowedBy(messages, F, N) /\ Head(messages) \notin N
      /\ (system.error = "find" => Occurs(messages, N))
  BY DEF ReportLast
<1> HIDE DEF F, N
<1>3. FollowedBy(Tail(messages), F, N)
  BY <1>1, <1>2, FollowedInTail
<1>4. Occurs(messages, N) => Occurs(Tail(messages), N)
  BY <1>1, <1>2, OccursInTail
<1> QED BY <1>1, <1>2, <1>3, <1>4 DEF F, N

(* The report of a plug is the last word as it is sent. *)
LEMMA ReportIsLast ==
    ASSUME Typed, Report(activity)
    PROVE  ReportLast'
<1> DEFINE F == Outcomes("find")
           N == Outcomes("none")
           m == ToSystem(activity, "none", {})
<1>1. messages \in Seq(Messages) /\ activity \in Activities
  BY DEF Typed
<1>2. activity' = activity /\ system' = system /\ messages' = Append(messages, m)
  BY DEF Report, Send, screenVars
<1>3. Outcomes("find")' = F /\ Outcomes("none")' = N
  BY <1>2 DEF Outcomes
<1>4. m \in N /\ m \notin F
  BY <1>1 DEF Outcomes, ToSystem, Messages, Errors
<1> HIDE DEF F, N, m
<1>5. FollowedBy(messages', F, N) /\ Occurs(messages', N)
  BY <1>1, <1>2, <1>4, FollowedInAppend, OccursInAppend
<1> QED BY <1>3, <1>5 DEF ReportLast

(* What the system shows is followed by what was said last. *)
LEMMA HandleKeepsWord ==
    ASSUME Typed, ReportLast, HandleSystem, ~Crash
    PROVE  ReportLast'
<1> DEFINE F == Outcomes("find")
           N == Outcomes("none")
           m == Head(messages)
<1>1. messages \in Seq(Messages) /\ messages # << >> /\ messages' = Tail(messages)
  BY DEF HandleSystem, Typed
<1>2. m \in Messages /\ m.to = "system" /\ m.activity = activity
  BY <1>1 DEF HandleSystem
<1>3. activity' = activity /\ system' = Responded(system, m)
  BY DEF HandleSystem
<1>4. system'.error = m.what
  BY <1>3 DEF Responded, Told, Typed, WemoSystems
<1>5. Outcomes("find")' = F /\ Outcomes("none")' = N
  BY <1>3 DEF Outcomes
<1>6. m.what = "find" => m \in F
  BY <1>2 DEF Outcomes
<1>7. FollowedBy(messages, F, N)
  BY DEF ReportLast
<1> HIDE DEF F, N
<1>8. FollowedBy(messages', F, N) /\ (m \in F => Occurs(messages', N))
  BY <1>1, <1>7, FollowedInTail
<1> QED BY <1>4, <1>5, <1>6, <1>8 DEF ReportLast

(* A search that had reported a plug before the step, or does so in it. *)
LEMMA ReportedBefore ==
    ASSUME Typed, Searches, Next, NEW a \in Activities, Reported(a)'
    PROVE  Reported(a) \/ Report(a)
<1>1. Turn(a) /\ finder \in [Activities -> Finders] /\ finder[a] \in Finders
  BY NextFrame DEF Typed
<1>2. finder[a].found # NoAddress => finder[a].thread \in {"report", "remove", "ended"}
  BY DEF Searches
<1>3. CASE finder'[a] = finder[a]
  BY <1>3 DEF Reported
<1>4. CASE Starts(a)
  <2>1. finder'[a].thread = "bind"
    BY <1>1, <1>4 DEF Starts, StartFinder, Finders
  <2> QED BY <2>1 DEF Reported
<1>5. CASE PostTimeout /\ a = starting
  <2>1. finder'[a] = [finder[a] EXCEPT !.timeout = TRUE]
    BY <1>1, <1>5 DEF PostTimeout
  <2> QED BY <1>1, <2>1 DEF Reported, Finders
<1>6. CASE FindTimeout(a)
  <2>1. finder'[a] = [finder[a] EXCEPT !.timeout = FALSE]
    BY <1>1, <1>6 DEF FindTimeout
  <2> QED BY <1>1, <2>1 DEF Reported, Finders
<1>7. CASE Bind(a)
  <2>1. finder'[a].thread = "receive"
    BY <1>1, <1>7 DEF Bind, Finders
  <2> QED BY <2>1 DEF Reported
<1>8. CASE BindFails(a) \/ Receive(a)
  <2>1. \/ finder'[a].thread = "report"
        \/ finder'[a].found = finder[a].found /\ finder[a].thread \in {"bind", "receive"}
    BY <1>1, <1>8 DEF BindFails, Receive, Finding, Finders
  <2> QED BY <1>2, <2>1 DEF Reported
<1>9. CASE RemoveTimeout(a)
  <2>1. finder'[a].found = finder[a].found /\ finder[a].thread = "remove"
    BY <1>1, <1>9 DEF RemoveTimeout, Finding, Finders
  <2> QED BY <2>1 DEF Reported
<1> QED BY <1>1, <1>3, <1>4, <1>5, <1>6, <1>7, <1>8, <1>9 DEF Turn, Find

(* Without a race nothing is said after the report. *)
LEMMA NextReports ==
    ASSUME Typed, Connections, Searches, ~raced /\ Reported(activity) => ReportLast,
           Next, ~raced', Reported(activity)'
    PROVE  ReportLast'
<1>1. /\ Frame /\ ~raced
      /\ activity \in Activities /\ activity \in Nat
      /\ system \in WemoSystems
      /\ messages \in Seq(Messages)
  BY NextFrame, ActivitiesAre DEF Frame, Typed
<1>2. ~Reopen
  <2>1. ASSUME Reopen PROVE FALSE
    <3>1. activity' = activity + 1 /\ finder' = finder /\ activity + 1 \in Activities
      BY <1>1, <2>1, ActivitiesAre DEF Reopen, findVars
    <3>2. Searching(activity + 1)
      BY <3>1 DEF Reported, Searching
    <3>3. BoundFirst(activity + 1)
      BY <3>1 DEF Connections
    <3> QED BY <1>1, <3>2, <3>3 DEF BoundFirst
  <2> QED BY <2>1
<1>3. activity' = activity
  BY <1>1, <1>2 DEF Frame
<1>4. CASE Report(activity)
  BY <1>4, ReportIsLast
<1>5. CASE ~Report(activity)
  <2>1. Reported(activity) /\ ReportLast
    <3>1. Reported(activity)' => finder'[activity].found # NoAddress
                                 /\ finder'[activity].thread \in {"remove", "ended"}
      BY <1>3 DEF Reported
    <3>2. ASSUME NEW a \in Activities, a = activity PROVE Reported(a)'
      BY <1>3, <3>1, <3>2 DEF Reported
    <3>3. Reported(activity)
      BY <1>1, <1>5, <3>2, ReportedBefore
    <3> QED BY <1>1, <3>3
  <2>2. /\ system.error = "find" => Occurs(messages, Outcomes("none"))
        /\ FollowedBy(messages, Outcomes("find"), Outcomes("none"))
    BY <2>1 DEF ReportLast
  <2>3. PICK other \in Messages : other \notin Outcomes("find")
    <3>1. ToSystem(activity, "none", {}) \in Messages
      BY <1>1 DEF ToSystem, Messages, Errors
    <3>2. ToSystem(activity, "none", {}) \notin Outcomes("find")
      BY DEF ToSystem, Outcomes
    <3> QED BY <3>1, <3>2
  <2>4. ASSUME UNCHANGED messages, system'.error = system.error PROVE ReportLast'
    BY <1>1, <1>3, <2>1, <2>2, <2>3, <2>4, WordKept
  <2>5. ASSUME UNCHANGED system, NEW m \in Messages, m \notin Outcomes("find"),
               messages' = Append(messages, m)
        PROVE  ReportLast'
    BY <1>1, <1>3, <2>1, <2>2, <2>5, WordKept
  <2>6. ASSUME Crash PROVE ReportLast'
    BY <2>4, <2>6 DEF Crash, screenVars
  <2>7. CASE HandleSystem /\ ~Crash
    BY <2>1, <2>7, HandleKeepsWord
  <2>8. CASE HandleGone
    <3>1. CASE Crash
      BY <2>6, <3>1
    <3>2. CASE messages' = Tail(messages) /\ UNCHANGED system
      <4>1. messages # << >> /\ Head(messages) \notin Outcomes("none")
        BY <2>8 DEF HandleGone, Outcomes
      <4>2. /\ Tail(messages) \in Seq(Messages)
            /\ system.error = "find" => Occurs(Tail(messages), Outcomes("none"))
            /\ FollowedBy(Tail(messages), Outcomes("find"), Outcomes("none"))
        BY <2>1, <4>1, WordAfterTail
      <4> QED BY <1>3, <2>1, <2>3, <3>2, <4>2, WordKept
    <3> QED BY <2>8, <3>1, <3>2 DEF HandleGone, screenVars
  <2>9. CASE HandleConnect
    <3> DEFINE m == ToSystem(Head(messages).activity, "none", Head(messages).state)
    <3>1. CASE Crash
      BY <2>6, <3>1
    <3>2. CASE /\ messages' = Tail(messages) \/ messages' = Append(Tail(messages), m)
               /\ UNCHANGED system
      <4>1. messages # << >> /\ Head(messages) \notin Outcomes("none")
        BY <2>9 DEF HandleConnect, Outcomes
      <4>2. /\ Tail(messages) \in Seq(Messages)
            /\ system.error = "find" => Occurs(Tail(messages), Outcomes("none"))
            /\ FollowedBy(Tail(messages), Outcomes("find"), Outcomes("none"))
        BY <2>1, <4>1, WordAfterTail
      <4>3. Head(messages) \in Messages
        BY <1>1, <4>1
      <4>4. m \in Messages /\ m \notin Outcomes("find")
        BY <4>3 DEF ToSystem, Messages, Errors, Outcomes
      <4> HIDE DEF m
      <4> QED BY <1>3, <2>1, <3>2, <4>2, <4>4, WordKept
    <3> QED BY <2>9, <3>1, <3>2 DEF HandleConnect, screenVars
  <2>10. ASSUME NEW a \in Activities, FindTimeout(a) PROVE ReportLast'
    <3> DEFINE m == ToSystem(a, "find", {})
    <3>1. a # activity
      <4>1. ASSUME a = activity PROVE FALSE
        <5>1. /\ finder[a].found # NoAddress /\ finder[a].thread \in {"remove", "ended"}
              /\ finder[a].timeout
          BY <2>1, <2>10, <4>1 DEF Reported, FindTimeout
        <5>2. finder[a].thread # "ended"
          BY <1>1, <5>1 DEF Searches
        <5>3. raced'
          BY <2>10, <5>1, <5>2 DEF FindTimeout
        <5> QED BY <5>3
      <4> QED BY <4>1
    <3>2. messages' = Append(messages, m) /\ UNCHANGED system
      BY <2>10 DEF FindTimeout, Send, screenVars
    <3>3. m \in Messages /\ m \notin Outcomes("find")
      BY <3>1 DEF ToSystem, Messages, Errors, Outcomes
    <3> HIDE DEF m
    <3> QED BY <2>5, <3>2, <3>3
  <2>11. ASSUME NEW a \in Activities, Report(a) PROVE ReportLast'
    <3> DEFINE m == ToSystem(a, "none", {})
    <3>1. messages' = Append(messages, m) /\ UNCHANGED system
      BY <2>11 DEF Report, Send, screenVars
    <3>2. m \in Messages /\ m \notin Outcomes("find")
      BY DEF ToSystem, Messages, Errors, Outcomes
    <3> HIDE DEF m
    <3> QED BY <2>5, <3>1, <3>2
  <2>12. CASE Session
    <3>1. UNCHANGED system
      BY <2>12 DEF Session, GetState, SetState, SetAnswered, Retry, TaskUnchanged, screenVars
    <3>2. ASSUME NEW what \in Errors \ {"find"}, NEW state \in BOOLEAN, Answer(what, state)
          PROVE  ReportLast'
      <4>1. CASE UNCHANGED messages
        BY <2>4, <3>1, <4>1
      <4>2. CASE session.task.for # 0
        <5> DEFINE m == [to |-> IF session.task.kind = "connect" THEN "service" ELSE "system",
                         activity |-> session.task.for, what |-> what, state |-> {state}]
        <5>1. messages' = Append(messages, m)
          BY <3>2, <4>2 DEF Answer, Send
        <5>2. session.task.for \in Activities
          BY <4>2, ActivitiesAre DEF Typed, Sessions, TaskRecords
        <5>3. m \in Messages /\ m \notin Outcomes("find")
          BY <5>2 DEF Messages, Outcomes
        <5> HIDE DEF m
        <5> QED BY <2>5, <3>1, <5>1, <5>3
      <4> QED BY <3>2, <4>1, <4>2 DEF Answer
    <3>3. CASE Answered
      BY <3>2, <3>3 DEF Answered
    <3>4. CASE UNCHANGED messages
      BY <2>4, <3>1, <3>4
    <3>5. Answered \/ UNCHANGED messages
      <4>1. on \in BOOLEAN /\ session.task.value \in BOOLEAN /\ FALSE \in BOOLEAN
            /\ {"none", "network"} \subseteq Errors \ {"find"}
        BY DEF Typed, Sessions, TaskRecords, Errors
      <4>2. CASE GetState
        BY <4>1, <4>2 DEF GetState, Answered
      <4>3. CASE SetAnswered
        BY <4>1, <4>3 DEF SetAnswered, Answered
      <4>4. CASE Retry
        BY <4>1, <4>4 DEF Retry, Answered
      <4>5. CASE SetState
        BY <4>5 DEF SetState
      <4> QED BY <2>12, <4>2, <4>3, <4>4, <4>5 DEF Session
    <3> QED BY <3>3, <3>4, <3>5
  <2>13. CASE \/ PostTimeout \/ Connect \/ RequestPlugSwitch
              \/ \E name \in NewNames : ApplySettings(name)
              \/ \E value \in Switches : OnStartCommand(value)
    <3>1. messages' = messages
      BY <2>13 DEF PostTimeout, Connect, RequestPlugSwitch, ApplySettings, OnStartCommand
    <3>2. CASE PostTimeout \/ RequestPlugSwitch \/ \E value \in Switches : OnStartCommand(value)
      BY <2>4, <3>1, <3>2 DEF PostTimeout, RequestPlugSwitch, OnStartCommand, screenVars
    <3>3. CASE Connect
      <4>1. system' = [system EXCEPT !.bound = TRUE]
        BY <3>3 DEF Connect
      <4>2. system'.error = system.error
        BY <1>1, <4>1 DEF WemoSystems
      <4> QED BY <2>4, <3>1, <4>2
    <3>5. ASSUME NEW name \in NewNames, ApplySettings(name) PROVE ReportLast'
      <4>1. system' = [system EXCEPT !.data.name = name]
        BY <3>5 DEF ApplySettings
      <4>2. system'.error = system.error
        BY <1>1, <4>1 DEF WemoSystems
      <4> QED BY <2>4, <3>1, <4>2
    <3> QED BY <2>13, <3>2, <3>3, <3>5
  <2>17. CASE Navigate
    <3>1. CASE Quietly \/ Restore
      BY <2>4, <3>1 DEF Quietly, NavigationUnchanged, SameSystem, Restore
    <3> QED BY <1>2, <2>6, <2>17, <3>1, NavigateSteps
  <2>14. ASSUME NEW a \in Activities, Bind(a) \/ BindFails(a) \/ RemoveTimeout(a) \/ Receive(a)
         PROVE  ReportLast'
    BY <2>4, <2>14 DEF Bind, BindFails, RemoveTimeout, Receive, FinderUnchanged, screenVars
  <2>15. CASE Collect \/ Start
    BY <2>4, <2>15 DEF Collect, Start, FinderUnchanged, TaskUnchanged, screenVars
  <2>16. CASE Press \/ \E url \in Addresses \ {where} : Move(url)
    BY <2>4, <2>16 DEF Press, Move, screenVars
  <2> QED BY <2>6, <2>7, <2>8, <2>9, <2>10, <2>11, <2>12, <2>13, <2>14, <2>15, <2>16, <2>17
          DEF Next, Handle, Find
<1> QED BY <1>4, <1>5

-----------------------------------------------------------------------------
(* The invariant *)

(* The initial states satisfy it. *)
LEMMA InitIInv == Init => IInv
<1> SUFFICES ASSUME Init PROVE IInv
  OBVIOUS
<1>1. Typed
  BY InitTypes
<1>2. /\ queue = << >> /\ messages = << >> /\ session.task = NoTask
      /\ starting = 0 /\ ~crashed /\ activity = 1 /\ wrote = {}
      /\ \A a \in Activities : finder[a] = [thread |-> "new", timeout |-> FALSE,
                                            found |-> NoAddress]
  BY DEF Init, Idle
<1>3. ASSUME NEW a \in Activities
      PROVE  ~InQueue(a) /\ ~InSession(a) /\ ~InMessages(a) /\ ~Searching(a)
  <2>1. ~InQueue(a) /\ ~InMessages(a)
    BY <1>2 DEF InQueue, InMessages, Occurs
  <2>2. ~InSession(a)
    BY <1>2 DEF InSession, ConnectTasks, NoTask
  <2>3. ~Searching(a)
    BY <1>2, <1>3 DEF Searching
  <2> QED BY <2>1, <2>2, <2>3
<1>4. Connections
  <2>1. ASSUME NEW a \in Activities PROVE ConnectsOnce(a)
    BY <1>2, <1>3 DEF ConnectsOnce, OccursOnce
  <2>2. ASSUME NEW a \in Activities PROVE BoundFirst(a)
    <3>1. ~finder[a].timeout
      BY <1>2
    <3> QED BY <1>3, <3>1 DEF BoundFirst, Connecting
  <2> QED BY <1>2, <2>1, <2>2 DEF Connections
<1>5. Owned
  <2>1. \A a \in Activities : ~finder[a].timeout /\ finder[a].thread = "new"
    BY <1>2
  <2>2. session.task.for = 0
    BY <1>2 DEF NoTask
  <2>3. /\ messages \in Seq({m \in Messages : m.activity = activity})
        /\ queue \in Seq({task \in TaskRecords : task.for \in {0, activity}})
    BY <1>2
  <2> QED BY <1>2, <2>1, <2>2, <2>3 DEF Owned
<1>5a. LeftAlone
  BY DEF Init, NewSystem, LeftAlone
<1>6. CopiesFresh
  <2>1. /\ saved.url = newest.url /\ saved.name = newest.name
        /\ system.data.name = newest.name /\ system.data.url = newest.url
    BY DEF Init, NewSystem
  <2> QED BY <1>3, <2>1 DEF CopiesFresh, Connecting
<1>7. \A a \in Activities : finder[a].found = NoAddress /\ finder[a].thread = "new"
  BY <1>2
<1>8. Searches
  BY <1>7 DEF Searches
<1>9. ~Reported(activity)
  BY <1>1, <1>7 DEF Reported, Typed
<1> QED BY <1>1, <1>2, <1>4, <1>5, <1>5a, <1>6, <1>8, <1>9 DEF IInv, CrashesOnlyIfUnsafe

(* Every step keeps it. *)
LEMMA NextIInv == ASSUME IInv, [Next]_vars PROVE IInv'
<1>1. CASE Next
  <2>1. /\ Typed /\ Connections /\ Searches /\ CrashesOnlyIfUnsafe
        /\ ~unsafe => Owned /\ LeftAlone
        /\ OneWriter => CopiesFresh
        /\ ~raced /\ Reported(activity) => ReportLast
    BY DEF IInv
  <2>2. Typed' /\ Connections' /\ Searches'
    BY <1>1, <2>1, NextTypes, NextConnections, NextSearches
  <2>3. ~unsafe' => Owned' /\ LeftAlone'
    BY <1>1, <2>1, NextOwned, NextLeft
  <2>4. CrashesOnlyIfUnsafe'
    BY <1>1, <2>1, NextCrashes
  <2>5. OneWriter' => CopiesFresh'
    BY <1>1, <2>1, NextCopies
  <2>6. ~raced' /\ Reported(activity)' => ReportLast'
    BY <1>1, <2>1, NextReports
  <2> QED BY <2>2, <2>3, <2>4, <2>5, <2>6 DEF IInv
<1>2. CASE UNCHANGED vars
  <2> USE <1>2 DEF vars, plugVars, savedVars, findVars, taskVars, screenVars
  <2>1. Typed' <=> Typed
    BY DEF Typed
  <2>2. \A a : /\ ConnectsOnce(a)' <=> ConnectsOnce(a)
               /\ BoundFirst(a)' <=> BoundFirst(a)
    BY DEF ConnectsOnce, BoundFirst, Connecting, Searching, InQueue, InSession, InMessages,
           ConnectTasks, ConnectAnswers
  <2>3. Connections' <=> Connections
    BY <2>2 DEF Connections, Searching
  <2>4. (Owned' <=> Owned) /\ (LeftAlone' <=> LeftAlone) /\ (Searches' <=> Searches)
    BY DEF Owned, LeftAlone, Awaited, Searches
  <2>5. OneWriter' <=> OneWriter
    BY DEF OneWriter, Wrote
  <2>6. CopiesFresh' <=> CopiesFresh
    BY DEF CopiesFresh, Connecting, Searching, InQueue, InSession, InMessages, Wrote,
           ConnectTasks, ConnectAnswers
  <2>7. (ReportLast' <=> ReportLast) /\ (Reported(activity)' <=> Reported(activity))
    BY DEF ReportLast, Reported, Outcomes
  <2>8. CrashesOnlyIfUnsafe' <=> CrashesOnlyIfUnsafe
    BY DEF CrashesOnlyIfUnsafe
  <2> QED BY <2>1, <2>3, <2>4, <2>5, <2>6, <2>7, <2>8 DEF IInv
<1> QED BY <1>1, <1>2

LEMMA Invariance == Spec => []IInv
<1>1. Spec => Init /\ [][Next]_vars
  BY PTL DEF Spec
<1> QED BY <1>1, InitIInv, NextIInv, PTL

-----------------------------------------------------------------------------
(***************************************************************************)
(* The state on screen: the tasks of an activity run in order, after those of *)
(* the one before, and each brings the state it read or wrote.                *)
(***************************************************************************)
Tasks ==
    {task \in TaskRecords : task.for \in 0 .. activity /\ (task.kind = "connect" => task.for # 0)}

KnownMessages == {m \in Messages : m.activity \in 1 .. activity}

\* Nothing is on behalf of an activity to come.
KnownActivities ==
    /\ queue \in Seq(Tasks) /\ session.task \in Tasks
    /\ messages \in Seq(KnownMessages)

Old == {task \in TaskRecords : task.for \notin {0, activity}}

Mine == {task \in TaskRecords : task.for = activity}

\* The messages that bring a state to the current screen, now or when forwarded.
States == {m \in Messages : m.activity = activity /\ (m.to = "service" \/ m.state # {})}

ToScreen == {m \in Messages : m.to = "system" /\ m.activity = activity}

Wrong == {m \in States : m.what = "none" /\ m.state # {on}}

\* The tasks of former activities run before those of the current one, which knows
\* nothing until then.
OldFirst ==
    /\ AllBefore(queue, Old, Mine)
    /\ Occurs(queue, Old) => session.task.for # activity
    /\ Occurs(queue, Old) \/ session.task \in Old => ~known /\ ~Occurs(messages, States)

\* Until a service has connected, nothing else is done for its activity.
Alone ==
    Connecting(activity) \/ ~system.bound =>
        /\ system.status # "online" /\ ~known
        /\ ~Occurs(queue, Mine \ ConnectTasks(activity))
        /\ session.task \notin Mine \ ConnectTasks(activity)
        /\ ~Occurs(messages, ToScreen)

\* Between the request to switch and the answer the plug is as the task wants it.
Sent ==
    /\ session.pc = "idle" => session.task.for = 0
    /\ session.pc = "sent" => session.task.kind # "connect"
    /\ session.pc = "sent" /\ ~touched => on = session.task.value

\* Another state follows each good answer that is no longer true, and the state on
\* screen when that one is not.
Agrees ==
    /\ FollowedBy(messages, Wrong, States)
    /\ known /\ system.data.status # on => Occurs(messages, States)

ScreenInv ==
    /\ KnownActivities /\ OldFirst /\ Alone /\ Sent
    /\ ~touched /\ session.task.for # activity => Agrees

(* The initial states satisfy it. *)
LEMMA InitScreen == Init => ScreenInv
<1> SUFFICES ASSUME Init PROVE ScreenInv
  OBVIOUS
<1>1. /\ queue = << >> /\ messages = << >> /\ session = Idle /\ session.task = NoTask
      /\ activity = 1 /\ ~known /\ system.status = "loading"
  BY DEF Init, Idle, NewSystem
<1>2. NoTask \in Tasks
  BY <1>1, IdleTyped DEF Tasks, NoTask
<1>3. \A M, N : ~Occurs(queue, M) /\ ~Occurs(messages, M) /\ AllBefore(queue, M, N)
  BY <1>1 DEF Occurs, AllBefore
<1>4. KnownActivities
  BY <1>1, <1>2 DEF KnownActivities
<1>5. session.task \notin Old /\ session.task \notin Mine
  BY <1>1 DEF Old, Mine, NoTask
<1>6. Sent
  BY <1>1 DEF Sent, Idle, NoTask
<1>7. Agrees
  BY <1>1, <1>3 DEF Agrees, FollowedBy
<1> QED BY <1>1, <1>3, <1>4, <1>5, <1>6, <1>7 DEF ScreenInv, OldFirst, Alone

(* Nothing is done on behalf of an activity to come. *)
LEMMA NextKnown ==
    ASSUME Typed, Connections, Next, KnownActivities
    PROVE  KnownActivities'
<1>1. /\ activity \in Nat /\ activity > 0
      /\ activity' \in {activity, activity + 1}
      /\ Connect \/ Moved
  BY NextFrame, ActivitiesAre DEF Frame, Typed
<1> DEFINE T == Tasks
           M == KnownMessages
<1>2. Tasks \subseteq Tasks' /\ KnownMessages \subseteq KnownMessages'
  <2>1. 0 .. activity \subseteq 0 .. activity' /\ 1 .. activity \subseteq 1 .. activity'
    BY <1>1
  <2> QED BY <2>1 DEF Tasks, KnownMessages
<1>3. queue \in Seq(T) /\ session.task \in T /\ messages \in Seq(M)
  BY DEF KnownActivities
<1>4. session \in Sessions
  BY DEF Typed
<1>5. NoTask \in T
  BY <1>1, IdleTyped DEF Tasks, NoTask
<1>6. queue' \in Seq(T) /\ session'.task \in T /\ messages' \in Seq(M)
  <2>1. CASE Connect
    <3> DEFINE task == [kind |-> "connect", for |-> activity, value |-> FALSE,
                        url |-> saved.url]
    <3>1. task \in T
      BY <1>1, ActivitiesAre DEF Tasks, TaskRecords, Typed, Saved
    <3>2. /\ UNCHANGED queue \/ queue' = Append(queue, task)
          /\ UNCHANGED <<session, messages>>
      BY <2>1 DEF Connect
    <3> HIDE DEF task, T, M
    <3> QED BY <1>3, <3>1, <3>2
  <2>2. ASSUME NEW task \in TaskRecords, task.kind = "set", QueueGrows(task)
        PROVE  queue' \in Seq(T) /\ session' = session /\ messages' = messages
    <3>1. task \in T
      BY <1>1, <2>2 DEF QueueGrows, Tasks
    <3> HIDE DEF T
    <3> QED BY <1>3, <2>2, <3>1 DEF QueueGrows
  <2>3. ASSUME NEW m \in Messages, MessageShown(m)
        PROVE  messages' \in Seq(M) /\ session' = session /\ queue' = queue
    <3>1. m.activity \in Activities /\ m.activity \in Nat /\ m.activity > 0
      BY ActivitiesAre DEF Messages
    <3>2. Searching(m.activity)
      BY <2>3, <3>1 DEF MessageShown, Searching, Connections, BoundFirst
    <3>3. m.activity < activity \/ m.activity = activity
      BY <3>1, <3>2 DEF Connections, BoundFirst
    <3>4. m \in M
      BY <1>1, <3>1, <3>3 DEF KnownMessages
    <3> HIDE DEF M
    <3> QED BY <1>3, <2>3, <3>4 DEF MessageShown
  <2>4. ASSUME NEW m \in Messages, MessageForwarded(m)
        PROVE  messages' \in Seq(M) /\ session' = session /\ queue' = queue
    <3>1. Head(messages) \in M /\ Tail(messages) \in Seq(M)
      BY <1>3, <2>4 DEF MessageForwarded
    <3>2. m \in M
      BY <2>4, <3>1 DEF MessageForwarded, KnownMessages, ConnectAnswers
    <3> HIDE DEF M
    <3> QED BY <2>4, <3>1, <3>2 DEF MessageForwarded
  <2>5. CASE MessageTaken
    BY <1>3, <2>5 DEF MessageTaken
  <2>6. CASE TaskStarted
    BY <1>3, <2>6 DEF TaskStarted
  <2>7. CASE TaskGoesOn
    BY <1>3, <2>7 DEF TaskGoesOn
  <2>8. CASE Answered
    <3>1. PICK what \in Errors \ {"find"}, state \in BOOLEAN : Answer(what, state)
      BY <2>8 DEF Answered
    <3>2. queue' = queue /\ session'.task = NoTask
      BY <2>8, <3>1 DEF Answered, Answer, Idle
    <3>3. CASE session.task.for = 0
      BY <1>3, <1>5, <3>1, <3>2, <3>3 DEF Answer
    <3>4. CASE session.task.for # 0
      <4> DEFINE m == [to |-> IF session.task.kind = "connect" THEN "service" ELSE "system",
                       activity |-> session.task.for, what |-> what, state |-> {state}]
      <4>1. messages' = Append(messages, m)
        BY <3>1, <3>4 DEF Answer, Send
      <4>2. session.task.for \in 1 .. activity /\ session.task.for \in Activities
        BY <1>1, <1>3, <1>4, <3>4, ActivitiesAre DEF Tasks, Sessions, TaskRecords
      <4>3. m \in M
        BY <4>2 DEF KnownMessages, Messages
      <4> HIDE DEF m, M, T
      <4> QED BY <1>3, <1>5, <3>2, <4>1, <4>3
    <3> QED BY <3>3, <3>4
  <2>9. CASE UNCHANGED <<queue, session, messages>>
    BY <1>3, <2>9
  <2> HIDE DEF T, M
  <2> QED BY <1>1, <1>3, <2>1, <2>2, <2>3, <2>4, <2>5, <2>6, <2>7, <2>8, <2>9 DEF Moved
<1>7. queue' \in Seq(Tasks') /\ session'.task \in Tasks' /\ messages' \in Seq(KnownMessages')
  <2>1. Seq(T) \subseteq Seq(Tasks') /\ Seq(M) \subseteq Seq(KnownMessages')
    BY <1>2
  <2> QED BY <1>2, <1>6, <2>1
<1> QED BY <1>7 DEF KnownActivities

(* An activity that is new has done and heard nothing. *)
LEMMA ReopenScreen ==
    ASSUME Typed, KnownActivities, Reopen
    PROVE  /\ UNCHANGED <<queue, session, messages>>
           /\ ~known' /\ system'.status = "loading"
           /\ ~Occurs(queue', Mine') /\ session'.task \notin Mine'
           /\ ~Occurs(messages', States') /\ ~Occurs(messages', ToScreen')
<1>1. /\ UNCHANGED <<queue, session, messages>> /\ activity' = activity + 1
      /\ ~known' /\ system' = NewSystem(saved)
  BY DEF Reopen, taskVars
<1>2. activity \in Nat
  BY ActivitiesAre DEF Typed
<1>3. \A task \in Tasks : task \notin Mine'
  BY <1>1, <1>2 DEF Tasks, Mine
<1>4. \A m \in KnownMessages : m \notin States' /\ m \notin ToScreen'
  BY <1>1, <1>2 DEF KnownMessages, States, ToScreen
<1>5. /\ \A i \in 1 .. Len(queue) : queue[i] \in Tasks
      /\ \A i \in 1 .. Len(messages) : messages[i] \in KnownMessages
      /\ session.task \in Tasks
  BY DEF KnownActivities
<1> QED BY <1>1, <1>3, <1>4, <1>5 DEF Occurs, NewSystem

(* What a step does to the screen and to the plug. *)
LEMMA ScreenFrame ==
    ASSUME Typed, Next, ~Reopen
    PROVE  /\ activity' = activity
           /\ \/ HandleSystem /\ ~Crash
              \/ /\ known' = known /\ system'.status = system.status
                 /\ system'.data.status = system.data.status
           /\ Session \/ Press \/ UNCHANGED <<on, touched>>
           /\ Session \/ Start \/ UNCHANGED session
<1> USE DEF screenVars, plugVars, taskVars
<1>1. system \in WemoSystems /\ system.data \in Saved
  BY DEF Typed, WemoSystems
<1>2. ASSUME UNCHANGED <<screenVars, plugVars, session>>
      PROVE  /\ activity' = activity /\ known' = known /\ system' = system
             /\ UNCHANGED <<on, touched, session>>
  BY <1>2
<1>3. CASE PostTimeout \/ RequestPlugSwitch \/ HandleGone \/ HandleConnect
  <2>1. PostTimeout => UNCHANGED <<screenVars, plugVars, session>>
    BY DEF PostTimeout
  <2>2. RequestPlugSwitch => UNCHANGED <<screenVars, plugVars, session>>
    BY DEF RequestPlugSwitch
  <2>3. HandleGone => UNCHANGED <<screenVars, plugVars, session>>
    BY DEF HandleGone, Crash
  <2>4. HandleConnect => UNCHANGED <<screenVars, plugVars, session>>
    BY DEF HandleConnect, Crash
  <2> QED BY <1>2, <1>3, <2>1, <2>2, <2>3, <2>4
<1>4. CASE Connect
  <2>1. system' = [system EXCEPT !.bound = TRUE]
    BY <1>4 DEF Connect
  <2>2. system'.status = system.status /\ system'.data = system.data
    BY <1>1, <2>1 DEF WemoSystems
  <2> QED BY <1>4, <2>2 DEF Connect
<1>5. CASE Crash
  BY <1>2, <1>5 DEF Crash
<1>15. CASE Navigate
  <2>1. CASE Quietly
    BY <2>1 DEF Quietly, NavigationUnchanged, SameSystem
  <2>2. CASE Restore
    BY <2>2 DEF Restore
  <2> QED BY <1>5, <1>15, <2>1, <2>2, NavigateSteps
<1>6. CASE HandleSystem /\ ~Crash
  BY <1>6 DEF HandleSystem
<1>7. ASSUME NEW name \in NewNames, ApplySettings(name)
      PROVE  /\ activity' = activity /\ known' = known /\ system'.status = system.status
             /\ system'.data.status = system.data.status
             /\ UNCHANGED <<on, touched, session>>
  <2>1. system' = [system EXCEPT !.data.name = name]
    BY <1>7 DEF ApplySettings
  <2>2. system'.status = system.status /\ system'.data = [system.data EXCEPT !.name = name]
    BY <1>1, <2>1 DEF WemoSystems
  <2>3. system'.data.status = system.data.status
    BY <1>1, <2>2 DEF Saved
  <2> QED BY <1>7, <2>2, <2>3 DEF ApplySettings
<1>8. ASSUME NEW value \in Switches, OnStartCommand(value)
      PROVE  /\ activity' = activity /\ known' = known /\ system' = system
             /\ UNCHANGED <<on, touched, session>>
  BY <1>8 DEF OnStartCommand
<1>9. ASSUME NEW a \in Activities, FindTimeout(a) \/ Find(a) \/ Receive(a)
      PROVE  /\ activity' = activity /\ known' = known /\ system' = system
             /\ UNCHANGED <<on, touched, session>>
  <2>1. UNCHANGED <<screenVars, plugVars, session>>
    BY <1>9 DEF FindTimeout, Find, Bind, BindFails, Report, RemoveTimeout, Receive,
                FinderUnchanged
  <2> QED BY <1>2, <2>1
<1>10. CASE Collect
  BY <1>2, <1>10 DEF Collect, FinderUnchanged
<1>11. CASE Start
  BY <1>11 DEF Start, TaskUnchanged
<1>12. CASE Session
  BY <1>12 DEF Session, GetState, SetState, SetAnswered, Retry, TaskUnchanged
<1>13. CASE Press
  BY <1>13 DEF Press
<1>14. ASSUME NEW url, Move(url)
       PROVE  /\ activity' = activity /\ known' = known /\ system' = system
              /\ UNCHANGED <<on, touched, session>>
  BY <1>14 DEF Move
<1> QED BY <1>3, <1>4, <1>5, <1>6, <1>7, <1>8, <1>9, <1>10, <1>11, <1>12, <1>13, <1>14,
           <1>15 DEF Next, Handle

(* Handling a message that brings no state tells the screen nothing. *)
LEMMA SystemKnows ==
    ASSUME Typed, HandleSystem, ~Crash
    PROVE  /\ messages # << >> /\ messages' = Tail(messages)
           /\ Head(messages) \in ToScreen /\ activity' = activity
           /\ UNCHANGED <<queue, session, on, touched>>
           /\ Head(messages) \notin States =>
                 known' = known /\ system'.data.status = system.data.status
           /\ known' /\ system'.data.status # on /\ Head(messages) \in States =>
                 Head(messages) \in Wrong
<1> DEFINE m == Head(messages)
<1>1. /\ messages # << >> /\ messages' = Tail(messages) /\ m \in Messages
      /\ m.to = "system" /\ m.activity = activity /\ activity' = activity
      /\ UNCHANGED <<queue, session, on, touched>>
      /\ system' = Responded(system, m)
      /\ known' = IF m.state = {} THEN known ELSE m.what = "none"
  BY DEF HandleSystem, Typed, taskVars, plugVars
<1> HIDE DEF m
<1>2. system \in WemoSystems /\ system.data \in Saved /\ on \in BOOLEAN
  BY DEF Typed, WemoSystems
<1>3. system'.data.status = IF m.state = {} THEN system.data.status
                            ELSE CHOOSE state \in m.state : TRUE
  <2> DEFINE told == Told(system, m.what)
             new == IF m.state = {} THEN told.data.status
                    ELSE CHOOSE state \in m.state : TRUE
  <2>1. told.data = system.data /\ DOMAIN told = DOMAIN system
    BY <1>2 DEF Told, WemoSystems
  <2>2. system' = [told EXCEPT !.data.status = new]
    BY <1>1 DEF Responded
  <2> HIDE DEF told
  <2>3. system'.data.status = new
    BY <1>2, <2>1, <2>2 DEF WemoSystems, Saved
  <2> QED BY <2>1, <2>3
<1>4. m \in States <=> m.state # {}
  BY <1>1 DEF States
<1>5. ASSUME known', system'.data.status # on, m \in States
      PROVE  m \in Wrong
  <2>1. m.what = "none" /\ (CHOOSE state \in m.state : TRUE) \in m.state
    BY <1>1, <1>4, <1>5
  <2>2. m.state # {on}
    BY <1>3, <1>4, <1>5, <2>1
  <2> QED BY <1>5, <2>1, <2>2 DEF Wrong
<1>6. m \in ToScreen
  BY <1>1 DEF ToScreen
<1> QED BY <1>1, <1>3, <1>4, <1>5, <1>6 DEF m

(* The answer forwarded was the one token of its service. *)
LEMMA AnswerForwarded ==
    ASSUME Typed, NEW a \in Activities, ConnectsOnce(a),
           NEW m \in Messages, MessageForwarded(m), m.activity = a
    PROVE  Connecting(a) /\ ~Connecting(a)'
<1> DEFINE T == ConnectTasks(a)
           A == ConnectAnswers(a)
<1>1. /\ OccursOnce(messages, A)
      /\ Occurs(queue, T) => ~Occurs(messages, A)
      /\ session.task \in T => ~Occurs(messages, A)
  BY DEF ConnectsOnce, InQueue, InSession, InMessages
<1> HIDE DEF T
<1>2. /\ messages \in Seq(Messages) /\ messages # << >>
      /\ messages' = Append(Tail(messages), m) /\ Tail(messages) \in Seq(Messages)
  BY DEF Typed, MessageForwarded
<1>3. Head(messages) \in A /\ m \notin A
  BY DEF MessageForwarded, Shown, ConnectAnswers
<1> HIDE DEF A
<1>4. Occurs(messages, A) /\ ~Occurs(Tail(messages), A)
  BY <1>1, <1>2, <1>3, OccursInTail
<1>5. ~Occurs(messages', A)
  BY <1>2, <1>3, <1>4, OccursInAppend
<1>6. ~Occurs(queue', T) /\ session'.task \notin T
  BY <1>1, <1>4 DEF MessageForwarded
<1> QED BY <1>4, <1>5, <1>6 DEF Connecting, InQueue, InSession, InMessages, T, A,
           ConnectTasks, ConnectAnswers

(* The tasks of former activities stay first. *)
LEMMA NextOldFirst ==
    ASSUME Typed, Connections, Next, KnownActivities, OldFirst
    PROVE  OldFirst'
<1>1. CASE Reopen
  <2>1. /\ ~known' /\ ~Occurs(queue', Mine') /\ session'.task \notin Mine'
        /\ ~Occurs(messages', States')
    BY <1>1, ReopenScreen
  <2>2. AllBefore(queue', Old', Mine')
    BY <2>1 DEF AllBefore, Occurs
  <2>3. session'.task.for # activity'
    <3>1. session' = session /\ session.task \in TaskRecords
      BY <1>1 DEF Reopen, taskVars, Typed, Sessions
    <3> QED BY <2>1, <3>1 DEF Mine
  <2> QED BY <2>1, <2>2, <2>3 DEF OldFirst
<1>2. CASE ~Reopen
  <2> DEFINE O == Old
             P == Mine
             S == States
  <2>1. activity' = activity /\ activity \in Nat /\ activity # 0 /\ (Connect \/ Moved)
    BY <1>2, ScreenFrame, NextFrame, ActivitiesAre DEF Typed
  <2>2. /\ queue \in Seq(TaskRecords) /\ messages \in Seq(Messages)
        /\ session.task \in TaskRecords
    BY DEF Typed, Sessions
  <2>3. /\ AllBefore(queue, O, P)
        /\ Occurs(queue, O) => session.task.for # activity
        /\ Occurs(queue, O) \/ session.task \in O => ~known /\ ~Occurs(messages, S)
    BY DEF OldFirst
  <2>4. SUFFICES /\ AllBefore(queue', O, P)
                 /\ Occurs(queue', O) => session'.task.for # activity
                 /\ Occurs(queue', O) \/ session'.task \in O => ~known' /\ ~Occurs(messages', S)
    BY <2>1 DEF OldFirst, Old, Mine, States
  <2>5. \A task \in TaskRecords : task.for \in {0, activity} => task \notin O
    BY DEF Old
  <2>6. \A task \in TaskRecords : task \in P <=> task.for = activity
    BY DEF Mine
  <2>7. ~known /\ ~Occurs(messages, S) => ~known'
    <3>1. CASE HandleSystem /\ ~Crash
      BY <2>2, <3>1, SystemKnows, OccursInTail
    <3>2. CASE ~(HandleSystem /\ ~Crash)
      BY <1>2, <3>2, ScreenFrame
    <3> QED BY <3>1, <3>2
  <2>8. ASSUME NEW m \in Messages, MessageShown(m) PROVE m \notin S
    BY <2>8 DEF MessageShown, Shown, States
  <2>9. ASSUME NEW m \in Messages, MessageForwarded(m), m \in S PROVE Head(messages) \in S
    BY <2>9 DEF MessageForwarded, ConnectAnswers, States
  <2>10. \A m \in S : m \in Messages /\ m.activity = activity
    BY DEF States
  <2>11. ASSUME NEW task \in TaskRecords, task.for \in {0, activity},
                queue' = Append(queue, task), UNCHANGED <<session, messages>>
         PROVE  /\ AllBefore(queue', O, P) /\ (Occurs(queue', O) => Occurs(queue, O))
                /\ UNCHANGED <<session, messages>>
    <3>1. task \notin O
      BY <2>5, <2>11
    <3> HIDE DEF O, P
    <3> QED BY <2>2, <2>3, <2>11, <3>1, BeforeInAppend, OccursInAppend
  <2> HIDE DEF O, P, S
  <2>12. CASE Connect
    <3> DEFINE task == [kind |-> "connect", for |-> activity, value |-> FALSE,
                        url |-> saved.url]
    <3>1. task \in TaskRecords /\ task.for \in {0, activity}
      BY <2>1, ActivitiesAre DEF TaskRecords, Typed, Saved
    <3>2. /\ UNCHANGED queue \/ queue' = Append(queue, task)
          /\ UNCHANGED <<session, messages>>
      BY <2>12 DEF Connect
    <3> HIDE DEF task
    <3> QED BY <2>3, <2>7, <2>11, <3>1, <3>2
  <2>13. CASE \E task \in TaskRecords : task.kind = "set" /\ QueueGrows(task)
    <3>1. PICK task \in TaskRecords : QueueGrows(task)
      BY <2>13
    <3>2. /\ task.for \in {0, activity} /\ queue' = Append(queue, task)
          /\ UNCHANGED <<session, messages>>
      BY <3>1 DEF QueueGrows
    <3> QED BY <2>3, <2>7, <2>11, <3>2
  <2>14. CASE \E m \in Messages : MessageShown(m)
    <3>1. PICK m \in Messages : MessageShown(m)
      BY <2>14
    <3>2. messages' = Append(messages, m) /\ UNCHANGED <<queue, session>> /\ m \notin S
      BY <2>8, <3>1 DEF MessageShown
    <3>3. Occurs(messages', S) <=> Occurs(messages, S)
      BY <2>2, <3>2, OccursInAppend
    <3> QED BY <2>3, <2>7, <3>2, <3>3
  <2>15. CASE MessageTaken
    <3>1. Occurs(messages', S) => Occurs(messages, S)
      BY <2>2, <2>15, OccursInTail DEF MessageTaken
    <3> QED BY <2>3, <2>7, <2>15, <3>1 DEF MessageTaken
  <2>16. CASE \E m \in Messages : MessageForwarded(m)
    <3>1. PICK m \in Messages : MessageForwarded(m)
      BY <2>16
    <3> DEFINE t == Tail(messages)
    <3>2. /\ messages # << >> /\ messages' = Append(t, m) /\ UNCHANGED <<queue, session>>
          /\ t \in Seq(Messages)
      BY <2>2, <3>1 DEF MessageForwarded
    <3>3. Occurs(t, S) \/ m \in S => Occurs(messages, S)
      BY <2>2, <2>9, <3>1, <3>2, OccursInTail
    <3> HIDE DEF t
    <3>4. Occurs(messages', S) => Occurs(messages, S)
      BY <3>2, <3>3, OccursInAppend
    <3> QED BY <2>3, <2>7, <3>2, <3>4
  <2>17. CASE TaskStarted
    <3>1. /\ queue # << >> /\ queue' = Tail(queue) /\ session'.task = Head(queue)
          /\ messages' = messages /\ Head(queue) \in TaskRecords
      BY <2>2, <2>17 DEF TaskStarted
    <3>2. /\ AllBefore(queue', O, P)
          /\ Head(queue) \in P => ~Occurs(queue', O)
      BY <2>2, <2>3, <3>1, BeforeInTail
    <3>3. Occurs(queue, O) <=> session'.task \in O \/ Occurs(queue', O)
      BY <2>2, <3>1, OccursInTail
    <3> QED BY <2>3, <2>6, <2>7, <3>1, <3>2, <3>3
  <2>18. CASE TaskGoesOn
    BY <2>3, <2>7, <2>18 DEF TaskGoesOn
  <2>19. CASE Answered
    <3>1. PICK what \in Errors \ {"find"}, state \in BOOLEAN : Answer(what, state)
      BY <2>19 DEF Answered
    <3>2. queue' = queue /\ session'.task = NoTask
      BY <2>19, <3>1 DEF Answered, Answer, Idle
    <3>3. session'.task.for = 0 /\ session'.task \notin O
      BY <2>5, <3>2, IdleTyped DEF NoTask
    <3>4. CASE session.task.for = 0
      <4>1. messages' = messages
        BY <3>1, <3>4 DEF Answer
      <4> QED BY <2>1, <2>3, <2>7, <3>2, <3>3, <4>1
    <3>5. CASE session.task.for # 0
      <4> DEFINE m == [to |-> IF session.task.kind = "connect" THEN "service" ELSE "system",
                       activity |-> session.task.for, what |-> what, state |-> {state}]
      <4>1. messages' = Append(messages, m) /\ m.activity = session.task.for
        BY <3>1, <3>5 DEF Answer, Send
      <4> HIDE DEF m
      <4>2. Occurs(queue, O) => m \notin S
        BY <2>3, <2>10, <4>1
      <4>3. Occurs(messages', S) <=> Occurs(messages, S) \/ m \in S
        BY <2>2, <4>1, OccursInAppend
      <4> QED BY <2>1, <2>3, <2>7, <3>2, <3>3, <4>2, <4>3
    <3> QED BY <3>4, <3>5
  <2>20. CASE UNCHANGED <<queue, session, messages>>
    BY <2>3, <2>7, <2>20
  <2> QED BY <2>1, <2>12, <2>13, <2>14, <2>15, <2>16, <2>17, <2>18, <2>19, <2>20 DEF Moved
<1> QED BY <1>1, <1>2

(* The tasks between a request and its answer. *)
LEMMA NextSent ==
    ASSUME Typed, KnownActivities, Next, Sent
    PROVE  Sent'
<1>1. session \in Sessions /\ session.task \in TaskRecords
  BY DEF Typed, Sessions
<1>2. CASE Reopen
  BY <1>2 DEF Reopen, taskVars, plugVars, Sent
<1>3. CASE Start
  <2>1. session'.pc = "try"
    BY <1>3 DEF Start
  <2> QED BY <2>1 DEF Sent
<1>4. CASE SetState
  <2>1. /\ session.task.kind = "set" /\ on' = session.task.value
        /\ session' = [session EXCEPT !.pc = "sent"]
    BY <1>4 DEF SetState
  <2>2. session'.pc = "sent" /\ session'.task = session.task
    BY <1>1, <2>1 DEF Sessions
  <2> QED BY <2>1, <2>2 DEF Sent
<1>5. CASE GetState \/ SetAnswered \/ Retry
  <2>1. session' = Idle \/ session' = [session EXCEPT !.pc = "try", !.tries = @ - 1]
    BY <1>5 DEF GetState, SetAnswered, Retry, Answer
  <2>2. CASE session' = Idle
    BY <2>2 DEF Sent, Idle, NoTask
  <2>3. CASE session' = [session EXCEPT !.pc = "try", !.tries = @ - 1]
    <3>1. session'.pc = "try"
      BY <1>1, <2>3 DEF Sessions
    <3> QED BY <3>1 DEF Sent
  <2> QED BY <2>1, <2>2, <2>3
<1>6. CASE Press
  BY <1>6 DEF Press, taskVars, Sent
<1>7. CASE ~Reopen /\ ~Start /\ ~Session /\ ~Press
  BY <1>7, ScreenFrame DEF Sent
<1> QED BY <1>2, <1>3, <1>4, <1>5, <1>6, <1>7 DEF Session

(* Until its service has connected, nothing else is done for an activity. *)
LEMMA NextAlone ==
    ASSUME Typed, Connections, Next, KnownActivities, Alone
    PROVE  Alone'
<1>1. CASE Reopen
  <2>1. /\ ~known' /\ system'.status = "loading" /\ ~Occurs(queue', Mine')
        /\ session'.task \notin Mine' /\ ~Occurs(messages', ToScreen')
    BY <1>1, ReopenScreen
  <2>2. ASSUME NEW N PROVE ~Occurs(queue', Mine' \ N) /\ session'.task \notin Mine' \ N
    BY <2>1 DEF Occurs
  <2> QED BY <2>1, <2>2 DEF Alone
<1>2. CASE ~Reopen
  <2> DEFINE O == Mine \ ConnectTasks(activity)
             S == ToScreen
  <2>1. /\ activity' = activity /\ activity \in Activities /\ activity \in Nat /\ activity # 0
        /\ ConnectsOnce(activity) /\ BoundFirst(activity)
    BY <1>2, ScreenFrame, ActivitiesAre DEF Typed, Connections
  <2>2. /\ queue \in Seq(TaskRecords) /\ messages \in Seq(Messages)
        /\ session.task \in TaskRecords
    BY DEF Typed, Sessions
  <2>3. /\ O' = O /\ S' = S
        /\ NoTask \notin O
    BY <2>1 DEF Mine, ConnectTasks, ToScreen, NoTask
  <2>4. SUFFICES ASSUME Connecting(activity)' \/ ~system'.bound
                 PROVE  /\ system'.status # "online" /\ ~known'
                        /\ ~Occurs(queue', O) /\ session'.task \notin O
                        /\ ~Occurs(messages', S)
    BY <2>1, <2>3 DEF Alone
  <2>5. (system.bound => system'.bound) /\ (Connect \/ Moved)
    BY <1>2, NextFrame DEF Frame
  <2>6. Connecting(activity) \/ ~system.bound
    <3>1. CASE Connect
      BY <3>1 DEF Connect
    <3>2. CASE Moved
      <4>1. Connecting(activity)' => Connecting(activity)
        BY <2>1, <3>2, TokensKept DEF Connecting, InQueue, InSession, InMessages,
           ConnectTasks, ConnectAnswers
      <4> QED BY <2>4, <2>5, <4>1
    <3> QED BY <2>5, <3>1, <3>2
  <2>7. /\ system.status # "online" /\ ~known
        /\ ~Occurs(queue, O) /\ session.task \notin O
        /\ ~Occurs(messages, S)
    BY <2>6 DEF Alone
  <2>8. ~Searching(activity)
    BY <2>1, <2>6 DEF BoundFirst
  <2>9. system'.status # "online" /\ ~known'
    <3>1. CASE HandleSystem /\ ~Crash
      BY <2>2, <2>7, <3>1, SystemKnows, OccursInTail
    <3>2. CASE ~(HandleSystem /\ ~Crash)
      BY <1>2, <2>7, <3>2, ScreenFrame
    <3> QED BY <3>1, <3>2
  <2>10. ASSUME NEW task \in TaskRecords, task \in O
         PROVE  task.for = activity /\ task.kind # "connect"
    BY <2>10 DEF Mine, ConnectTasks
  <2>11. \A m \in Messages : m \in S <=> m.to = "system" /\ m.activity = activity
    BY DEF ToScreen
  <2>12. session.task.for = activity => session.task.kind = "connect"
    BY <2>2, <2>7 DEF Mine, ConnectTasks
  <2> HIDE DEF O, S
  <2>13. CASE Connect
    <3> DEFINE task == [kind |-> "connect", for |-> activity, value |-> FALSE,
                        url |-> saved.url]
    <3>1. task \in TaskRecords /\ task.kind = "connect"
      BY <2>1, ActivitiesAre DEF TaskRecords, Typed, Saved
    <3>2. /\ UNCHANGED queue \/ queue' = Append(queue, task)
          /\ UNCHANGED <<session, messages>>
      BY <2>13 DEF Connect
    <3> HIDE DEF task
    <3>3. ~Occurs(queue', O)
      BY <2>2, <2>7, <2>10, <3>1, <3>2, OccursInAppend
    <3> QED BY <2>7, <2>9, <3>2, <3>3
  <2>14. CASE \E task \in TaskRecords : task.kind = "set" /\ QueueGrows(task)
    <3>1. PICK task \in TaskRecords : QueueGrows(task)
      BY <2>14
    <3>2. /\ queue' = Append(queue, task) /\ UNCHANGED <<session, messages>>
          /\ task \notin O
      BY <2>1, <2>7, <2>10, <3>1 DEF QueueGrows
    <3>3. ~Occurs(queue', O)
      BY <2>2, <2>7, <3>2, OccursInAppend
    <3> QED BY <2>7, <2>9, <3>2, <3>3
  <2>15. CASE \E m \in Messages : MessageShown(m)
    <3>1. PICK m \in Messages : MessageShown(m)
      BY <2>15
    <3>2. m \notin S
      <4>1. m.activity = activity => Searching(activity)
        BY <2>1, <3>1 DEF MessageShown, BoundFirst, Searching
      <4> QED BY <2>8, <2>11, <4>1
    <3>3. messages' = Append(messages, m) /\ UNCHANGED <<queue, session>>
      BY <3>1 DEF MessageShown
    <3>4. ~Occurs(messages', S)
      BY <2>2, <2>7, <3>2, <3>3, OccursInAppend
    <3> QED BY <2>7, <2>9, <3>3, <3>4
  <2>16. CASE MessageTaken
    <3>1. ~Occurs(messages', S)
      BY <2>2, <2>7, <2>16, OccursInTail DEF MessageTaken
    <3> QED BY <2>7, <2>9, <2>16, <3>1 DEF MessageTaken
  <2>17. CASE \E m \in Messages : MessageForwarded(m)
    <3>1. PICK m \in Messages : MessageForwarded(m)
      BY <2>17
    <3>2. m.activity # activity
      <4>1. ASSUME m.activity = activity PROVE FALSE
        <5>1. Connecting(activity) /\ ~Connecting(activity)'
          <6>1. ASSUME NEW a \in Activities, a = activity
                PROVE  Connecting(a) /\ ~Connecting(a)'
            BY <2>1, <3>1, <4>1, <6>1, AnswerForwarded
          <6> QED BY <2>1, <6>1 DEF Connecting, InQueue, InSession, InMessages,
                  ConnectTasks, ConnectAnswers
        <5>2. system.bound
          BY <2>1, <5>1 DEF BoundFirst
        <5> QED BY <2>4, <2>5, <5>1, <5>2
      <4> QED BY <4>1
    <3> DEFINE t == Tail(messages)
    <3>3. /\ messages # << >> /\ messages' = Append(t, m) /\ UNCHANGED <<queue, session>>
          /\ t \in Seq(Messages) /\ m \notin S
      BY <2>2, <2>11, <3>1, <3>2 DEF MessageForwarded
    <3>4. ~Occurs(t, S)
      BY <2>2, <2>7, <3>3, OccursInTail
    <3> HIDE DEF t
    <3>5. ~Occurs(messages', S)
      BY <3>3, <3>4, OccursInAppend
    <3> QED BY <2>7, <2>9, <3>3, <3>5
  <2>18. CASE TaskStarted
    <3>1. ~Occurs(queue', O) /\ session'.task \notin O
      BY <2>2, <2>7, <2>18, OccursInTail DEF TaskStarted
    <3> QED BY <2>7, <2>9, <2>18, <3>1 DEF TaskStarted
  <2>19. CASE TaskGoesOn
    BY <2>7, <2>9, <2>19 DEF TaskGoesOn
  <2>20. CASE Answered
    <3>1. PICK what \in Errors \ {"find"}, state \in BOOLEAN : Answer(what, state)
      BY <2>20 DEF Answered
    <3>2. queue' = queue /\ session'.task \notin O
      BY <2>3, <2>20, <3>1 DEF Answered, Answer, Idle
    <3>3. CASE session.task.for = 0
      <4>1. messages' = messages
        BY <3>1, <3>3 DEF Answer
      <4> QED BY <2>7, <2>9, <3>2, <4>1
    <3>4. CASE session.task.for # 0
      <4> DEFINE m == [to |-> IF session.task.kind = "connect" THEN "service" ELSE "system",
                       activity |-> session.task.for, what |-> what, state |-> {state}]
      <4>1. messages' = Append(messages, m)
        BY <3>1, <3>4 DEF Answer, Send
      <4>2. m \notin Messages \/ ~(m.to = "system" /\ m.activity = activity)
        BY <2>12
      <4>3. m \in Messages
        BY <2>2, <3>4, ActivitiesAre DEF Messages, TaskRecords
      <4> HIDE DEF m
      <4>4. ~Occurs(messages', S)
        BY <2>2, <2>7, <2>11, <4>1, <4>2, <4>3, OccursInAppend
      <4> QED BY <2>7, <2>9, <3>2, <4>4
    <3> QED BY <3>3, <3>4
  <2>21. CASE UNCHANGED <<queue, session, messages>>
    BY <2>7, <2>9, <2>21
  <2> QED BY <2>5, <2>13, <2>14, <2>15, <2>16, <2>17, <2>18, <2>19, <2>20, <2>21 DEF Moved
<1> QED BY <1>1, <1>2

(* Before an activity's own tasks run, no state is on its way. *)
LEMMA OldKnowsNothing ==
    ASSUME Typed, OldFirst, session.task.for # 0, session.task.for # activity
    PROVE  ~known /\ ~Occurs(messages, States)
<1>1. session.task \in Old
  BY DEF Old, Typed, Sessions
<1> QED BY <1>1 DEF OldFirst

(* The answer of a task agrees, if the plug is as the task says. *)
LEMMA AnswerAgrees ==
    ASSUME Typed, KnownActivities, OldFirst, Next, ~Reopen, UNCHANGED <<known, on, system>>,
           NEW what \in Errors, NEW state \in BOOLEAN, Answer(what, state),
           session.task.for = activity => what # "none" \/ state = on,
           session.task.for = 0 => Agrees
    PROVE  Agrees'
<1>1. activity' = activity /\ activity # 0
  BY ScreenFrame, ActivitiesAre DEF Typed
<1>2. States' = States /\ Wrong' = Wrong
  BY <1>1 DEF States, Wrong
<1> DEFINE S == States
           W == Wrong
<1>3. SUFFICES /\ FollowedBy(messages', W, S)
               /\ known /\ system.data.status # on => Occurs(messages', S)
  BY <1>2 DEF Agrees
<1>4. CASE session.task.for = 0
  <2>1. messages' = messages
    BY <1>4 DEF Answer
  <2> QED BY <1>4, <2>1 DEF Agrees
<1>5. CASE session.task.for # 0
  <2> DEFINE m == [to |-> IF session.task.kind = "connect" THEN "service" ELSE "system",
                   activity |-> session.task.for, what |-> what, state |-> {state}]
  <2>1. messages' = Append(messages, m) /\ messages \in Seq(Messages)
    BY <1>5 DEF Answer, Send, Typed
  <2>2. m \in Messages
    BY <1>5, ActivitiesAre DEF Messages, Typed, Sessions, TaskRecords
  <2>3. m.activity = session.task.for /\ m.what = what /\ m.state = {state}
    OBVIOUS
  <2> HIDE DEF m
  <2>4. CASE session.task.for = activity
    <3>1. m \in S /\ m \notin W
      BY <2>2, <2>3, <2>4 DEF States, Wrong
    <3> HIDE DEF S, W
    <3> QED BY <2>1, <3>1, OccursInAppend, FollowedInAppend
  <2>5. CASE session.task.for # activity
    <3>1. ~known /\ ~Occurs(messages, S)
      BY <1>5, <2>5, OldKnowsNothing
    <3>2. m \notin S
      BY <2>3, <2>5 DEF States
    <3>3. W \subseteq S
      BY DEF Wrong
    <3> HIDE DEF S, W
    <3>4. ~Occurs(messages', S)
      BY <2>1, <3>1, <3>2, OccursInAppend
    <3>5. ~Occurs(messages', W)
      BY <3>3, <3>4 DEF Occurs
    <3> QED BY <3>1, <3>5 DEF FollowedBy, Occurs
  <2> QED BY <2>4, <2>5
<1> QED BY <1>4, <1>5

(* The steps that leave session, plug and what the screen knows alone. *)
LEMMA MessagesAgree ==
    ASSUME Typed, Connections, Alone, Agrees, Next, ~Reopen,
           UNCHANGED <<session, on>>
    PROVE  Agrees'
<1> DEFINE S == States
           W == Wrong
<1>1. /\ activity' = activity /\ activity \in Activities
      /\ ConnectsOnce(activity)
  BY ScreenFrame DEF Typed, Connections
<1>2. States' = States /\ Wrong' = Wrong
  BY <1>1 DEF States, Wrong
<1>3. /\ messages \in Seq(Messages)
      /\ FollowedBy(messages, W, S)
      /\ known /\ system.data.status # on => Occurs(messages, S)
  BY DEF Typed, Agrees
<1>4. SUFFICES /\ FollowedBy(messages', W, S)
               /\ known' /\ system'.data.status # on => Occurs(messages', S)
  BY <1>2 DEF Agrees
<1>5. CASE HandleSystem /\ ~Crash
  <2> DEFINE m == Head(messages)
  <2>1. /\ messages # << >> /\ messages' = Tail(messages)
        /\ m \notin S => known' = known /\ system'.data.status = system.data.status
        /\ known' /\ system'.data.status # on /\ m \in S => m \in W
    BY <1>5, SystemKnows
  <2> HIDE DEF S, W
  <2>2. FollowedBy(messages', W, S) /\ (m \in W => Occurs(messages', S))
    BY <1>3, <2>1, FollowedInTail
  <2>3. Occurs(messages, S) <=> m \in S \/ Occurs(messages', S)
    BY <1>3, <2>1, OccursInTail
  <2> QED BY <1>3, <2>1, <2>2, <2>3
<1>6. CASE HandleConnect
  <2> DEFINE m == Head(messages)
             a == m.activity
             shown == ToSystem(a, "none", m.state)
             t == Tail(messages)
  <2>1. /\ messages # << >> /\ m \in Messages /\ m.to = "service"
        /\ known' = known /\ system' = system
    BY <1>6 DEF HandleConnect, Crash, Typed, screenVars
  <2>2. \/ messages' = messages
        \/ m.what = "none" /\ messages' = Append(t, shown)
        \/ m.what # "none" /\ messages' = t
    BY <1>6 DEF HandleConnect, Crash
  <2>4. CASE a = activity
    <3>1. m \in ConnectAnswers(activity)
      BY <2>1, <2>4 DEF ConnectAnswers
    <3>2. Occurs(messages, ConnectAnswers(activity))
      BY <1>3, <2>1, <3>1, OccursInTail
    <3>3. ~known
      BY <3>2 DEF Alone, Connecting, InMessages
    <3>4. m \in S
      BY <2>1, <2>4 DEF States
    <3>5. ~Occurs(t, S)
      <4>1. ~Occurs(messages, ToScreen)
        BY <3>2 DEF Alone, Connecting, InMessages
      <4>2. ~Occurs(t, ToScreen)
        BY <1>3, <2>1, <4>1, OccursInTail
      <4>3. ~Occurs(t, ConnectAnswers(activity))
        BY <1>1, <1>3, <2>1, <3>1, OccursInTail DEF ConnectsOnce
      <4>4. \A x \in S : x \in ToScreen \/ x \in ConnectAnswers(activity)
        BY DEF States, ToScreen, ConnectAnswers, Messages
      <4> HIDE DEF S, t
      <4> QED BY <4>2, <4>3, <4>4 DEF Occurs
    <3>6. FollowedBy(t, W, S) /\ t \in Seq(Messages) /\ m \notin W
      <4> HIDE DEF W, S
      <4> QED BY <1>3, <2>1, <3>5, FollowedInTail
    <3>7. m.what = "none" => shown \notin W
      <4>1. m.what = "none" => m.state = {on}
        BY <3>4, <3>6 DEF Wrong
      <4>2. shown.what = "none" /\ shown.state = m.state
        BY DEF ToSystem
      <4> HIDE DEF shown, m
      <4> QED BY <4>1, <4>2 DEF Wrong
    <3> HIDE DEF W, S, t, shown, m
    <3> QED BY <1>3, <2>1, <2>2, <3>3, <3>6, <3>7, FollowedInAppend
  <2>5. CASE a # activity
    <3>1. m \notin S
      BY <2>5 DEF States
    <3>2. shown \notin S /\ shown \notin W
      BY <2>5 DEF ToSystem, States, Wrong
    <3> HIDE DEF W, S, shown, m
    <3>3. FollowedBy(t, W, S) /\ t \in Seq(Messages)
      BY <1>3, <2>1, FollowedInTail
    <3>4. Occurs(messages, S) => Occurs(t, S)
      BY <1>3, <2>1, <3>1, OccursInTail DEF m
    <3> HIDE DEF t
    <3>5. FollowedBy(messages', W, S) /\ (Occurs(messages, S) => Occurs(messages', S))
      <4>1. CASE messages' = messages
        BY <1>3, <4>1
      <4>2. CASE messages' = t
        BY <3>3, <3>4, <4>2
      <4>3. CASE messages' = Append(t, shown)
        <5>1. FollowedBy(Append(t, shown), W, S)
          BY <3>2, <3>3, FollowedInAppend
        <5>2. Occurs(Append(t, shown), S) <=> Occurs(t, S)
          BY <3>2, <3>3, OccursInAppend
        <5> QED BY <3>4, <4>3, <5>1, <5>2
      <4> QED BY <2>2, <4>1, <4>2, <4>3
    <3> QED BY <1>3, <2>1, <3>5
  <2> QED BY <2>4, <2>5
<1>7. CASE HandleGone
  <2> DEFINE m == Head(messages)
  <2>1. /\ messages # << >> /\ m.activity # activity
        /\ known' = known /\ system' = system
        /\ messages' = messages \/ messages' = Tail(messages)
    BY <1>7 DEF HandleGone, Crash, screenVars
  <2>2. m \notin S
    BY <2>1 DEF States
  <2> HIDE DEF S, W
  <2>3. FollowedBy(Tail(messages), W, S)
    BY <1>3, <2>1, FollowedInTail
  <2>4. Occurs(messages, S) => Occurs(Tail(messages), S)
    BY <1>3, <2>1, <2>2, OccursInTail
  <2> QED BY <1>3, <2>1, <2>3, <2>4
<1>8. CASE ~Handle
  <2>1. known' = known /\ system'.data.status = system.data.status
    BY <1>8, ScreenFrame DEF Handle
  <2>2. ASSUME NEW a \in Activities, FindTimeout(a) \/ Report(a)
        PROVE  \E m : m.state = {} /\ m.to = "system" /\ messages' = Append(messages, m)
    <3>1. ToSystem(a, "find", {}).state = {} /\ ToSystem(a, "find", {}).to = "system"
      BY DEF ToSystem
    <3>2. ToSystem(a, "none", {}).state = {} /\ ToSystem(a, "none", {}).to = "system"
      BY DEF ToSystem
    <3>3. CASE FindTimeout(a)
      BY <3>1, <3>3 DEF FindTimeout, Send
    <3>4. CASE Report(a)
      BY <3>2, <3>4 DEF Report, Send
    <3> QED BY <2>2, <3>3, <3>4
  <2>3. CASE \E a \in Activities : FindTimeout(a) \/ Report(a)
    <3>1. PICK m : m.state = {} /\ m.to = "system" /\ messages' = Append(messages, m)
      BY <2>2, <2>3
    <3>2. m \notin S /\ m \notin W
      BY <3>1 DEF States, Wrong
    <3> HIDE DEF S, W
    <3> QED BY <1>3, <2>1, <3>1, <3>2, OccursInAppend, FollowedInAppend
  <2>4. CASE UNCHANGED messages
    BY <1>3, <2>1, <2>4
  <2>5. CASE Answered
    <3>1. session' = Idle
      BY <2>5 DEF Answered, Answer
    <3>2. session.task.for = 0
      BY <3>1 DEF Idle, NoTask
    <3>3. messages' = messages
      BY <2>5, <3>2 DEF Answered, Answer
    <3> QED BY <1>3, <2>1, <3>3
  <2>6. UNCHANGED messages \/ Answered \/ \E a \in Activities : FindTimeout(a) \/ Report(a)
    <3>1. CASE \E a \in Activities : Bind(a) \/ BindFails(a) \/ RemoveTimeout(a) \/ Receive(a)
      BY <3>1 DEF Bind, BindFails, RemoveTimeout, Receive
    <3>2. CASE PostTimeout \/ Connect \/ RequestPlugSwitch
      BY <3>2 DEF PostTimeout, Connect, RequestPlugSwitch
    <3>3. CASE Navigate
      <4>1. CASE Quietly \/ Restore \/ Crash
        BY <4>1 DEF Quietly, NavigationUnchanged, Restore, Crash
      <4> QED BY <3>3, <4>1, NavigateSteps
    <3>4. CASE \E name \in NewNames : ApplySettings(name)
      BY <3>4 DEF ApplySettings
    <3>5. CASE \E value \in Switches : OnStartCommand(value)
      BY <3>5 DEF OnStartCommand
    <3>6. CASE Collect \/ Start
      BY <3>6 DEF Collect, Start
    <3>7. CASE Press \/ \E url \in Addresses \ {where} : Move(url)
      BY <3>7 DEF Press, Move
    <3>8. CASE SetState
      BY <3>8 DEF SetState
    <3>9. CASE GetState
      <4>1. "none" \in Errors \ {"find"} /\ on \in BOOLEAN
        BY DEF Errors, Typed
      <4> QED BY <3>9, <4>1 DEF GetState, Answered
    <3>10. CASE SetAnswered
      <4>1. "none" \in Errors \ {"find"} /\ session.task.value \in BOOLEAN
        BY DEF Errors, Typed, Sessions, TaskRecords
      <4> QED BY <3>10, <4>1 DEF SetAnswered, Answered
    <3>11. CASE Retry
      <4>1. "network" \in Errors \ {"find"}
        BY DEF Errors
      <4> QED BY <3>11, <4>1 DEF Retry, Answered
    <3> QED BY <1>8, <3>1, <3>2, <3>3, <3>4, <3>5, <3>6, <3>7, <3>8, <3>9, <3>10, <3>11
            DEF Next, Find, Session
  <2> QED BY <2>3, <2>4, <2>5, <2>6
<1>9. CASE Crash
  BY <1>3, <1>9 DEF Crash, screenVars
<1> QED BY <1>5, <1>6, <1>7, <1>8, <1>9 DEF Handle

(* Every step keeps the screen in agreement with the plug. *)
LEMMA NextAgrees ==
    ASSUME Typed, Connections, Next, ScreenInv,
           ~touched', session'.task.for # activity'
    PROVE  Agrees'
<1>1. /\ KnownActivities /\ OldFirst /\ Alone /\ Sent
      /\ ~touched /\ session.task.for # activity => Agrees
      /\ session \in Sessions /\ on \in BOOLEAN
  BY DEF ScreenInv, Typed
<1>2. CASE Reopen
  <2>1. ~known' /\ ~Occurs(messages', States')
    BY <1>1, <1>2, ReopenScreen
  <2> QED BY <2>1 DEF Agrees, FollowedBy, Occurs, Wrong
<1>3. CASE ~Reopen /\ ~Session /\ ~Start
  <2>1. /\ ~Press /\ UNCHANGED <<on, touched, session>> /\ activity' = activity
    <3>1. ~Press
      BY DEF Press
    <3> QED BY <1>3, <3>1, ScreenFrame
  <2>2. Agrees
    BY <1>1, <2>1
  <2> QED BY <1>1, <1>3, <2>1, <2>2, MessagesAgree
<1>4. CASE Start
  <2>1. /\ UNCHANGED <<on, touched, messages, known, system, activity>>
        /\ session.pc = "idle"
    BY <1>4 DEF Start, At, TaskUnchanged, screenVars
  <2>2. activity # 0
    BY ActivitiesAre DEF Typed
  <2>3. Agrees
    BY <1>1, <2>1, <2>2 DEF Sent
  <2>4. States' = States /\ Wrong' = Wrong
    BY <2>1 DEF States, Wrong
  <2> QED BY <2>1, <2>3, <2>4 DEF Agrees
<1>5. CASE Session
  <2>1. ~Reopen /\ UNCHANGED <<known, system, activity>>
    <3>1. UNCHANGED <<known, system, activity>>
      BY <1>5 DEF Session, GetState, SetState, SetAnswered, Retry, TaskUnchanged, screenVars
    <3>2. Reopen => activity' = activity + 1
      BY DEF Reopen
    <3> QED BY <3>1, <3>2, ActivitiesAre DEF Typed
  <2>2. activity # 0
    BY ActivitiesAre DEF Typed
  <2>3. CASE GetState
    <3>1. /\ session.task.kind = "connect" /\ session.task.for # 0
          /\ Answer("none", on) /\ on' = on
      BY <1>1, <2>3 DEF GetState, KnownActivities, Tasks
    <3>2. "none" \in Errors
      BY DEF Errors
    <3> QED BY <1>1, <2>1, <3>1, <3>2, AnswerAgrees
  <2>4. CASE SetState
    <3>1. /\ touched' = (session.task.for = 0) /\ messages' = messages
          /\ session' = [session EXCEPT !.pc = "sent"]
      BY <2>4 DEF SetState
    <3>2. session'.task = session.task
      BY <1>1, <3>1 DEF Sessions
    <3>3. session.task.for # 0 /\ session.task.for # activity
      BY <2>1, <3>1, <3>2
    <3>4. ~known /\ ~Occurs(messages, States)
      BY <1>1, <3>3, OldKnowsNothing
    <3>5. Wrong' \subseteq States
      BY <2>1 DEF Wrong, States
    <3> QED BY <2>1, <3>1, <3>4, <3>5 DEF Agrees, FollowedBy, Occurs
  <2>5. CASE SetAnswered
    <3>1. /\ session.pc = "sent" /\ Answer("none", session.task.value)
          /\ UNCHANGED <<on, touched>>
      BY <2>5 DEF SetAnswered, At
    <3>2. session.task.value = on
      BY <1>1, <3>1 DEF Sent
    <3>3. "none" \in Errors /\ session.task.value \in BOOLEAN
      BY <1>1, <3>2 DEF Errors
    <3> QED BY <1>1, <2>1, <2>2, <3>1, <3>2, <3>3, AnswerAgrees
  <2>6. CASE Retry
    <3>1. UNCHANGED <<on, touched>>
      BY <2>6 DEF Retry
    <3>2. CASE Answer("network", FALSE)
      <4>1. "network" \in Errors /\ FALSE \in BOOLEAN /\ "network" # "none"
        BY DEF Errors
      <4> QED BY <1>1, <2>1, <2>2, <3>1, <3>2, <4>1, AnswerAgrees
    <3>3. CASE session' = [session EXCEPT !.pc = "try", !.tries = @ - 1] /\ UNCHANGED messages
      <4>1. session'.task = session.task
        BY <1>1, <3>3 DEF Sessions
      <4>2. Agrees
        BY <1>1, <2>1, <3>1, <4>1
      <4>3. States' = States /\ Wrong' = Wrong
        BY <2>1, <3>1 DEF States, Wrong
      <4> QED BY <2>1, <3>1, <3>3, <4>2, <4>3 DEF Agrees
    <3> QED BY <2>6, <3>2, <3>3 DEF Retry
  <2> QED BY <1>5, <2>3, <2>4, <2>5, <2>6 DEF Session
<1> QED BY <1>2, <1>3, <1>4, <1>5

(* Every step keeps all of it. *)
LEMMA NextScreen ==
    ASSUME Typed, Connections, ScreenInv, [Next]_vars
    PROVE  ScreenInv'
<1>1. CASE Next
  <2>1. KnownActivities /\ OldFirst /\ Alone /\ Sent
    BY DEF ScreenInv
  <2>2. KnownActivities' /\ OldFirst' /\ Alone' /\ Sent'
    BY <1>1, <2>1, NextKnown, NextOldFirst, NextAlone, NextSent
  <2>3. ~touched' /\ session'.task.for # activity' => Agrees'
    BY <1>1, NextAgrees
  <2> QED BY <2>2, <2>3 DEF ScreenInv
<1>2. CASE UNCHANGED vars
  <2> USE <1>2 DEF vars, plugVars, taskVars, screenVars
  <2>1. /\ KnownActivities' <=> KnownActivities
        /\ OldFirst' <=> OldFirst
        /\ Sent' <=> Sent
        /\ Agrees' <=> Agrees
    BY DEF KnownActivities, Tasks, KnownMessages, OldFirst, Old, Mine, States, Wrong, Sent,
           Agrees
  <2>2. Alone' <=> Alone
    BY DEF Alone, Connecting, InQueue, InSession, InMessages, ConnectTasks, ConnectAnswers,
           Mine, ToScreen
  <2> QED BY <2>1, <2>2 DEF ScreenInv
<1> QED BY <1>1, <1>2

LEMMA ScreenInvariance == Spec => []ScreenInv
<1>1. Spec => Init /\ [][Next]_vars
  BY PTL DEF Spec
<1>2. IInv => Typed /\ Connections
  BY DEF IInv
<1> QED BY <1>1, <1>2, Invariance, InitScreen, NextScreen, PTL

-----------------------------------------------------------------------------
(* Theorems *)

(* Every variable keeps its type. *)
THEOREM WemoTypeCorrect == Spec => []TypeOK
<1>1. IInv => TypeOK
  BY TypedIsTypeOK DEF IInv
<1> QED BY <1>1, Invariance, PTL

(* The process dies only for a screen opened before any plug was saved, an activity *)
(* replaced or a screen left while something was awaited, or one restored, however  *)
(* many there were: no other answer finds the screen without an activity            *)
(* (WemoFragment.transition), and none starts a finder's thread twice (WemoService). *)
THEOREM NoOtherCrash == Spec => []CrashesOnlyIfUnsafe
<1>1. IInv => CrashesOnlyIfUnsafe
  BY DEF IInv
<1> QED BY <1>1, Invariance, PTL

(* The preferences lose no update unless the user and a finder both wrote during    *)
(* one activity, each from a copy of its own (exportSettings).                      *)
THEOREM NoLostUpdate == Spec => []SavedUnlessBothWrote
<1>1. ASSUME IInv, NEW a \in Activities, Wrote("user", a), Wrote("finder", a)
      PROVE  ~(Cardinality({w \in wrote : w.activity = a}) <= 1)
  <2> DEFINE u == [by |-> "user", activity |-> a]
             f == [by |-> "finder", activity |-> a]
  <2>1. u \in wrote /\ f \in wrote /\ u # f
    BY <1>1 DEF Wrote
  <2>2. \A w \in wrote : w.activity = a => w \in {u, f}
    BY <1>1 DEF IInv, Typed
  <2>3. {w \in wrote : w.activity = a} = {u} \cup {f}
    BY <2>1, <2>2
  <2> HIDE DEF u, f
  <2>4. IsFiniteSet({u}) /\ Cardinality({u}) = 1
    BY FS_Singleton
  <2>5. Cardinality({u} \cup {f}) = 2
    BY <2>1, <2>4, FS_AddElement
  <2>6. Cardinality({w \in wrote : w.activity = a}) = 2
    BY <2>3, <2>5, Zenon
  <2>7. ~(2 <= 1)
    OBVIOUS
  <2> QED BY <2>6, <2>7
<1>2. IInv => SavedUnlessBothWrote
  BY <1>1 DEF IInv, OneWriter, CopiesFresh, SavedUnlessBothWrote
<1> QED BY <1>2, Invariance, PTL

(* A plug that was found is not shown as missing once all is quiet, unless the      *)
(* timeout fired just before its removal or was posted after it (SSDPFinder).       *)
THEOREM FoundIsShown == Spec => []FoundBeatsTimeout
<1>1. IInv => FoundBeatsTimeout
  <2> SUFFICES ASSUME IInv, Quiet, finder[activity].found # NoAddress,
                      system.error = "find", ~raced
               PROVE  FALSE
    BY DEF FoundBeatsTimeout
  <2>1. activity \in Activities
    BY DEF IInv, Typed
  <2>2. finder[activity].thread = "ended"
    <3>1. finder[activity].thread \in {"new", "receive", "ended"}
      BY <2>1 DEF Quiet
    <3>2. finder[activity].thread \in {"report", "remove", "ended"}
      BY <2>1 DEF IInv, Searches
    <3> QED BY <3>1, <3>2
  <2>3. ReportLast
    BY <2>2 DEF IInv, Reported
  <2>4. Occurs(messages, Outcomes("none")) /\ messages = << >>
    BY <2>3 DEF ReportLast, Quiet
  <2> QED BY <2>4 DEF Occurs
<1> QED BY <1>1, Invariance, PTL

(* With all answers in, an online screen shows the state of the plug, once that was  *)
(* read or written, unless its button or the widget was used since: the tasks run    *)
(* in the order they were asked for, and each brings what it did (WemoManagerTask).  *)
THEOREM PlugIsShown == Spec => []ScreenMatchesPlug
<1>1. IInv /\ ScreenInv => ScreenMatchesPlug
  <2> SUFFICES ASSUME IInv, ScreenInv, Quiet, known, ~touched
               PROVE  system.data.status = on
    BY DEF ScreenMatchesPlug
  <2>1. session.task.for = 0 /\ messages = << >>
    BY DEF Quiet, Idle, NoTask
  <2>2. activity # 0
    BY ActivitiesAre DEF IInv, Typed
  <2>3. Agrees
    BY <2>1, <2>2 DEF ScreenInv
  <2> QED BY <2>1, <2>3 DEF Agrees, Occurs
<1> QED BY <1>1, Invariance, ScreenInvariance, PTL

=============================================================================
