---------------------------- MODULE WemoControl ----------------------------
(***************************************************************************)
(* The WeMo system: WemoService asks the saved plug for its state, searches  *)
(* the network for one when that fails (SSDPFinder: a thread and a timeout   *)
(* of the main thread), and switches it through the queue of the connection  *)
(* manager.  Every activity binds a service of its own; the preferences, the *)
(* finder's port and the queue are shared by all of them.                    *)
(***************************************************************************)
EXTENDS Integers, Sequences, FiniteSets, DomoSystem

CONSTANTS
    Addresses,     \* the base URLs the plug may have
    NoAddress,     \* Java's null
    Names,         \* the names it may have
    NewNames,      \* those that Apply may give it
    FirstSaved,    \* what the preferences may hold at the start
    FirstWhere,    \* the plug's URL at the start
    MaxTaps,       \* bound on the taps
    MaxRenames,    \* bound on the uses of Apply
    MaxPresses,    \* bound on what others do: presses of the plug's own button,
                   \* changes of its URL, uses of the widget
    Switches,      \* what the widget may ask
    MaxActivities, \* bound on the activities created, one after the other
    MayHang        \* whether a switch request may block for ever (it may)

Saved == [url : Addresses \cup {NoAddress}, name : Names, status : BOOLEAN]

ASSUME WemoAssumption ==
    /\ NoAddress \notin Addresses
    /\ FirstSaved \subseteq Saved
    /\ NewNames \subseteq Names
    /\ FirstWhere \in Addresses
    /\ {MaxTaps, MaxRenames, MaxPresses} \subseteq Nat
    /\ Switches \subseteq BOOLEAN
    /\ MaxActivities \in Nat \ {0}
    /\ MayHang \in BOOLEAN

Activities == 1 .. MaxActivities

VARIABLES
    on,         \* the plug: whether it is switched on
    where,      \* the plug: its URL
    saved,      \* the preferences
    service,    \* service[a] : the WemoService of activity a: its copy and mDevice
    finder,     \* finder[a] : its SSDPFinder: thread, timeout, URL found
    port,       \* the activity whose finder has bound the port, or 0
    starting,   \* the activity whose finder the main thread is starting, or 0
    queue,      \* the tasks waiting
    session,    \* the task that runs, how far it is and the tries it has left
    messages,   \* the messages to the main thread, oldest first
    system,     \* the WemoSystem of the current activity
    activity,   \* the number of activities so far
    gone,       \* gone[a] : the status of the WemoSystem of a former activity
    crashed,    \* an uncaught exception has killed the process
    taps, renames, presses,
    touched,    \* auxiliary: button or widget were used since the last read or write
    known,      \* auxiliary: the last state on screen came with a good answer
    raced,      \* auxiliary: a timeout was removed before it was posted, or fired
                \* between the report of a plug and its removal
    excused,    \* auxiliary: the port was taken, or the found plug unreadable
    unsafe,     \* auxiliary: an activity was replaced or its screen left while
                \* something was awaited, or an activity was restored
    newest,     \* auxiliary: the URL found and the name given last
    wrote       \* auxiliary: who wrote during which activity: [by, activity]

plugVars == <<on, where, presses, touched>>

savedVars == <<saved, renames, newest, wrote>>

findVars == <<service, finder, port, raced, excused>>

taskVars == <<queue, session, taps>>

screenVars == <<system, activity, gone, known, unsafe>>

vars == <<plugVars, savedVars, findVars, taskVars, screenVars, starting, messages,
          crashed>>

----------------------------------------------------------------------------
NoTask == [kind |-> "none", for |-> 0, value |-> FALSE, url |-> NoAddress]

Idle == [pc |-> "idle", task |-> NoTask, tries |-> 0]

\* A WemoSystem with the copy its constructor reads.
NewSystem(copy) ==
    [status |-> "loading", error |-> "none", screen |-> "new", tab |-> "setup",
     bound |-> FALSE, data |-> copy]

Init ==
    /\ on = FALSE
    /\ where = FirstWhere
    /\ saved \in FirstSaved
    /\ service = [a \in Activities |-> [data |-> saved, device |-> NoAddress]]
    /\ finder = [a \in Activities |->
                    [thread |-> "new", timeout |-> FALSE, found |-> NoAddress]]
    /\ port = 0
    /\ starting = 0
    /\ queue = << >>
    /\ session = Idle
    /\ messages = << >>
    /\ system = NewSystem(saved)
    /\ activity = 1
    /\ gone = [a \in Activities |-> "loading"]
    /\ crashed = FALSE
    /\ taps = 0 /\ renames = 0 /\ presses = 0
    /\ touched = FALSE
    /\ known = FALSE
    /\ raced = FALSE
    /\ excused = FALSE
    /\ unsafe = FALSE
    /\ newest = [url |-> saved.url, name |-> saved.name]
    /\ wrote = {}

----------------------------------------------------------------------------
(* The main thread *)

\* The main thread is between two handlers.
Main == ~crashed /\ starting = 0

Crash ==
    /\ crashed' = TRUE
    /\ UNCHANGED <<plugVars, savedVars, findVars, taskVars, screenVars, starting,
                   messages>>

Send(message) == messages' = Append(messages, message)

ToSystem(a, what, state) ==
    [to |-> "system", activity |-> a, what |-> what, state |-> state]

\* SSDPFinder.start: the thread first (a second start throws), the timeout next.
StartFinder(a) ==
    /\ finder[a].thread = "new"
    /\ finder' = [finder EXCEPT ![a].thread = "bind"]
    /\ starting' = a

\* Mutant: the timeout is not posted.
PostNoTimeout ==
    /\ ~crashed /\ starting # 0
    /\ starting' = 0
    /\ UNCHANGED <<plugVars, savedVars, findVars, taskVars, screenVars, messages, crashed>>

PostTimeout ==
    /\ ~crashed /\ starting # 0
    /\ finder' = [finder EXCEPT ![starting].timeout = TRUE]
    /\ starting' = 0
    /\ raced' = (raced \/ finder[starting].thread = "ended")
    /\ UNCHANGED <<plugVars, savedVars, service, port, excused, taskVars, screenVars,
                   messages, crashed>>

\* onCreate imports the settings; onServiceConnected connects: a task for the
\* saved plug, or a search.
Connect ==
    /\ Main /\ ~system.bound
    /\ system' = [system EXCEPT !.bound = TRUE]
    /\ service' = [service EXCEPT ![activity] = [data |-> saved, device |-> saved.url]]
    /\ \/ /\ saved.url # NoAddress
          /\ queue' = Append(queue, [kind |-> "connect", for |-> activity,
                                     value |-> FALSE, url |-> saved.url])
          /\ UNCHANGED <<finder, starting>>
       \/ /\ saved.url = NoAddress
          /\ StartFinder(activity)
          /\ UNCHANGED queue
    /\ UNCHANGED <<plugVars, savedVars, port, raced, excused, session, taps, activity,
                   gone, known, unsafe, messages, crashed>>

NavigationUnchanged ==
    UNCHANGED <<plugVars, savedVars, findVars, taskVars, activity, gone, known, starting,
                messages, crashed>>

\* The system is selected: onCreateView of a new view shows the address of the
\* system's copy of the plug; Android may put its tabs back as they were.
CreateView ==
    /\ Main /\ system.screen # "shown"
    /\ \/ /\ system.data.url = NoAddress
          /\ Crash
       \/ /\ system.data.url # NoAddress
          /\ \E tab \in Tabs :
                /\ tab = FirstTab(system.status) \/ (system.screen = "left" /\ tab = system.tab)
                /\ system' = [system EXCEPT !.screen = "shown", !.tab = tab]
          /\ UNCHANGED unsafe
          /\ NavigationUnchanged

\* The system is waiting for an outcome, or the service for a plug to turn up.
Awaited ==
    \/ messages # << >>
    \/ session.task.for # 0
    \/ \E i \in 1 .. Len(queue) : queue[i].for # 0
    \/ finder[activity].timeout
    \/ finder[activity].thread \notin {"new", "ended"}

\* Another system is selected, whose fragment replaces this one.
Leave ==
    /\ Main /\ system.screen = "shown"
    /\ system' = [system EXCEPT !.screen = "left"]
    /\ unsafe' = (unsafe \/ Awaited \/ ~system.bound)
    /\ NavigationUnchanged

\* The tabs are enabled while online.
SelectTab(tab) ==
    /\ Main /\ system.screen = "shown" /\ system.status = "online"
    /\ system' = [system EXCEPT !.tab = tab]
    /\ UNCHANGED unsafe
    /\ NavigationUnchanged

\* requestPlugSwitch, from the control tab.
RequestPlugSwitch ==
    /\ Main /\ system.screen = "shown" /\ system.tab = "main" /\ system.status = "online"
    /\ taps < MaxTaps
    /\ taps' = taps + 1
    /\ queue' = Append(queue, [kind |-> "set", for |-> activity,
                               value |-> ~system.data.status,
                               url |-> service[activity].device])
    /\ UNCHANGED <<plugVars, savedVars, findVars, session, screenVars, starting,
                   messages, crashed>>

\* onStartCommand: the widget switches the plug, and nobody hears the answer.
OnStartCommand(value) ==
    /\ Main
    /\ presses < MaxPresses
    /\ presses' = presses + 1
    /\ queue' = Append(queue, [kind |-> "set", for |-> 0, value |-> value,
                               url |-> IF system.bound THEN service[activity].device
                                       ELSE saved.url])
    /\ UNCHANGED <<on, where, touched, savedVars, findVars, session, taps, screenVars,
                   starting, messages, crashed>>

\* Apply saves the system's copy with the name entered.
ApplySettings(name) ==
    /\ Main /\ system.screen = "shown" /\ system.tab = "setup"
    /\ system.status \in {"online", "offline"}
    /\ renames < MaxRenames
    /\ renames' = renames + 1
    /\ system' = [system EXCEPT !.data.name = name]
    /\ saved' = system'.data
    /\ newest' = [newest EXCEPT !.name = name]
    /\ wrote' = wrote \cup {[by |-> "user", activity |-> activity]}
    /\ UNCHANGED <<plugVars, findVars, taskVars, activity, gone, known, unsafe,
                   starting, messages, crashed>>

\* requestResponse: a message without an object leaves the state alone.
Responded(s, message) ==
    [Told(s, message.what) EXCEPT
        !.data.status = IF message.state = {} THEN @
                        ELSE CHOOSE state \in message.state : TRUE]

HandleSystem ==
    /\ Main /\ messages # << >>
    /\ LET message == Head(messages)
           fails == TurnFails(system, message.what)
       IN  /\ message.to = "system" /\ message.activity = activity
           /\ \/ fails /\ Crash
              \/ /\ ~fails
                 /\ system' = Responded(system, message)
                 /\ known' = IF message.state = {} THEN known ELSE message.what = "none"
                 /\ messages' = Tail(messages)
                 /\ UNCHANGED <<plugVars, savedVars, findVars, taskVars, activity, gone,
                                unsafe, starting, crashed>>

\* A former system: collected, or with a listener that has no view; a message
\* that does not change its status does no harm.
HandleGone ==
    /\ Main /\ messages # << >>
    /\ Head(messages).to = "system" /\ Head(messages).activity # activity
    /\ \/ Crash
       \/ /\ StatusOf(Head(messages).what) = gone[Head(messages).activity]
          /\ messages' = Tail(messages)
          /\ UNCHANGED <<plugVars, savedVars, findVars, taskVars, screenVars, starting,
                         crashed>>

\* mConnectListener: forwards a good answer, and searches after an error; the
\* service of a former activity may be collected.
HandleConnect ==
    /\ Main /\ messages # << >>
    /\ LET message == Head(messages)
           a == message.activity
       IN  /\ message.to = "service"
           /\ \/ /\ a # activity \/ (message.what # "none" /\ finder[a].thread # "new")
                 /\ Crash
              \/ /\ message.what = "none"
                 /\ messages' = Append(Tail(messages), ToSystem(a, "none", message.state))
                 /\ UNCHANGED <<plugVars, savedVars, findVars, taskVars, screenVars,
                                starting, crashed>>
              \/ /\ message.what # "none"
                 /\ StartFinder(a)
                 /\ messages' = Tail(messages)
                 /\ UNCHANGED <<plugVars, savedVars, service, port, raced, excused,
                                taskVars, screenVars, crashed>>

\* The timeout: onFindTimeout.
FindTimeout(a) ==
    /\ Main /\ finder[a].timeout
    /\ finder' = [finder EXCEPT ![a].timeout = FALSE]
    /\ raced' = (raced \/ (finder[a].thread = "remove" /\ finder[a].found # NoAddress))
    /\ Send(ToSystem(a, "find", {}))
    /\ UNCHANGED <<plugVars, savedVars, service, port, excused, taskVars, screenVars,
                   starting, crashed>>

\* The activity is finished, and opened again.
Reopen ==
    /\ Main /\ activity < MaxActivities
    /\ activity' = activity + 1
    /\ gone' = [gone EXCEPT ![activity] = system.status]
    /\ system' = NewSystem(saved)
    /\ known' = FALSE
    /\ unsafe' = (unsafe \/ Awaited)
    /\ UNCHANGED <<plugVars, savedVars, findVars, taskVars, starting, messages, crashed>>

\* It is created from a saved state, as after a rotation: the fragment of the
\* system selected has no empty constructor.
Restore ==
    /\ Main /\ activity < MaxActivities
    /\ crashed' = TRUE
    /\ unsafe' = TRUE
    /\ UNCHANGED <<plugVars, savedVars, findVars, taskVars, system, activity, gone, known,
                   starting, messages>>

----------------------------------------------------------------------------
(* The thread of a finder: SSDPFinder.run *)

Finding(a, label) == ~crashed /\ finder[a].thread = label

FinderUnchanged ==
    UNCHANGED <<plugVars, service, taskVars, screenVars, starting, crashed>>

\* The socket is bound, and the search sent.
Bind(a) ==
    /\ Finding(a, "bind") /\ port = 0
    /\ port' = a
    /\ finder' = [finder EXCEPT ![a].thread = "receive"]
    /\ UNCHANGED <<savedVars, raced, excused, messages>>
    /\ FinderUnchanged

\* A finder that is still there has the port: the exception is swallowed.
BindFails(a) ==
    /\ Finding(a, "bind") /\ port # 0
    /\ finder' = [finder EXCEPT ![a].thread = "remove"]
    /\ excused' = TRUE
    /\ UNCHANGED <<savedVars, port, raced, messages>>
    /\ FinderUnchanged

\* A plug answers, and its description is read; without one onDeviceFound(null)
\* throws, which ends the search.
Receive(a) ==
    /\ Finding(a, "receive")
    /\ \/ /\ finder' = [finder EXCEPT ![a].thread = "report", ![a].found = where]
          /\ UNCHANGED excused
       \/ /\ finder' = [finder EXCEPT ![a].thread = "remove"]
          /\ excused' = TRUE
    /\ UNCHANGED <<savedVars, port, raced, messages>>
    /\ FinderUnchanged

\* Mutant: the plug is saved under some name of its own.
ReportWithoutName(a) ==
    /\ Finding(a, "report")
    /\ service' = [service EXCEPT ![a].data.url = finder[a].found,
                                  ![a].device = finder[a].found]
    /\ \E name \in Names : saved' = [service'[a].data EXCEPT !.name = name]
    /\ newest' = [newest EXCEPT !.url = finder[a].found]
    /\ wrote' = wrote \cup {[by |-> "finder", activity |-> b] : b \in a .. activity}
    /\ Send(ToSystem(a, "none", {}))
    /\ finder' = [finder EXCEPT ![a].thread = "remove"]
    /\ UNCHANGED <<plugVars, renames, port, raced, excused, taskVars, screenVars,
                   starting, crashed>>

\* onDeviceFound: exportSettings and a message that has no state.
Report(a) ==
    /\ Finding(a, "report")
    /\ service' = [service EXCEPT ![a].data.url = finder[a].found,
                                  ![a].device = finder[a].found]
    /\ saved' = service'[a].data
    /\ newest' = [newest EXCEPT !.url = finder[a].found]
    /\ wrote' = wrote \cup {[by |-> "finder", activity |-> b] : b \in a .. activity}
    /\ Send(ToSystem(a, "none", {}))
    /\ finder' = [finder EXCEPT ![a].thread = "remove"]
    /\ UNCHANGED <<plugVars, renames, port, raced, excused, taskVars, screenVars,
                   starting, crashed>>

\* Mutant: the timeout stays when the search ends.
RemoveNothing(a) ==
    /\ Finding(a, "remove")
    /\ finder' = [finder EXCEPT ![a].thread = "ended"]
    /\ UNCHANGED <<savedVars, port, raced, excused, messages>>
    /\ FinderUnchanged

\* removeCallbacks; the socket stays open.
RemoveTimeout(a) ==
    /\ Finding(a, "remove")
    /\ finder' = [finder EXCEPT ![a].thread = "ended", ![a].timeout = FALSE]
    /\ UNCHANGED <<savedVars, port, raced, excused, messages>>
    /\ FinderUnchanged

\* The garbage collector may close the socket of a former activity's finder.
Collect ==
    /\ ~crashed
    /\ port # 0 /\ port # activity /\ finder[port].thread = "ended"
    /\ port' = 0
    /\ UNCHANGED <<savedVars, finder, raced, excused, messages>>
    /\ FinderUnchanged

----------------------------------------------------------------------------
(* The thread of a task: WemoManagerTask.doRun, Device.getState and setState *)

CONNECTION_RETIES == 3

At(pc) == ~crashed /\ session.pc = pc

TaskUnchanged ==
    UNCHANGED <<where, presses, savedVars, findVars, taps, screenVars, starting, crashed>>

Start ==
    /\ At("idle") /\ queue # << >>
    /\ session' = [pc |-> "try", task |-> Head(queue), tries |-> CONNECTION_RETIES]
    /\ queue' = Tail(queue)
    /\ UNCHANGED <<on, touched, messages>>
    /\ TaskUnchanged

\* Mutant: every task answers to the service's own handler.
AnswerService(what, state) ==
    /\ IF session.task.for = 0 THEN UNCHANGED messages
       ELSE Send([to |-> "service", activity |-> session.task.for, what |-> what,
                  state |-> {state}])
    /\ session' = Idle

\* The answer, if there is a handler; one to connect goes to the service's own.
Answer(what, state) ==
    /\ IF session.task.for = 0 THEN UNCHANGED messages
       ELSE Send([to |-> IF session.task.kind = "connect" THEN "service" ELSE "system",
                  activity |-> session.task.for, what |-> what, state |-> {state}])
    /\ session' = Idle

\* getState, the answer of the plug.
GetState ==
    /\ At("try") /\ session.task.kind = "connect" /\ session.task.url = where
    /\ Answer("none", on)
    /\ touched' = FALSE
    /\ UNCHANGED <<on, queue>>
    /\ TaskUnchanged

\* setState, as far as the plug: it switches, and its answer is on the way.
SetState ==
    /\ At("try") /\ session.task.kind = "set" /\ session.task.url = where
    /\ on' = session.task.value
    /\ touched' = (session.task.for = 0)
    /\ session' = [session EXCEPT !.pc = "sent"]
    /\ UNCHANGED <<queue, messages>>
    /\ TaskUnchanged

SetAnswered ==
    /\ At("sent")
    /\ Answer("none", session.task.value)
    /\ UNCHANGED <<on, queue, touched>>
    /\ TaskUnchanged

\* Mutant: the exception of the last try is not thrown on.
RetrySwallowing ==
    /\ At("try") \/ At("sent")
    /\ \/ /\ session.tries > 1
          /\ session' = [session EXCEPT !.pc = "try", !.tries = @ - 1]
          /\ UNCHANGED messages
       \/ /\ session.tries = 1
          /\ Answer("none", FALSE)
    /\ UNCHANGED <<on, queue, touched>>
    /\ TaskUnchanged

\* A try fails, before or after the plug has switched; without a plug (null) the
\* first one ends the task.
Retry ==
    /\ At("try") \/ At("sent")
    /\ \/ /\ session.tries > 1 /\ session.task.url # NoAddress
          /\ session' = [session EXCEPT !.pc = "try", !.tries = @ - 1]
          /\ UNCHANGED messages
       \/ /\ session.tries = 1 \/ session.task.url = NoAddress
          /\ Answer("network", FALSE)
    /\ UNCHANGED <<on, queue, touched>>
    /\ TaskUnchanged

----------------------------------------------------------------------------
(* The plug *)

Press ==
    /\ ~crashed /\ presses < MaxPresses
    /\ presses' = presses + 1
    /\ on' = ~on
    /\ touched' = TRUE
    /\ UNCHANGED <<where, savedVars, findVars, taskVars, screenVars, starting, messages,
                   crashed>>

\* It comes back under another address.
Move(url) ==
    /\ ~crashed /\ presses < MaxPresses
    /\ presses' = presses + 1
    /\ where' = url
    /\ UNCHANGED <<on, touched, savedVars, findVars, taskVars, screenVars, starting,
                   messages, crashed>>

----------------------------------------------------------------------------
Navigate ==
    \/ CreateView \/ Leave \/ Reopen \/ Restore
    \/ \E tab \in {"main", "setup"} : SelectTab(tab)

Handle == HandleSystem \/ HandleGone \/ HandleConnect

Find(a) == Bind(a) \/ BindFails(a) \/ Report(a) \/ RemoveTimeout(a)

Session == GetState \/ SetState \/ SetAnswered \/ Retry

Next ==
    \/ PostTimeout \/ Connect \/ Navigate \/ RequestPlugSwitch \/ Handle
    \/ \E name \in NewNames : ApplySettings(name)
    \/ \E value \in Switches : OnStartCommand(value)
    \/ \E a \in Activities : FindTimeout(a) \/ Find(a) \/ Receive(a)
    \/ Collect \/ Start \/ Session \/ Press
    \/ \E url \in Addresses \ {where} : Move(url)

\* What the looper and the threads have to do, whatever the users and the plug do:
\* a timeout is posted to the looper; the answer to a switch request may not come.
Program ==
    \/ PostTimeout \/ Connect \/ Handle
    \/ \E a \in Activities : FindTimeout(a) \/ Find(a)
    \/ Start
    \/ (MayHang => session.pc = "try") /\ Session

\* The program goes on, and a read of the state ends: each user's wish takes the
\* looper and the threads finitely many steps, so that it is enough that one of
\* them runs.  Nothing promises that a plug turns up.
Spec == Init /\ [][Next]_vars /\ WF_vars(Program)

----------------------------------------------------------------------------
TaskRecords ==
    [kind : {"connect", "set", "none"}, for : 0 .. MaxActivities, value : BOOLEAN,
     url : Addresses \cup {NoAddress}]

Messages ==
    [to : {"system", "service"}, activity : Activities, what : Errors,
     state : SUBSET BOOLEAN]

TypeOK ==
    /\ {on, crashed, touched, known, raced, excused, unsafe} \subseteq BOOLEAN
    /\ where \in Addresses
    /\ saved \in Saved
    /\ service \in [Activities -> [data : Saved, device : Addresses \cup {NoAddress}]]
    /\ finder \in [Activities ->
          [thread : {"new", "bind", "receive", "report", "remove", "ended"},
           timeout : BOOLEAN, found : Addresses \cup {NoAddress}]]
    /\ {port, starting} \subseteq 0 .. MaxActivities
    /\ queue \in Seq(TaskRecords)
    /\ session \in [pc : {"idle", "try", "sent"}, task : TaskRecords,
                    tries : 0 .. CONNECTION_RETIES]
    /\ messages \in Seq(Messages)
    /\ system \in [status : Statuses, error : Errors, screen : Screens, tab : Tabs,
                   bound : BOOLEAN, data : Saved]
    /\ activity \in Activities
    /\ gone \in [Activities -> Statuses]
    /\ taps \in 0 .. MaxTaps /\ renames \in 0 .. MaxRenames
    /\ presses \in 0 .. MaxPresses
    /\ newest \in [url : Addresses \cup {NoAddress}, name : Names]
    /\ wrote \subseteq [by : {"user", "finder"}, activity : Activities]

Quiet ==
    /\ queue = << >> /\ session = Idle /\ messages = << >> /\ starting = 0
    /\ \A a \in Activities : /\ ~finder[a].timeout
                             /\ finder[a].thread \in {"new", "receive", "ended"}

\* With all answers in, an online screen shows the state of the plug, once that
\* was read or written and unless its button or the widget was used since.
ScreenMatchesPlug ==
    Quiet /\ system.status = "online" /\ known /\ ~touched =>
        system.data.status = on

\* The end of a search removes its timeout: a plug that was found is reported as
\* not found only if the timeout fired just before its removal or came after it.
FoundBeatsTimeout ==
    Quiet /\ finder[activity].found # NoAddress /\ system.error = "find" => raced

\* The preferences hold the URL found and the name given last, unless a user and
\* a finder both wrote during one activity, each from a copy of its own.
SavedUnlessBothWrote ==
    (\A a \in Activities : Cardinality({w \in wrote : w.activity = a}) <= 1) =>
        saved.url = newest.url /\ saved.name = newest.name

\* Nothing throws (no finder starts twice, no screen turns without an activity, no
\* object or system is null) but for a screen opened before any plug was saved, an
\* activity replaced or a screen left while something was awaited, and an activity
\* restored: who leaves a screen that waits for nothing is safe.
CrashesOnlyIfUnsafe == crashed => unsafe \/ system.data.url = NoAddress

\* Each connection ends in a status, unless a switch request hangs or a search
\* ended on an exception.
LoadingEnds ==
    system.status = "loading" ~>
        system.status # "loading" \/ crashed \/ excused \/ session.pc = "sent"
=============================================================================
