---------------------------- MODULE PowerControl ----------------------------
(***************************************************************************)
(* The power system from the tap to the strip and back: PowerSystem and      *)
(* PowerService push tasks on the queue they share with the WeMo system,     *)
(* PowerManagerTask carries one out over a TCP session, and its answer goes  *)
(* to the handler of the PowerSystem that asked, which may be gone by then.  *)
(* The queue is the one TaskQueue describes: first come, first served, one   *)
(* task at a time.                                                           *)
(***************************************************************************)
EXTENDS PowerDevice, DomoSystem

CONSTANTS
    StripPassword,  \* the password the strip is set to
    Tokens,         \* the tokens it may send
    Settings,       \* what a user may enter: [reachable, password]
    FirstSettings,  \* the settings saved at the start
    FirstPlugs,     \* the state of the strip at the start
    UsedPlugs,      \* the plugs that are switched by hand
    Timers,         \* what the timers do: [plug, value]
    MaxRequests,    \* bound on the requests of users, timers and the WeMo system
    MaxPresses,     \* bound on the presses of the strip's own buttons
    MaxActivities,  \* bound on the activities created, one after the other
    NoStatus,       \* Java's null, in the place of a status
    MayHang         \* whether a WeMo task may block for ever

ASSUME PowerAssumption ==
    /\ StripPassword \in Seq(Byte)
    /\ Tokens \subseteq Buffer
    /\ Settings \subseteq [reachable : BOOLEAN, password : Seq(Byte)]
    /\ UsedPlugs \subseteq Plugs
    /\ Timers \subseteq [plug : Plugs, value : BOOLEAN]
    /\ FirstPlugs \in [Plugs -> BOOLEAN]
    /\ FirstSettings \in Settings
    /\ {MaxRequests, MaxPresses} \subseteq Nat
    /\ MaxActivities \in Nat \ {0}
    /\ NoStatus \notin [Plugs -> BOOLEAN]
    /\ MayHang \in BOOLEAN

VARIABLES
    plugs,      \* the strip: which plugs are on
    settings,   \* mData of the service
    queue,      \* the tasks waiting, oldest first
    session,    \* the task that runs, how far it is and what it has read
    messages,   \* the answers on their way to the main thread
    system,     \* the PowerSystem of the current activity
    activity,   \* the number of activities so far
    gone,       \* gone[a] : the status of the PowerSystem of a former activity
    crashed,    \* an uncaught exception has killed the process
    given,      \* requests given so far
    presses,    \* presses of the strip's buttons so far
    touched,    \* auxiliary: plugs switched since the screen's last snapshot
    garbled,    \* auxiliary: bytes the strip did not send were read as a status
    last,       \* auxiliary: last[p] holds the value last asked of p, unless it failed
    answered,   \* auxiliary: the settings the last answer is about
    unsafe      \* auxiliary: an activity was replaced or its screen left while an
                \* answer was awaited, or an activity was restored

vars == <<plugs, settings, queue, session, messages, system, activity, gone,
          crashed, given, presses, touched, garbled, last, answered, unsafe>>

Activities == 1 .. MaxActivities

----------------------------------------------------------------------------
\* The task of a request; "for" is the activity whose handler it has, or 0.
Task(kind, for, plug, value) ==
    [kind |-> kind, for |-> for, plug |-> plug, value |-> value,
     settings |-> settings]

NoTask ==
    [kind |-> "none", for |-> 0, plug |-> 0, value |-> FALSE,
     settings |-> FirstSettings]

Idle ==
    [pc |-> "idle", task |-> NoTask, token |-> NewBuffer, status |-> NoStatus,
     open |-> FALSE, result |-> "none"]

\* The PowerSystem of a new activity, which selects its screen first.
NewSystem ==
    [status |-> "loading", error |-> "none", screen |-> "shown",
     tab |-> FirstTab("loading"), bound |-> FALSE, sockets |-> [p \in Plugs |-> FALSE]]

Init ==
    /\ plugs = FirstPlugs
    /\ settings = FirstSettings
    /\ queue = << >>
    /\ session = Idle
    /\ messages = << >>
    /\ system = NewSystem
    /\ activity = 1
    /\ gone = [a \in Activities |-> "loading"]
    /\ crashed = FALSE
    /\ given = 0
    /\ presses = 0
    /\ touched = {}
    /\ garbled = FALSE
    /\ last = [p \in Plugs |-> {}]
    /\ answered = FirstSettings
    /\ unsafe = FALSE

----------------------------------------------------------------------------
(* The main thread: users, timers, answers *)

Push(task) ==
    /\ queue' = Append(queue, task)
    /\ last' = IF task.kind = "set" THEN [last EXCEPT ![task.plug] = {task.value}]
               ELSE last

Crash ==
    /\ crashed' = TRUE
    /\ UNCHANGED <<plugs, settings, queue, session, messages, system, activity,
                   gone, given, presses, touched, garbled, last, answered, unsafe>>

\* onServiceConnected writes the settings into the fragment's view and asks.
ServiceConnected ==
    /\ ~crashed /\ ~system.bound
    /\ system' = [system EXCEPT !.bound = TRUE]
    /\ Push(Task("get", activity, 0, FALSE))
    /\ UNCHANGED <<plugs, settings, session, messages, activity, gone, crashed,
                   given, presses, touched, garbled, answered, unsafe>>

ScreenUnchanged ==
    UNCHANGED <<plugs, settings, queue, session, messages, activity, gone, crashed,
                given, presses, touched, garbled, last, answered>>

\* Requests whose answer has a handler to go to.
Awaited ==
    \/ messages # << >>
    \/ session.task.for # 0
    \/ \E i \in 1 .. Len(queue) : queue[i].for # 0

\* The user selects another system, whose fragment replaces this one.
Leave ==
    /\ ~crashed /\ system.screen = "shown"
    /\ system' = [system EXCEPT !.screen = "left"]
    /\ unsafe' = (unsafe \/ Awaited \/ ~system.bound)
    /\ ScreenUnchanged

\* This one is selected again, and its fragment shows the view it has kept.
Return ==
    /\ ~crashed /\ system.screen = "left"
    /\ system' = [system EXCEPT !.screen = "shown"]
    /\ UNCHANGED unsafe
    /\ ScreenUnchanged

\* The tabs are enabled while online.  That of the timers is left out: a change of
\* status turns it like the control tab.
SelectTab(tab) ==
    /\ ~crashed /\ system.screen = "shown" /\ system.status = "online"
    /\ system' = [system EXCEPT !.tab = tab]
    /\ UNCHANGED unsafe
    /\ ScreenUnchanged

Given == ~crashed /\ given < MaxRequests /\ given' = given + 1

\* requestPlugSwitch, from the control tab.
RequestPlugSwitch(plug) ==
    /\ Given
    /\ system.screen = "shown" /\ system.status = "online" /\ system.tab = "main"
    /\ Push(Task("set", activity, plug, ~system.sockets[plug]))
    /\ UNCHANGED <<plugs, settings, session, messages, system, activity, gone, crashed,
                   presses, touched, garbled, answered, unsafe>>

\* The settings tab is shown, and the panel with the tabs.
Entering ==
    /\ system.screen = "shown" /\ system.tab = "setup"
    /\ system.status \in {"online", "offline"}

\* Mutant: connect asks before it has stored what the user entered.
ConnectTooEarly(entered) ==
    /\ Given
    /\ Entering
    /\ Push(Task("get", activity, 0, FALSE))
    /\ settings' = entered
    /\ UNCHANGED <<plugs, session, messages, system, activity, gone, crashed,
                   presses, touched, garbled, answered, unsafe>>

\* connect: setSettings, then getStatus.
Connect(entered) ==
    /\ Given
    /\ Entering
    /\ settings' = entered
    /\ Push([Task("get", activity, 0, FALSE) EXCEPT !.settings = entered])
    /\ UNCHANGED <<plugs, session, messages, system, activity, gone, crashed,
                   presses, touched, garbled, answered, unsafe>>

\* Mutant: the answer to a timer goes to the screen.
StartCommandHeard(timer) ==
    /\ Given
    /\ Push(Task("set", activity, timer.plug, timer.value))
    /\ UNCHANGED <<plugs, settings, session, messages, system, activity, gone, crashed,
                   presses, touched, garbled, answered, unsafe>>

\* onStartCommand: a timer switches a plug, and nobody hears the answer.
StartCommand(timer) ==
    /\ Given
    /\ Push(Task("set", 0, timer.plug, timer.value))
    /\ UNCHANGED <<plugs, settings, session, messages, system, activity, gone, crashed,
                   presses, touched, garbled, answered, unsafe>>

\* The WeMo service pushes a task of its own.
PushOther ==
    /\ Given
    /\ Push(Task("other", 0, 0, FALSE))
    /\ UNCHANGED <<plugs, settings, session, messages, system, activity, gone, crashed,
                   presses, touched, garbled, answered, unsafe>>

\* requestResponse: an answer without a status leaves mSockets alone.
Responded(s, message) ==
    [Told(s, message.what) EXCEPT
        !.sockets = IF message.sockets = NoStatus THEN @ ELSE message.sockets]

\* The handler of the current activity's system.
Handle ==
    /\ ~crashed /\ messages # << >>
    /\ LET message == Head(messages)
           fails == TurnFails(system, message.what)
       IN  /\ message.to = activity
           /\ \/ fails /\ Crash
              \/ /\ ~fails
                 /\ messages' = Tail(messages)
                 /\ system' = Responded(system, message)
                 /\ answered' = message.settings
                 /\ UNCHANGED <<plugs, settings, queue, session, activity, gone, crashed,
                                given, presses, touched, garbled, last, unsafe>>

\* The handler of a former one: the system is collected, or its listener is an
\* activity without a view, which a change of status asks for; else no harm.
HandleGone ==
    /\ ~crashed /\ messages # << >>
    /\ Head(messages).to # activity
    /\ \/ Crash
       \/ /\ StatusOf(Head(messages).what) = gone[Head(messages).to]
          /\ messages' = Tail(messages)
          /\ UNCHANGED <<plugs, settings, queue, session, system, activity, gone,
                         crashed, given, presses, touched, garbled, last, answered,
                         unsafe>>

\* The activity is finished, and opened again.
Reopen ==
    /\ ~crashed /\ activity < MaxActivities
    /\ activity' = activity + 1
    /\ gone' = [gone EXCEPT ![activity] = system.status]
    /\ system' = NewSystem
    /\ unsafe' = (unsafe \/ Awaited)
    /\ UNCHANGED <<plugs, settings, queue, session, messages, crashed, given, presses,
                   touched, garbled, last, answered>>

\* It is created from a saved state, as after a rotation: the fragment of the
\* system selected has no empty constructor.
Restore ==
    /\ ~crashed /\ activity < MaxActivities
    /\ crashed' = TRUE
    /\ unsafe' = TRUE
    /\ UNCHANGED <<plugs, settings, queue, session, messages, system, activity, gone,
                   given, presses, touched, garbled, last, answered>>

----------------------------------------------------------------------------
(* The thread of a task: doRun, doGetStatus and doSetStatus *)

At(pc) == ~crashed /\ session.pc = pc

MainUnchanged ==
    UNCHANGED <<settings, messages, system, activity, gone, crashed, given, presses,
                answered, unsafe>>

TaskKey == Key(session.task.settings.password)

StripKey == Key(StripPassword)

\* Mutant: the newest task is taken first.
StartNewest ==
    /\ At("idle") /\ queue # << >>
    /\ session' = [Idle EXCEPT !.task = queue[Len(queue)],
                               !.pc = IF queue[Len(queue)].kind = "other" THEN "other"
                                      ELSE "connect"]
    /\ queue' = SubSeq(queue, 1, Len(queue) - 1)
    /\ UNCHANGED <<plugs, touched, garbled, last>>
    /\ MainUnchanged

\* The manager starts the oldest task.
Start ==
    /\ At("idle") /\ queue # << >>
    /\ session' = [Idle EXCEPT !.task = Head(queue),
                               !.pc = IF Head(queue).kind = "other" THEN "other"
                                      ELSE "connect"]
    /\ queue' = Tail(queue)
    /\ UNCHANGED <<plugs, touched, garbled, last>>
    /\ MainUnchanged

EndOther ==
    /\ At("other")
    /\ session' = Idle
    /\ UNCHANGED <<plugs, queue, touched, garbled, last>>
    /\ MainUnchanged

\* What was asked of a plug no longer counts, unless it was asked again.
Forgotten ==
    IF session.task.kind # "set"
       \/ \E i \in 1 .. Len(queue) : /\ queue[i].kind = "set"
                                     /\ queue[i].plug = session.task.plug
    THEN last
    ELSE [last EXCEPT ![session.task.plug] = {}]

\* Mutant: a refused password is not reported.
AnswerUnlessPassword(what, status) ==
    /\ messages' = IF session.task.for = 0 \/ what = "password" THEN messages
                   ELSE Append(messages, [what |-> what, sockets |-> status,
                                          to |-> session.task.for,
                                          settings |-> session.task.settings])
    /\ session' = Idle

\* The last step of doRun: the answer goes to the handler, if there is one.
Answer(what, status) ==
    /\ messages' = IF session.task.for = 0 THEN messages
                   ELSE Append(messages, [what |-> what, sockets |-> status,
                                          to |-> session.task.for,
                                          settings |-> session.task.settings])
    /\ session' = Idle

AnswerUnchanged ==
    UNCHANGED <<plugs, settings, queue, system, activity, gone, crashed, given, presses,
                touched, garbled, answered, unsafe>>

\* An exception anywhere but in the read of the status.
Throw ==
    /\ \E pc \in {"connect", "status", "set", "confirm", "bye"} : At(pc)
    /\ Answer("network", NoStatus)
    /\ last' = Forgotten
    /\ AnswerUnchanged

\* Connected, HELLO written, and the token read, or the end of the stream.
ReadToken ==
    /\ At("connect") /\ session.task.settings.reachable
    /\ MainUnchanged
    /\ \/ \E token \in Tokens :
             session' = [session EXCEPT !.pc = "status", !.token = token, !.open = TRUE]
       \/ session' = [session EXCEPT !.pc = "status"]
    /\ UNCHANGED <<plugs, queue, touched, garbled, last>>

\* The screen that waits for this answer will see the plugs as they are now.
Snapshot == IF session.task.for # 0 THEN {} ELSE touched

AfterStatus == IF session.task.kind = "set" THEN "set" ELSE "bye"

\* The response is written, and the strip sends its status if it is right.
ReadStatus ==
    /\ At("status") /\ session.open
    /\ MainUnchanged
    /\ TokenResponse(TaskKey, session.token) = TokenResponse(StripKey, session.token)
    /\ session' = [session EXCEPT
          !.pc = AfterStatus,
          !.status = AddStatus(TaskKey, session.token,
                               StripStatus(StripKey, session.token, plugs))]
    /\ touched' = Snapshot
    /\ UNCHANGED <<plugs, queue, garbled, last>>

\* The stream has ended: the buffer still holds the token, and is decoded.
ReadStatusEnd ==
    /\ At("status")
    /\ MainUnchanged
    /\ session' = [session EXCEPT
          !.pc = AfterStatus, !.open = FALSE,
          !.status = AddStatus(TaskKey, session.token, session.token)]
    /\ garbled' = TRUE
    /\ last' = Forgotten
    /\ UNCHANGED <<plugs, queue, touched>>

\* The read throws: "Invalid Password", or a strip that is too slow.
ReadStatusThrows ==
    /\ At("status")
    /\ MainUnchanged
    /\ session' = [session EXCEPT !.pc = "bye", !.result = "password"]
    /\ last' = Forgotten
    /\ UNCHANGED <<plugs, queue, touched, garbled>>

\* The command is written; a strip that is still connected carries it out.
WriteCommand ==
    /\ At("set")
    /\ MainUnchanged
    /\ session' = [session EXCEPT !.pc = "confirm"]
    /\ plugs' = IF session.open
                THEN Switched(StripKey, session.token,
                              SetStatus(TaskKey, session.token,
                                        session.task.plug, session.task.value), plugs)
                ELSE plugs
    /\ touched' = touched \cup {p \in Plugs : plugs'[p] # plugs[p]}
    /\ UNCHANGED <<queue, garbled, last>>

\* The status after it is read, or the end of the stream, into a new buffer.
ReadConfirmation ==
    /\ At("confirm")
    /\ MainUnchanged
    /\ \/ /\ session.open
          /\ session' = [session EXCEPT
                !.pc = "bye",
                !.status = AddStatus(TaskKey, session.token,
                                     StripStatus(StripKey, session.token, plugs))]
          /\ touched' = Snapshot
          /\ UNCHANGED <<garbled, last>>
       \/ /\ session' = [session EXCEPT
                !.pc = "bye", !.open = FALSE,
                !.status = AddStatus(TaskKey, session.token, NewBuffer)]
          /\ garbled' = TRUE
          /\ last' = Forgotten
          /\ UNCHANGED touched
    /\ UNCHANGED <<plugs, queue>>

\* BYE is written: the result stands.
Bye ==
    /\ At("bye")
    /\ Answer(session.result,
              IF session.result = "none" THEN session.status ELSE NoStatus)
    /\ UNCHANGED last
    /\ AnswerUnchanged

----------------------------------------------------------------------------
(* The strip's own buttons *)

Press(plug) ==
    /\ ~crashed /\ presses < MaxPresses
    /\ presses' = presses + 1
    /\ plugs' = [plugs EXCEPT ![plug] = ~@]
    /\ touched' = touched \cup {plug}
    /\ last' = [last EXCEPT ![plug] = {}]
    /\ UNCHANGED <<settings, queue, session, messages, system, activity, gone, crashed,
                   given, garbled, answered, unsafe>>

----------------------------------------------------------------------------
Session ==
    \/ Throw \/ ReadToken \/ ReadStatus \/ ReadStatusEnd \/ ReadStatusThrows
    \/ WriteCommand \/ ReadConfirmation \/ Bye

Next ==
    \/ ServiceConnected \/ Leave \/ Return \/ Handle \/ HandleGone \/ PushOther
    \/ \E plug \in UsedPlugs : RequestPlugSwitch(plug) \/ Press(plug)
    \/ \E timer \in Timers : StartCommand(timer)
    \/ \E entered \in Settings : Connect(entered)
    \/ \E tab \in {"main", "setup"} : SelectTab(tab)
    \/ Reopen \/ Restore
    \/ Start \/ EndOther \/ Session

\* The service is bound, the main looper runs, the manager starts tasks, and a
\* session's reads time out; a WeMo task may have no such limit.
Spec ==
    /\ Init
    /\ [][Next]_vars
    /\ WF_vars(ServiceConnected)
    /\ WF_vars(Handle \/ HandleGone)
    /\ WF_vars(Start)
    /\ WF_vars(Session)
    /\ ~MayHang => WF_vars(EndOther)

----------------------------------------------------------------------------
\* A wrong password is refused whatever the token: the strip's answer to it tells
\* the passwords apart.  16 bits a word, some do collide.
WrongPasswordsRefused ==
    \A s \in Settings, token \in Tokens :
        TokenResponse(Key(s.password), token) = TokenResponse(StripKey, token) =>
            Key(s.password) = StripKey

TaskRecords ==
    [kind : {"get", "set", "other", "none"}, for : 0 .. MaxActivities, plug : Plugs,
     value : BOOLEAN, settings : Settings]

StatusOrNull == [Plugs -> BOOLEAN] \cup {NoStatus}

Sessions ==
    [pc : {"idle", "other", "connect", "status", "set", "confirm", "bye"},
     task : TaskRecords, token : Buffer, status : StatusOrNull,
     open : BOOLEAN, result : Errors]

Messages ==
    [what : Errors, sockets : StatusOrNull, to : Activities, settings : Settings]

Systems ==
    [status : Statuses, error : Errors, screen : {"shown", "left"}, tab : Tabs,
     bound : BOOLEAN, sockets : [Plugs -> BOOLEAN]]

TypeOK ==
    /\ plugs \in [Plugs -> BOOLEAN]
    /\ settings \in Settings
    /\ queue \in Seq(TaskRecords)
    /\ session \in Sessions
    /\ messages \in Seq(Messages)
    /\ system \in Systems
    /\ activity \in Activities
    /\ gone \in [Activities -> Statuses]
    /\ given \in 0 .. MaxRequests
    /\ presses \in 0 .. MaxPresses
    /\ touched \subseteq Plugs
    /\ {crashed, garbled, unsafe} \subseteq BOOLEAN
    /\ last \in [Plugs -> SUBSET BOOLEAN]
    /\ answered \in Settings

Quiet == queue = << >> /\ session.pc = "idle" /\ messages = << >>

\* With all answers in, an online screen shows the plugs as they are, except for
\* those a button or a timer has switched since: answers are applied in the order
\* of the requests, also across activities, and the cipher keeps their order.
ScreenMatchesStrip ==
    Quiet /\ system.status = "online" /\ ~garbled =>
        \A p \in Plugs \ touched : system.sockets[p] = plugs[p]

\* With all tasks done, each plug is in the state last asked of it, by a tap or
\* a timer of either activity, unless that request failed or a button was pressed.
LastCommandWins == Quiet => \A p \in Plugs : last[p] \subseteq {plugs[p]}

\* A session switches no plug but the one of its task, and to its value.
OnlyAskedPlugSwitches ==
    [][\A p \in Plugs :
          plugs'[p] # plugs[p] /\ presses' = presses =>
              /\ session.task.kind = "set"
              /\ session.task.plug = p
              /\ session.task.value = plugs'[p]]_vars

\* With all answers in, the status is about the settings in force, not about
\* those a task took with it when it was pushed.
StatusIsOfTheSettings ==
    Quiet /\ system.status # "loading" => answered = settings

\* Nothing throws (a change of status on a screen without an activity, an answer
\* without a status) unless an activity was replaced or its screen left while an
\* answer was awaited, or an activity restored: who leaves a screen that waits for
\* nothing, and whose status no timer or WeMo task can change, is safe.
CrashesOnlyIfUnsafe == crashed => unsafe

\* The loading screen goes away, unless a WeMo task hangs in the shared queue.
LoadingEnds ==
    system.status = "loading" ~>
        system.status # "loading" \/ crashed \/ session.pc = "other"
=============================================================================
