--------------------------- MODULE LightConnection ---------------------------
(***************************************************************************)
(* How the lights get their bridge: LightService, bound by the activity's    *)
(* LightSystem and started by each light alarm, over the one bridge SDK of   *)
(* the process.  The SDK answers on threads of its own, to every listener    *)
(* registered; a listener posts to the handler its service has at that time, *)
(* the screen's or an alarm's.  The SDK is external: what it promises is     *)
(* taken from the library the application is built with.                     *)
(***************************************************************************)
EXTENDS Integers, SequencesExt, DomoSystem

CONSTANTS
    MaxAlarms,    \* bound on the alarms
    MaxEvents     \* bound on what else comes from outside: taps, commands, stops,
                  \* heartbeats that fail or see a change, demands for the button

ASSUME LightConnectionAssumption ==
    {MaxAlarms, MaxEvents} \subseteq Nat

\* The LightService instances: the activity binds one, and an alarm that finds
\* none bound gets one of its own, which stops at once.
Services == 1 .. MaxAlarms + 1

\* Whom a handler or a request stands for: an alarm by its number, or
None == -1
Screen == 0
Clients == -1 .. MaxAlarms

\* Bridge objects: each successful connection makes one; 0 is Java's null.
NoBridge == 0

VARIABLES
    sdk,       \* the PHHueSDK: bridges connected, heartbeats, listeners, ...
    service,   \* service[s] : the fields of the LightService s
    created,   \* the number of services created
    bound,     \* the service that the activity has bound, or 0
    stored,    \* whether the preferences hold the bridge's address
    system,    \* the LightSystem: status, error, screen, tab, mService known
    visible,   \* the activity is started
    messages,  \* the messages to the main thread, oldest first
    crash,     \* what has killed the process, or "none"
    alarms,    \* the number of alarms so far
    events,    \* the number of other events from outside
    silent,    \* auxiliary: connect has found the bridge connected, and told no one
    asked,     \* auxiliary: the alarms that wait for an answer of the bridge
    cut        \* auxiliary: why the screen was not told that the bridge went

serviceVars == <<service, created, bound, stored>>

screenVars == <<system, visible>>

auxVars == <<silent, asked, cut>>

countVars == <<alarms, events>>

vars == <<sdk, serviceVars, screenVars, auxVars, messages, crash, countVars>>

NewService ==
    [handler |-> None, listener |-> "none", find |-> FALSE, connected |-> FALSE,
     bridge |-> NoBridge, server |-> stored, request |-> None, running |-> None]

Init ==
    /\ stored \in BOOLEAN
    /\ sdk = [bridges |-> {}, beating |-> {}, lost |-> {}, selected |-> NoBridge,
              made |-> 0, listeners |-> << >>, threads |-> 0, blank |-> 0,
              searches |-> 0, pushlink |-> FALSE]
    /\ service = [s \in Services |-> NewService]
    /\ created = 0
    /\ bound = 0
    /\ system = [status |-> "loading", error |-> "none", screen |-> "new",
                 tab |-> "setup", service |-> FALSE]
    /\ visible = FALSE
    /\ messages = << >>
    /\ crash = "none"
    /\ alarms = 0
    /\ events = 0
    /\ silent = FALSE
    /\ asked = {}
    /\ cut = "none"

----------------------------------------------------------------------------
(* What the handlers below share *)

Alive == crash = "none"

Crash(why) ==
    /\ crash' = why
    /\ UNCHANGED <<sdk, serviceVars, screenVars, auxVars, messages>>

FromOutside ==
    /\ events < MaxEvents
    /\ events' = events + 1
    /\ UNCHANGED alarms

\* Every registered listener posts what it heard to its service's handler.
Heard(what) ==
    messages \o [i \in DOMAIN sdk.listeners |->
                    [to |-> service[sdk.listeners[i]].handler,
                     service |-> sdk.listeners[i], what |-> what]]

\* So do those at the given places of the list, in the order of the list.
HeardAt(places, what) ==
    {messages \o [i \in DOMAIN q |->
                     [to |-> service[sdk.listeners[q[i]]].handler,
                      service |-> sdk.listeners[q[i]], what |-> what]] :
        q \in {q \in SetToSeqs(places) : \A i, j \in DOMAIN q : i < j => q[i] < q[j]}}

Listening == ToSet(sdk.listeners)

\* What the service of the activity hears goes to the screen.
ScreenListens == bound \in Listening /\ service[bound].handler = Screen

\* isAccessPointConnected, for the address that a service has.
Connected(s) == service[s].server /\ sdk.bridges # {}

\* Mutant: the heartbeat of the bridge goes on.
UnpluggedBeating(k) == [k EXCEPT !.bridges = @ \ {k.selected}]

\* PHHueSDK.disconnect of the selected bridge, which stays selected.
Unplugged(k) ==
    [k EXCEPT !.bridges = @ \ {k.selected}, !.beating = @ \ {k.selected},
              !.lost = @ \ {k.selected}]

\* disconnect: nothing without a selected bridge.
Disconnected(s) ==
    IF sdk.selected = NoBridge THEN sdk
    ELSE [Unplugged(sdk) EXCEPT !.listeners = RemoveFirst(@, s)]

\* doRequest, once a request is in place.
DoRequest(r) ==
    IF r.running # None THEN r
    ELSE [r EXCEPT !.running = r.request, !.request = None]

UpdateLights(r, client) == DoRequest([r EXCEPT !.request = client])

\* Mutant: the alarm's handler leaves mListener alone.
AlarmHeardOnly(r, alarm) == UpdateLights(r, alarm)

\* What the alarm's handler does with a service: from then on it disconnects
\* whenever a request is done.
AlarmHeard(r, alarm) == UpdateLights([r EXCEPT !.listener = "disconnect"], alarm)

\* Mutant: the listener is not registered.
Unregistered(k, s) == k

Registered(k, s) == [k EXCEPT !.listeners = Append(@, s)]

----------------------------------------------------------------------------
(* The main thread: the activity *)

\* LightSystem's constructor binds the service, which Android creates.
Open ==
    /\ Alive /\ bound = 0
    /\ created' = created + 1
    /\ bound' = created'
    /\ service' = [service EXCEPT ![bound'] = NewService]
    /\ visible' = TRUE
    /\ UNCHANGED <<sdk, stored, system, auxVars, messages, crash, countVars>>

\* connect: a service that has an address connects to it, unless the bridge is
\* connected already, of which it tells no one; one without searches.
Connect(r, s) ==
    LET new == [r EXCEPT !.handler = Screen, !.find = ~r.server] IN
    /\ service' = [service EXCEPT ![s] = new]
    /\ silent' = (silent \/ (r.server /\ sdk.bridges # {}))
    /\ UNCHANGED <<asked, cut>>
    /\ sdk' = IF ~r.server
              THEN Registered([sdk EXCEPT !.listeners = RemoveFirst(@, s),
                                          !.searches = @ + 1], s)
              ELSE IF sdk.bridges # {} THEN sdk
              ELSE Registered([sdk EXCEPT !.threads = @ + 1], s)

\* onServiceConnected.
ServiceConnected ==
    /\ Alive /\ bound # 0 /\ ~system.service
    /\ system' = [system EXCEPT !.service = TRUE]
    /\ Connect([service[bound] EXCEPT !.listener = "screen"], bound)
    /\ UNCHANGED <<created, bound, stored, visible, messages, crash, countVars>>

ScreenMoved ==
    UNCHANGED <<sdk, serviceVars, visible, auxVars, messages, crash>>

\* The user selects the lights: onCreateView asks the service for them, once.
CreateView ==
    /\ Alive /\ visible /\ system.screen # "shown"
    /\ UNCHANGED countVars
    /\ \/ /\ system.screen = "new" /\ ~system.service
          /\ Crash("unbound")
       \/ /\ system.screen = "new" /\ system.service
          /\ system' = [system EXCEPT !.screen = "shown", !.tab = FirstTab(system.status)]
          /\ ScreenMoved
       \/ /\ system.screen = "left"
          /\ system' = [system EXCEPT !.screen = "shown"]
          /\ ScreenMoved

\* Another system, whose fragment replaces the one of the lights.
Leave ==
    /\ Alive /\ visible /\ system.screen = "shown"
    /\ system' = [system EXCEPT !.screen = "left"]
    /\ ScreenMoved
    /\ UNCHANGED countVars

\* One of the tabs, which are enabled while online.
SelectTab(tab) ==
    /\ Alive /\ visible /\ system.screen = "shown" /\ system.status = "online"
    /\ system' = [system EXCEPT !.tab = tab]
    /\ ScreenMoved
    /\ UNCHANGED countVars

\* Connect and Find do the same: neither uses the address entered.
Tap ==
    /\ Alive /\ visible /\ system.screen = "shown"
    /\ system.tab = "setup" /\ system.status \in {"online", "offline"}
    /\ FromOutside
    /\ Connect(service[bound], bound)
    /\ UNCHANGED <<created, bound, stored, screenVars, messages, crash>>

\* A command to the lights, or their names, while online.
Command ==
    /\ Alive /\ visible /\ system.screen = "shown" /\ system.status = "online"
    /\ FromOutside
    /\ LET new == UpdateLights(service[bound], Screen) IN
       \/ /\ new.running = Screen /\ new.bridge = NoBridge
          /\ Crash("lights")
       \/ /\ ~(new.running = Screen /\ new.bridge = NoBridge)
          /\ service' = [service EXCEPT ![bound] = new]
          /\ UNCHANGED <<sdk, created, bound, stored, screenVars, auxVars, messages, crash>>

\* onStop disconnects; nothing connects again when the activity starts again.
Stop ==
    /\ Alive /\ visible
    /\ FromOutside
    /\ \/ /\ ~system.service
          /\ Crash("unbound")
       \/ /\ system.service
          /\ visible' = FALSE
          /\ sdk' = Disconnected(bound)
          /\ cut' = IF sdk.selected \in sdk.bridges THEN "stop" ELSE cut
          /\ UNCHANGED <<serviceVars, system, silent, asked, messages, crash>>

Restart ==
    /\ Alive /\ ~visible /\ bound # 0
    /\ visible' = TRUE
    /\ UNCHANGED <<sdk, serviceVars, system, auxVars, messages, crash, countVars>>

\* It is created again from a saved state, as after a rotation: the fragment of the
\* system selected has no empty constructor.
Restore ==
    /\ Alive /\ ~visible /\ bound # 0
    /\ Crash("restored")
    /\ UNCHANGED countVars

----------------------------------------------------------------------------
(* The main thread: alarms and messages *)

\* onStartCommand, in the service bound or in one of its own: switch the lights
\* if the bridge is connected, connect with a handler for the alarm otherwise.
OnStartCommand ==
    LET s == IF bound # 0 THEN bound ELSE created + 1
        r == IF bound # 0 THEN service[s] ELSE NewService
        alarm == alarms + 1
        connected == r.server /\ sdk.bridges # {}
    IN
    /\ Alive
    /\ alarms < MaxAlarms
    /\ alarms' = alarm
    /\ UNCHANGED events
    /\ \/ /\ connected /\ r.bridge = NoBridge
          /\ Crash("lights")
       \/ /\ ~(connected /\ r.bridge = NoBridge)
          /\ created' = IF bound # 0 THEN created ELSE s
          /\ \/ /\ connected
                /\ service' = [service EXCEPT ![s] = UpdateLights(r, alarm)]
                /\ UNCHANGED <<sdk, asked>>
             \/ /\ ~connected
                /\ service' = [service EXCEPT ![s] = [r EXCEPT !.handler = alarm]]
                /\ sdk' = Registered(IF r.server THEN [sdk EXCEPT !.threads = @ + 1]
                                     ELSE [sdk EXCEPT !.blank = @ + 1], s)
                /\ asked' = asked \cup {alarm}
          /\ UNCHANGED <<bound, stored, screenVars, silent, cut, messages, crash>>

First == Head(messages)

\* updateStatus on a view without an activity: it cannot turn to another tab, nor
\* ask for the button.
ShowFails(error) ==
    \/ TurnFails(system, error)
    \/ system.screen = "left" /\ error = "notify" /\ system.status # "warning"

\* DomoSystem's handler; requestResponse shows the lights, if there are any.
HandleScreen ==
    /\ Alive /\ messages # << >> /\ First.to = Screen /\ First.what # "done"
    /\ UNCHANGED countVars
    /\ \/ /\ ShowFails(First.what)
          /\ Crash("left")
       \/ /\ ~ShowFails(First.what)
          /\ messages' = Tail(messages)
          /\ system' = Told(system, First.what)
          /\ UNCHANGED <<sdk, serviceVars, visible, auxVars, crash>>

\* The alarm's handler: only an answer without an error counts, whatever it
\* answers.
HandleAlarm ==
    LET s == First.service IN
    /\ Alive /\ messages # << >> /\ First.to > Screen /\ First.what # "done"
    /\ \/ /\ First.what = "none" /\ service[s].bridge = NoBridge
          /\ Crash("lights")
       \/ /\ ~(First.what = "none" /\ service[s].bridge = NoBridge)
          /\ messages' = Tail(messages)
          /\ service' = IF First.what # "none" THEN service
                        ELSE [service EXCEPT ![s] = AlarmHeard(@, First.to)]
          /\ asked' = asked \ {First.to}
          /\ UNCHANGED <<sdk, created, bound, stored, screenVars, silent, cut, crash>>
    /\ UNCHANGED countVars

\* mLightRequestsHandler: the next request first, then whoever listens.
HandleDone ==
    LET s == First.service
        next == DoRequest([service[s] EXCEPT !.running = None])
    IN
    /\ Alive /\ messages # << >> /\ First.what = "done"
    /\ \/ /\ next.listener = "none"
          /\ Crash("listener")
       \/ /\ next.listener # "none"
          /\ messages' = Tail(messages)
          /\ service' = [service EXCEPT ![s] = next]
          /\ \/ /\ next.listener = "screen"
                /\ UNCHANGED <<sdk, cut>>
             \/ /\ next.listener = "disconnect"
                /\ sdk' = Disconnected(s)
                /\ cut' = IF sdk.selected \in sdk.bridges THEN "alarm" ELSE cut
          /\ UNCHANGED <<created, bound, stored, screenVars, silent, asked, crash>>
    /\ UNCHANGED countVars

----------------------------------------------------------------------------
(* The threads of the SDK, external but for the listener's callbacks *)

\* Mutant: the listener keeps every error to itself.
FailUnheard(k) ==
    /\ sdk' = k
    /\ UNCHANGED <<serviceVars, screenVars, auxVars, messages, crash, countVars>>

\* Every listener hears of an error, but not of one of the button's.
Fail(k) ==
    /\ sdk' = k
    /\ messages' = Heard("network")
    /\ UNCHANGED <<serviceVars, screenVars, auxVars, crash, countVars>>

\* onBridgeConnected, in every listener: the bridge is selected and beats.
OnBridgeConnected ==
    LET b == sdk.made + 1 IN
    /\ sdk' = [sdk EXCEPT !.threads = @ - 1, !.made = b, !.bridges = {b},
                          !.selected = b,
                          !.beating = IF sdk.listeners = << >> THEN @ ELSE @ \cup {b}]
    /\ service' = [s \in Services |->
                      IF s \in Listening
                      THEN [service[s] EXCEPT !.bridge = b, !.connected = TRUE,
                                              !.server = @ \/ service[s].find]
                      ELSE service[s]]
    /\ stored' = (stored \/ \E s \in Listening : service[s].find)
    /\ messages' = Heard("none")
    /\ cut' = "none"
    /\ UNCHANGED <<created, bound, screenVars, silent, asked, crash, countVars>>

\* onAuthenticationRequired: the bridge asks for its button.
OnAuthenticationRequired ==
    /\ FromOutside
    /\ sdk' = [sdk EXCEPT !.threads = @ - 1,
                          !.pushlink = @ \/ sdk.listeners # << >>]
    /\ messages' = Heard("notify")
    /\ UNCHANGED <<serviceVars, screenVars, auxVars, crash>>

\* A thread of PHHueSDK.connect ends: an answer that comes second is an error.
ConnectEnds ==
    /\ Alive /\ sdk.threads > 0
    /\ \/ sdk.bridges = {} /\ OnBridgeConnected
       \/ OnAuthenticationRequired
       \/ Fail([sdk EXCEPT !.threads = @ - 1])

\* A connection to no address fails.
BlankEnds ==
    /\ Alive /\ sdk.blank > 0
    /\ Fail([sdk EXCEPT !.blank = @ - 1])

\* The button is pressed, which connects, or it is not in time.
PushlinkEnds ==
    /\ Alive /\ sdk.pushlink
    /\ \/ /\ sdk.bridges = {}
          /\ sdk' = [sdk EXCEPT !.pushlink = FALSE, !.threads = @ + 1]
          /\ UNCHANGED <<serviceVars, screenVars, auxVars, messages, crash, countVars>>
       \/ Fail([sdk EXCEPT !.pushlink = FALSE])

\* onAccessPointsFound, in every listener: the selected bridge is disconnected
\* and the one found connected to, which throws when another object has it.
OnAccessPointsFound ==
    LET k == IF sdk.selected = NoBridge \/ sdk.listeners = << >> THEN sdk
             ELSE Unplugged(sdk) IN
    \/ /\ k.bridges # {} /\ sdk.listeners # << >>
       /\ Crash("connected")
       /\ UNCHANGED countVars
    \/ /\ k.bridges = {} \/ sdk.listeners = << >>
       /\ sdk' = [k EXCEPT !.searches = @ - 1, !.threads = @ + Len(k.listeners)]
       /\ cut' = IF k.bridges # sdk.bridges THEN "search" ELSE cut
       /\ UNCHANGED <<serviceVars, screenVars, silent, asked, messages, crash, countVars>>

SearchEnds ==
    /\ Alive /\ sdk.searches > 0
    /\ \/ OnAccessPointsFound
       \/ Fail([sdk EXCEPT !.searches = @ - 1])

\* Mutant: only onConnectionLost is heard, which tells no one.
LossUnheard == messages

\* The SDK reports an error before it calls onConnectionLost.
LossHeard == Heard("network")

\* A heartbeat fails, again perhaps: an error, then onConnectionLost.
OnConnectionLost(b) ==
    /\ Alive /\ b \in sdk.beating
    /\ FromOutside
    /\ sdk' = [sdk EXCEPT !.bridges = @ \ {b}, !.lost = @ \cup {b}]
    /\ service' = [s \in Services |->
                      IF s \in Listening THEN [service[s] EXCEPT !.connected = FALSE]
                      ELSE service[s]]
    /\ messages' = LossHeard
    /\ cut' = IF b \in sdk.bridges /\ ~ScreenListens THEN "deaf" ELSE cut
    /\ UNCHANGED <<created, bound, stored, screenVars, silent, asked, crash>>

\* onConnectionResumed: a service that knows itself connected says nothing.
OnConnectionResumed(b) ==
    LET deaf == {s \in Listening : ~service[s].connected}
        first == {i \in DOMAIN sdk.listeners :
                     /\ sdk.listeners[i] \in deaf
                     /\ \A j \in 1 .. i - 1 : sdk.listeners[j] # sdk.listeners[i]}
    IN
    /\ Alive /\ b \in sdk.beating \cap sdk.lost
    /\ sdk' = [sdk EXCEPT !.bridges = @ \cup {b}, !.lost = @ \ {b}]
    /\ service' = [s \in Services |->
                      IF s \in deaf THEN [service[s] EXCEPT !.connected = TRUE]
                      ELSE service[s]]
    /\ messages' \in HeardAt(first, "none")
    /\ cut' = "none"
    /\ UNCHANGED <<created, bound, stored, screenVars, silent, asked, crash, countVars>>

\* onCacheUpdated: its STATUS_ONLINE is the number of ERROR_NONE.
OnCacheUpdated(b) ==
    LET idle == {i \in DOMAIN sdk.listeners : service[sdk.listeners[i]].running = None} IN
    /\ Alive /\ b \in sdk.beating \ sdk.lost
    /\ FromOutside
    /\ messages' \in HeardAt(idle, "none")
    /\ UNCHANGED <<sdk, serviceVars, screenVars, auxVars, crash>>

\* The bridge has answered for every light of a request.
RequestDone(s) ==
    /\ Alive /\ service[s].running # None
    /\ \A m \in ToSet(messages) : ~(m.what = "done" /\ m.service = s)
    /\ messages' = Append(messages, [to |-> None, service |-> s, what |-> "done"])
    /\ UNCHANGED <<sdk, serviceVars, screenVars, auxVars, crash, countVars>>

----------------------------------------------------------------------------
Handle == HandleScreen \/ HandleAlarm \/ HandleDone

Heartbeat(b) == OnConnectionLost(b) \/ OnConnectionResumed(b) \/ OnCacheUpdated(b)

Next ==
    \/ Open \/ ServiceConnected \/ CreateView \/ Leave \/ \E tab \in Tabs : SelectTab(tab)
    \/ Tap \/ Command \/ Stop \/ Restart \/ Restore
    \/ OnStartCommand \/ Handle
    \/ ConnectEnds \/ BlankEnds \/ PushlinkEnds \/ SearchEnds
    \/ \E b \in sdk.beating : Heartbeat(b)
    \/ \E s \in Services : RequestDone(s)

\* The main thread and the SDK's threads run on; nothing makes a user tap, the
\* activity open, or a heartbeat come back.
Spec ==
    /\ Init
    /\ [][Next]_vars
    /\ WF_vars(ServiceConnected)
    /\ WF_vars(Handle)
    /\ WF_vars(ConnectEnds)
    /\ WF_vars(BlankEnds)
    /\ WF_vars(PushlinkEnds)
    /\ WF_vars(SearchEnds)
----------------------------------------------------------------------------
SDKs ==
    [bridges : SUBSET Nat, beating : SUBSET Nat, lost : SUBSET Nat, selected : Nat,
     made : Nat, listeners : Seq(Services), threads : Nat, blank : Nat, searches : Nat,
     pushlink : BOOLEAN]

LightServices ==
    [handler : Clients, listener : {"none", "screen", "disconnect"}, find : BOOLEAN,
     connected : BOOLEAN, bridge : Nat, server : BOOLEAN, request : Clients,
     running : Clients]

Systems ==
    [status : Statuses, error : Errors, screen : Screens, tab : Tabs, service : BOOLEAN]

Causes == {"none", "unbound", "lights", "listener", "connected", "left", "restored"}

Posts == [to : Clients, service : Services, what : Errors \cup {"done"}]

TypeOK ==
    /\ sdk \in SDKs
    /\ sdk.bridges \cup sdk.beating \subseteq 1 .. sdk.made
    /\ sdk.lost \subseteq sdk.beating
    /\ sdk.selected \in 0 .. sdk.made
    /\ service \in [Services -> LightServices]
    /\ \A s \in Services : service[s].bridge \in 0 .. sdk.made
    /\ created \in 0 .. MaxAlarms + 1
    /\ Listening \subseteq 1 .. created
    /\ bound \in 0 .. created
    /\ stored \in BOOLEAN
    /\ system \in Systems
    /\ visible \in BOOLEAN
    /\ messages \in Seq(Posts)
    /\ \A m \in ToSet(messages) : m.service \in 1 .. created
    /\ crash \in Causes
    /\ alarms \in 0 .. MaxAlarms
    /\ events \in 0 .. MaxEvents
    /\ silent \in BOOLEAN
    /\ asked \subseteq 1 .. alarms
    /\ cut \in {"none", "stop", "alarm", "search", "deaf"}

\* The application dies only of what the code leaves open: the screen used before
\* the service is bound, a search that ends when a lost bridge has been connected
\* again and then resumed, lights asked of a service without the bridge that
\* another service connected, an activity restored, or a change of status on a
\* screen that was left.  Not of every change: one that has waited for the bridge
\* since the application was opened stands a failure.
CrashesOnlyIfUnsafe ==
    /\ crash # "listener"
    /\ crash = "unbound" => ~system.service
    /\ crash = "connected" => sdk.made > 1
    /\ crash = "lights" =>
          \E s, t \in 1 .. created + 1 \cap Services :
             s # t /\ service[s].bridge = NoBridge /\ service[t].bridge # NoBridge
    /\ crash = "left" =>
          /\ system.screen = "left"
          /\ StatusOf(First.what) # system.status
          /\ system.status = "loading" => First.what \in {"none", "notify"}

\* An online screen means a bridge, once the screen has handled its messages,
\* unless the bridge was disconnected on purpose, of which no one is told, or
\* was lost while an alarm had the handler or the service did not listen.
OnlineIsConnected ==
    system.status = "online" /\ (\A m \in ToSet(messages) : m.to # Screen)
    => sdk.bridges # {} \/ cut # "none"

\* Without an activity, the alarms let go of a bridge that was connected once:
\* when all is quiet it is disconnected, and its heartbeat has stopped.
AlarmsLetGo ==
    Alive /\ bound = 0 /\ messages = << >> /\ sdk.threads = 0 /\ sdk.made < 2
        /\ (\A s \in Services : service[s].running = None)
    => sdk.bridges = {} /\ sdk.beating = {}

\* Loading ends, unless connect has found the bridge connected, an alarm has
\* taken the handler, or the service was disconnected.
LoadingEnds ==
    (bound # 0 /\ system.status = "loading")
        ~> \/ system.status # "loading" \/ ~Alive
           \/ silent \/ (system.service /\ ~ScreenListens)

\* An alarm that found no connection gets an answer, unless its handler was
\* replaced, or the screen's service was disconnected.
AlarmAnswered ==
    \A a \in 1 .. MaxAlarms :
        (a \in asked)
            ~> \/ a \notin asked \/ ~Alive
               \/ \A s \in Services : service[s].handler # a
               \/ bound # 0 /\ service[bound].handler = a /\ bound \notin Listening
=============================================================================
