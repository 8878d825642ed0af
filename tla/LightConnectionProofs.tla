------------------------ MODULE LightConnectionProofs ------------------------
(* The connection to the lights: what may kill the process, that an online      *)
(* screen means a bridge, and that alarms let go of it.                          *)
EXTENDS LightConnection, ListFacts

(***************************************************************************)
(* The invariant, by parts.                                                   *)
(***************************************************************************)
\* Until there is a bridge, somebody listens whenever something is under way.
Heeded ==
    \/ sdk.made > 0
    \/ sdk.listeners # << >>
    \/ sdk.threads = 0 /\ sdk.blank = 0 /\ sdk.searches = 0 /\ ~sdk.pushlink

\* The newest bridge is the one selected, and a heartbeat that has not failed is
\* that of a connected bridge.
Bridges ==
    /\ sdk.selected = sdk.made
    /\ sdk.beating \ sdk.lost \subseteq sdk.bridges
    /\ Heeded

\* Each alarm creates one service at most, and the activity one.
Created ==
    /\ created <= IF bound = 0 THEN alarms ELSE alarms + 1
    /\ \A s \in Services : s > created =>
          service[s].bridge = NoBridge /\ service[s].running = None

\* A service is given a handler before it listens, and whoever completes its
\* requests before the screen's handler; its lights are asked of a bridge.
Handlers ==
    /\ \A s \in Services :
          /\ s \in Listening => service[s].handler # None
          /\ service[s].handler = Screen => service[s].listener # "none"
          /\ service[s].running # None => service[s].bridge # NoBridge
    /\ system.service => bound # 0 /\ service[bound].listener # "none"
    /\ system.screen # "new" => system.service

\* A screen that waits for the bridge shows its settings.
Waiting == system.status = "loading" => system.tab = "setup"

\* The messages that say that there is a bridge.
Good == {m \in Posts : m.what = "none"}

\* Where they come from: once there was a bridge, some service has it.
Reached ==
    /\ system.status = "online" \/ Occurs(messages, Good) => sdk.made > 0
    /\ sdk.made > 0 => \E t \in 1 .. created : service[t].bridge # NoBridge

\* The completion of a request of s.
Done(s) == {m \in Posts : m.what = "done" /\ m.service = s}

\* What makes an alarm ask s for lights, and care for their completion.
GoodFor(s) == {m \in Good : m.service = s /\ m.to > Screen}

\* A service whose request is completed knows whom to tell by then.
Answers ==
    \A s \in Services :
        /\ Occurs(messages, Done(s)) => service[s].running # None
        /\ OccursOnce(messages, Done(s))
        /\ service[s].listener = "none" /\ service[s].bridge # NoBridge =>
              HeadedBy(messages, GoodFor(s), Done(s))

\* What the screen is told.
ToScreen == {m \in Posts : m.to = Screen /\ m.what # "done"}

GoodNews == ToScreen \cap Good

BadNews == ToScreen \ Good

\* The screen has been told that the bridge went, or will be last.
Untold ==
    sdk.bridges = {} /\ cut = "none" =>
        /\ FollowedBy(messages, GoodNews, BadNews)
        /\ system.status = "online" => Occurs(messages, BadNews)

\* What makes an alarm's service go on.
Answer == {m \in Posts : m.what \in {"none", "done"}}

\* Without an activity, something is left to happen that ends in a disconnection.
NoActivity ==
    bound = 0 =>
        /\ ~Occurs(messages, ToScreen)
        /\ \A s \in Services :
              /\ service[s].handler # Screen
              /\ service[s].running # None => service[s].listener = "disconnect"
        /\ Alive /\ sdk.made = 1 /\ sdk.bridges \cup sdk.beating # {} =>
              \/ Occurs(messages, Answer)
              \/ \E s \in Services : service[s].running # None

IInv ==
    /\ TypeOK
    /\ Bridges
    /\ Created
    /\ Handlers
    /\ Waiting
    /\ Reached
    /\ Answers
    /\ Untold
    /\ NoActivity
    /\ CrashesOnlyIfUnsafe

(***************************************************************************)
(* What the operations shared by the handlers do.                             *)
(***************************************************************************)
(* The bounds are numbers. *)
LEMMA Bounds == MaxAlarms \in Nat /\ MaxEvents \in Nat
BY LightConnectionAssumption

(* A request takes the place of the one that waits, and runs unless one does:
   nothing else of the service changes. *)
LEMMA Requesting ==
    ASSUME NEW r \in LightServices, NEW c \in Clients
    PROVE  LET u == UpdateLights(r, c) IN
           /\ u \in LightServices
           /\ u.handler = r.handler /\ u.listener = r.listener /\ u.bridge = r.bridge
           /\ c # None => u.running # None
           /\ r.running # None => u.running = r.running
           /\ r.running = None => u.running = c
BY DEF UpdateLights, DoRequest, LightServices

(* The next request runs after one that is done. *)
LEMMA RequestingNext ==
    ASSUME NEW r \in LightServices
    PROVE  LET u == DoRequest([r EXCEPT !.running = None]) IN
           /\ u \in LightServices
           /\ u.handler = r.handler /\ u.listener = r.listener /\ u.bridge = r.bridge
<1> DEFINE i == [r EXCEPT !.running = None]
<1>1. None \in Clients
  BY Bounds DEF Clients, None
<1>2. /\ i \in LightServices /\ i.running = None
      /\ i.handler = r.handler /\ i.listener = r.listener /\ i.bridge = r.bridge
  BY <1>1 DEF LightServices
<1> HIDE DEF i
<1>3. DoRequest(i) = [i EXCEPT !.running = i.request, !.request = None]
  BY <1>2 DEF DoRequest
<1>4. /\ DoRequest(i) \in LightServices
      /\ DoRequest(i).handler = i.handler /\ DoRequest(i).listener = i.listener
      /\ DoRequest(i).bridge = i.bridge
  BY <1>1, <1>2, <1>3 DEF LightServices
<1> QED BY <1>2, <1>4 DEF i

(* A new service listens to nobody, and has no bridge. *)
LEMMA Fresh ==
    ASSUME TypeOK
    PROVE  /\ NewService \in LightServices
           /\ NewService.handler = None /\ NewService.listener = "none"
           /\ NewService.bridge = NoBridge /\ NewService.running = None
BY Bounds DEF NewService, LightServices, Clients, None, NoBridge, TypeOK

\* What listeners have posted, if all of them posted the same.
Notified(t, what) ==
    /\ t \in Seq(Posts)
    /\ \A i \in 1 .. Len(t) :
          /\ t[i].what = what
          /\ t[i].service \in Listening
          /\ t[i].to = service[t[i].service].handler

Everyone(t) == \A s \in Listening : \E i \in 1 .. Len(t) : t[i].service = s

(* Who listens is a service. *)
LEMMA Listeners ==
    ASSUME TypeOK
    PROVE  /\ Listening \subseteq Services
           /\ Len(sdk.listeners) \in Nat /\ DOMAIN sdk.listeners = 1 .. Len(sdk.listeners)
           /\ \A i \in DOMAIN sdk.listeners : sdk.listeners[i] \in Listening
           /\ \A s \in Listening : \E i \in DOMAIN sdk.listeners : sdk.listeners[i] = s
           /\ sdk.listeners \in Seq(Services)
<1>1. sdk.listeners \in Seq(Services)
  BY DEF TypeOK, SDKs
<1> QED BY <1>1 DEF Listening, ToSet

(* All listeners post. *)
LEMMA Hearing ==
    ASSUME TypeOK, NEW what \in Errors
    PROVE  \E t : Notified(t, what) /\ Everyone(t) /\ Heard(what) = messages \o t
<1> DEFINE t == [i \in DOMAIN sdk.listeners |->
                    [to |-> service[sdk.listeners[i]].handler,
                     service |-> sdk.listeners[i], what |-> what]]
<1>1. \A s \in Services : service[s].handler \in Clients
  BY DEF TypeOK, LightServices
<1>2. \A i \in DOMAIN sdk.listeners : t[i] \in Posts
  BY <1>1, Listeners DEF Posts
<1>3. t \in Seq(Posts) /\ Len(t) = Len(sdk.listeners)
  <2>1. t \in [1 .. Len(sdk.listeners) -> Posts]
    BY <1>2, Listeners
  <2> HIDE DEF t
  <2> QED BY <2>1, Listeners
<1>4. \A i \in 1 .. Len(t) : t[i].what = what /\ t[i].service = sdk.listeners[i]
                             /\ t[i].to = service[sdk.listeners[i]].handler
  BY <1>3, Listeners
<1>5. Heard(what) = messages \o t
  BY DEF Heard
<1> HIDE DEF t
<1>6. Notified(t, what)
  BY <1>3, <1>4, Listeners DEF Notified
<1>7. Everyone(t)
  BY <1>3, <1>4, Listeners DEF Everyone
<1> QED BY <1>5, <1>6, <1>7

(* Some listeners post. *)
LEMMA HearingSome ==
    ASSUME TypeOK, NEW what \in Errors, NEW places, places \subseteq DOMAIN sdk.listeners,
           NEW m \in HeardAt(places, what)
    PROVE  \E t : Notified(t, what) /\ m = messages \o t
<1>1. IsFiniteSet(places) /\ Cardinality(places) \in Nat
  <2>1. IsFiniteSet(1 .. Len(sdk.listeners))
    BY Listeners, FS_Interval
  <2>2. IsFiniteSet(places)
    BY <2>1, Listeners, FS_Subset
  <2> QED BY <2>2, FS_CardinalityType
<1>2. PICK q \in SetToSeqs(places) :
         m = messages \o [i \in DOMAIN q |->
                            [to |-> service[sdk.listeners[q[i]]].handler,
                             service |-> sdk.listeners[q[i]], what |-> what]]
  BY DEF HeardAt
<1> DEFINE n == Cardinality(places)
<1>3. q \in [1 .. n -> places]
  BY <1>2 DEF SetToSeqs
<1> DEFINE t == [i \in DOMAIN q |->
                    [to |-> service[sdk.listeners[q[i]]].handler,
                     service |-> sdk.listeners[q[i]], what |-> what]]
<1>4. \A s \in Services : service[s].handler \in Clients
  BY DEF TypeOK, LightServices
<1>5. \A i \in 1 .. n : q[i] \in DOMAIN sdk.listeners /\ sdk.listeners[q[i]] \in Listening
  BY <1>3, Listeners
<1>6. \A i \in 1 .. n : t[i] \in Posts
  BY <1>3, <1>4, <1>5, Listeners DEF Posts
<1>7. t \in Seq(Posts) /\ Len(t) = n
  BY <1>1, <1>3, <1>6
<1>8. \A i \in 1 .. Len(t) : t[i].what = what /\ t[i].service = sdk.listeners[q[i]]
                             /\ t[i].to = service[sdk.listeners[q[i]]].handler
  BY <1>3, <1>7
<1>9. m = messages \o t
  BY <1>2
<1> HIDE DEF t
<1>10. Notified(t, what)
  BY <1>5, <1>7, <1>8 DEF Notified
<1> QED BY <1>9, <1>10

(* The SDK without the selected bridge. *)
LEMMA Unplugging ==
    ASSUME TypeOK, Bridges
    PROVE  LET k == Unplugged(sdk) IN
           /\ k \in SDKs
           /\ k = [sdk EXCEPT !.bridges = @ \ {sdk.made}, !.beating = @ \ {sdk.made},
                              !.lost = @ \ {sdk.made}]
           /\ sdk.selected = NoBridge => k = sdk
<1>1. /\ sdk \in SDKs /\ sdk.selected = sdk.made
      /\ sdk.bridges \cup sdk.beating \subseteq 1 .. sdk.made
      /\ sdk.lost \subseteq sdk.beating
  BY DEF TypeOK, Bridges
<1>2. Unplugged(sdk) = [sdk EXCEPT !.bridges = @ \ {sdk.made},
                                   !.beating = @ \ {sdk.made}, !.lost = @ \ {sdk.made}]
  BY <1>1 DEF Unplugged
<1>3. Unplugged(sdk) \in SDKs
  BY <1>1, <1>2 DEF SDKs
<1>4. ASSUME sdk.selected = NoBridge PROVE Unplugged(sdk) = sdk
  <2>1. sdk.bridges = {} /\ sdk.beating = {} /\ sdk.lost = {} /\ sdk.made = 0
    BY <1>1, <1>4 DEF NoBridge
  <2>2. Unplugged(sdk) = [sdk EXCEPT !.bridges = {}, !.beating = {}, !.lost = {}]
    BY <1>2, <2>1
  <2> QED BY <1>1, <2>1, <2>2 DEF SDKs
<1> QED BY <1>2, <1>3, <1>4

(* The SDK after a disconnection. *)
LEMMA Disconnecting ==
    ASSUME TypeOK, Bridges, NEW s
    PROVE  LET k == Disconnected(s) IN
           /\ k \in SDKs
           /\ k.bridges = sdk.bridges \ {sdk.made}
           /\ k.beating = sdk.beating \ {sdk.made}
           /\ k.lost = sdk.lost \ {sdk.made}
           /\ k.made = sdk.made /\ k.selected = sdk.selected
           /\ sdk.made = 0 => k = sdk
           /\ ToSet(k.listeners) \subseteq Listening
<1>1. sdk \in SDKs /\ sdk.selected = sdk.made
  BY DEF TypeOK, Bridges
<1> DEFINE k == Unplugged(sdk)
<1>2. /\ k \in SDKs
      /\ k = [sdk EXCEPT !.bridges = @ \ {sdk.made}, !.beating = @ \ {sdk.made},
                         !.lost = @ \ {sdk.made}]
      /\ sdk.selected = NoBridge => k = sdk
  BY Unplugging
<1>3. /\ k.bridges = sdk.bridges \ {sdk.made} /\ k.beating = sdk.beating \ {sdk.made}
      /\ k.lost = sdk.lost \ {sdk.made} /\ k.made = sdk.made /\ k.selected = sdk.selected
      /\ k.listeners = sdk.listeners
  BY <1>1, <1>2 DEF SDKs
<1> HIDE DEF k
<1> DEFINE l == RemoveFirst(k.listeners, s)
<1>4. l \in Seq(Services) /\ ToSet(l) \subseteq Listening
  <2>1. Range(l) = ToSet(l) /\ Range(sdk.listeners) = Listening
    BY DEF Range, ToSet, Listening
  <2> QED BY <1>3, <2>1, Listeners, RemoveFirstKeeps
<1> HIDE DEF l
<1>5. CASE sdk.selected = NoBridge
  <2>1. Disconnected(s) = sdk
    BY <1>5 DEF Disconnected
  <2> QED BY <1>1, <1>2, <1>3, <1>5, <2>1 DEF Listening
<1>6. CASE sdk.selected # NoBridge
  <2>1. Disconnected(s) = [k EXCEPT !.listeners = l]
    BY <1>6 DEF Disconnected, k, l
  <2>2. Disconnected(s) \in SDKs
    BY <1>2, <1>4, <2>1 DEF SDKs
  <2>3. /\ Disconnected(s).bridges = k.bridges /\ Disconnected(s).beating = k.beating
        /\ Disconnected(s).lost = k.lost /\ Disconnected(s).made = k.made
        /\ Disconnected(s).selected = k.selected /\ Disconnected(s).listeners = l
    BY <1>2, <2>1 DEF SDKs
  <2> QED BY <1>1, <1>3, <1>4, <1>6, <2>2, <2>3 DEF NoBridge
<1> QED BY <1>5, <1>6

(***************************************************************************)
(* What the steps do, as far as the invariant goes.                           *)
(***************************************************************************)
\* The other services stay as they are.
Only(s) == \A u \in Services : u # s => service'[u] = service[u]

\* A service keeps whom it talks to, its bridge and its request.
Keeps(s) ==
    /\ service'[s].handler = service[s].handler
    /\ service'[s].listener = service[s].listener
    /\ service'[s].bridge = service[s].bridge
    /\ service'[s].running = service[s].running

SameBridges ==
    /\ sdk'.bridges = sdk.bridges /\ sdk'.beating = sdk.beating
    /\ sdk'.lost = sdk.lost /\ sdk'.made = sdk.made

\* The process dies, and nothing else happens.
Dies ==
    /\ UNCHANGED <<sdk, service, created, bound, system, messages, cut>>
    /\ alarms' \in {alarms, alarms + 1}
    /\ crash' # "none"

\* The activity binds a service of its own.
Opening ==
    /\ bound = 0 /\ created + 1 \in Services
    /\ created' = created + 1 /\ bound' = created + 1
    /\ service' = [service EXCEPT ![created + 1] = NewService]
    /\ UNCHANGED <<sdk, system, messages, alarms, cut, crash>>

\* The screen connects.
Connecting ==
    /\ bound \in 1 .. created /\ bound \in Services
    /\ Only(bound)
    /\ service'[bound].handler = Screen
    /\ service'[bound].listener # "none"
    /\ service'[bound].bridge = service[bound].bridge
    /\ service'[bound].running = service[bound].running
    /\ SameBridges
    /\ Listening' \subseteq Listening \cup {bound}
    /\ system'.status = system.status
    /\ system'.service /\ system'.screen = system.screen
    /\ UNCHANGED <<created, bound, messages, alarms, cut, crash>>

\* The screen, or an alarm, has the lights of the bound service changed.
Requested ==
    /\ bound \in 1 .. created /\ bound \in Services
    /\ Only(bound)
    /\ service'[bound].handler = service[bound].handler
    /\ service'[bound].listener = service[bound].listener
    /\ service'[bound].bridge = service[bound].bridge
    /\ service[bound].bridge # NoBridge
    /\ service'[bound].running # None
    /\ alarms' \in {alarms, alarms + 1}
    /\ UNCHANGED <<sdk, created, bound, system, messages, cut, crash>>

\* An alarm connects with service s.
Summoning(s) ==
    /\ s = IF bound # 0 THEN bound ELSE created + 1
    /\ s \in Services
    /\ created' = IF bound # 0 THEN created ELSE s
    /\ alarms' = alarms + 1
    /\ Only(s)
    /\ service'[s].handler > Screen
    /\ service'[s].bridge = service[s].bridge
    /\ service'[s].running = service[s].running
    /\ bound # 0 => service'[s].listener = service[s].listener
    /\ SameBridges
    /\ Listening' = Listening \cup {s}
    /\ UNCHANGED <<bound, system, messages, cut, crash>>

\* What a disconnection leaves of the SDK's bridges, and what it notes.
Unplug ==
    /\ sdk'.bridges = sdk.bridges \ {sdk.made}
    /\ sdk'.beating = sdk.beating \ {sdk.made}
    /\ sdk'.lost = sdk.lost \ {sdk.made}
    /\ sdk'.made = sdk.made
    /\ Listening' \subseteq Listening
    /\ cut' # "none" \/ (cut' = cut /\ sdk'.bridges = sdk.bridges)

\* The activity stops, or the bridge found by a search is connected anew.
Letting ==
    /\ Unplug \/ (SameBridges /\ Listening' \subseteq Listening /\ UNCHANGED cut)
    /\ UNCHANGED <<service, created, bound, system, messages, alarms, crash>>

\* The screen is looked at, or comes back.
Looking ==
    /\ system'.status = system.status /\ system'.service = system.service
    /\ system'.screen # "new" => system.service
    /\ UNCHANGED <<sdk, service, created, bound, messages, alarms, cut, crash>>

\* The main thread takes a message off.
Taking ==
    /\ messages # << >> /\ messages' = Tail(messages)
    /\ First \in Posts /\ First.service \in 1 .. created /\ First.service \in Services
    /\ UNCHANGED <<created, bound, alarms, crash>>

\* The screen is told.
Telling ==
    /\ Taking /\ First.to = Screen /\ First.what # "done"
    /\ system'.status = StatusOf(First.what)
    /\ system'.service = system.service /\ system'.screen = system.screen
    /\ UNCHANGED <<sdk, service, cut>>

\* An alarm is told that there is a bridge, or of an error.
Alarmed ==
    /\ Taking /\ First.to > Screen /\ First.what # "done"
    /\ IF First.what # "none" THEN UNCHANGED service
       ELSE /\ Only(First.service)
            /\ service[First.service].bridge # NoBridge
            /\ service'[First.service].handler = service[First.service].handler
            /\ service'[First.service].listener = "disconnect"
            /\ service'[First.service].bridge = service[First.service].bridge
            /\ service'[First.service].running # None
    /\ UNCHANGED <<sdk, system, cut>>

\* A request is done.
Finishing ==
    /\ Taking /\ First.what = "done"
    /\ Only(First.service)
    /\ service[First.service].listener # "none"
    /\ service'[First.service].handler = service[First.service].handler
    /\ service'[First.service].listener = service[First.service].listener
    /\ service'[First.service].bridge = service[First.service].bridge
    /\ IF service[First.service].listener = "screen" THEN UNCHANGED <<sdk, cut>> ELSE Unplug
    /\ UNCHANGED system

\* Listeners post what they hear, and the SDK may do its part besides.
Posting(t, what) ==
    /\ Notified(t, what) /\ messages' = messages \o t
    /\ Listening' = Listening
    /\ UNCHANGED <<created, bound, system, alarms, crash>>

\* Of errors, of the button, of changed lights.
Mentioning ==
    \E t, what :
        /\ Posting(t, what)
        /\ what \in {"none", "network", "notify"}
        /\ what = "none" => sdk.bridges # {} /\ sdk.made > 0
        /\ SameBridges /\ UNCHANGED <<service, cut>>

\* Of a new bridge.
Arriving ==
    \E t :
        /\ Posting(t, "none") /\ Everyone(t)
        /\ sdk'.made = sdk.made + 1 /\ sdk'.bridges = {sdk.made + 1}
        /\ sdk.bridges = {}
        /\ sdk'.beating \in {sdk.beating, sdk.beating \cup {sdk.made + 1}}
        /\ sdk'.lost = sdk.lost
        /\ sdk.threads > 0
        /\ \A s \in Services :
              /\ service'[s].handler = service[s].handler
              /\ service'[s].listener = service[s].listener
              /\ service'[s].running = service[s].running
              /\ service'[s].bridge = IF s \in Listening THEN sdk.made + 1
                                      ELSE service[s].bridge
        /\ cut' = "none"

\* Of a bridge that went.
Losing ==
    \E t, b :
        /\ Posting(t, "network") /\ Everyone(t)
        /\ b \in sdk.beating
        /\ sdk'.bridges = sdk.bridges \ {b} /\ sdk'.lost = sdk.lost \cup {b}
        /\ sdk'.beating = sdk.beating /\ sdk'.made = sdk.made
        /\ \A s \in Services : Keeps(s)
        /\ cut' = IF b \in sdk.bridges /\ ~ScreenListens THEN "deaf" ELSE cut

\* Of one that came back.
Resuming ==
    \E t, b :
        /\ Posting(t, "none")
        /\ b \in sdk.beating
        /\ sdk'.bridges = sdk.bridges \cup {b} /\ sdk'.lost = sdk.lost \ {b}
        /\ sdk'.beating = sdk.beating /\ sdk'.made = sdk.made
        /\ \A s \in Services : Keeps(s)
        /\ cut' = "none"

\* The bridge has answered for service s.
Answering(s) ==
    /\ s \in Services /\ service[s].running # None
    /\ ~Occurs(messages, Done(s))
    /\ \E e \in Done(s) : e.to = None /\ messages' = Append(messages, e)
    /\ UNCHANGED <<sdk, service, created, bound, system, alarms, cut, crash>>

\* Any step at all.
Step ==
    \/ Dies \/ Opening \/ Connecting \/ Requested
    \/ \E s \in Services : Summoning(s)
    \/ Letting \/ Looking \/ Telling \/ Alarmed \/ Finishing
    \/ Mentioning \/ Arriving \/ Losing \/ Resuming
    \/ \E s \in Services : Answering(s)

(* The services' records. *)
LEMMA ServiceTypes ==
    ASSUME TypeOK
    PROVE  /\ DOMAIN service = Services
           /\ \A s \in Services : service[s] \in LightServices
           /\ \A s \in 1 .. created : s \in Services
           /\ created \in Nat /\ alarms \in Nat /\ bound \in Nat
           /\ bound # 0 => bound \in 1 .. created /\ bound \in Services
BY Bounds DEF TypeOK, Services

(* There is room for one service more while none is bound. *)
LEMMA Room ==
    ASSUME TypeOK, Created, bound = 0
    PROVE  /\ created + 1 \in Nat /\ created <= MaxAlarms
           /\ created + 1 \in Services
BY Bounds DEF TypeOK, Created, Services

(* The activity is created. *)
LEMMA OpenStep ==
    ASSUME TypeOK, Created, Open
    PROVE  Opening
BY Room DEF Open, Opening, Alive, auxVars, countVars

(* The screen connects, at first or when asked to. *)
LEMMA ConnectStep ==
    ASSUME TypeOK, Handlers, NEW r \in LightServices, Connect(r, bound), bound # 0,
           r.bridge = service[bound].bridge, r.running = service[bound].running,
           r.listener # "none", system' \in Systems,
           system'.status = system.status, system'.service,
           system'.screen = system.screen,
           UNCHANGED <<created, bound, messages, alarms, crash>>
    PROVE  Connecting
<1>1. bound \in 1 .. created /\ bound \in Services /\ DOMAIN service = Services
  BY ServiceTypes
<1> DEFINE new == [r EXCEPT !.handler = Screen, !.find = ~r.server]
<1>2. /\ new.handler = Screen /\ new.listener = r.listener
      /\ new.bridge = r.bridge /\ new.running = r.running
  BY DEF LightServices
<1>3. service' = [service EXCEPT ![bound] = new] /\ UNCHANGED cut
  BY DEF Connect
<1> HIDE DEF new
<1>4. /\ service'[bound] = new /\ Only(bound)
  BY <1>1, <1>3 DEF Only
<1>5. SameBridges /\ Listening' \subseteq Listening \cup {bound}
  <2>1. sdk \in SDKs
    BY DEF TypeOK
  <2>2. CASE ~r.server
    <3> DEFINE l == RemoveFirst(sdk.listeners, bound)
    <3>1. l \in Seq(Services) /\ ToSet(l) \subseteq Listening
      <4>1. Range(l) = ToSet(l) /\ Range(sdk.listeners) = Listening
        BY DEF Range, ToSet, Listening
      <4> QED BY <4>1, Listeners, RemoveFirstKeeps
    <3>2. sdk' = Registered([sdk EXCEPT !.listeners = l, !.searches = @ + 1], bound)
      BY <2>2 DEF Connect
    <3> HIDE DEF l
    <3>3. SameBridges /\ sdk'.listeners = Append(l, bound)
      BY <2>1, <3>2 DEF SameBridges, Registered, SDKs
    <3>4. ToSet(Append(l, bound)) \subseteq ToSet(l) \cup {bound}
      BY <3>1 DEF ToSet
    <3> QED BY <3>1, <3>3, <3>4 DEF Listening
  <2>3. CASE r.server /\ sdk.bridges # {}
    <3>1. sdk' = sdk
      BY <2>3 DEF Connect
    <3> QED BY <3>1 DEF SameBridges, Listening
  <2>4. CASE r.server /\ sdk.bridges = {}
    <3>2. sdk' = Registered([sdk EXCEPT !.threads = @ + 1], bound)
      BY <2>4 DEF Connect
    <3>3. SameBridges /\ sdk'.listeners = Append(sdk.listeners, bound)
      BY <2>1, <3>2 DEF SameBridges, Registered, SDKs
    <3>4. ToSet(Append(sdk.listeners, bound)) \subseteq Listening \cup {bound}
      BY Listeners DEF ToSet, Listening
    <3> QED BY <3>3, <3>4 DEF Listening
  <2> QED BY <2>2, <2>3, <2>4
<1> QED BY <1>1, <1>2, <1>3, <1>4, <1>5 DEF Connecting

(* What the activity does once it is there. *)
LEMMA ActivitySteps ==
    ASSUME TypeOK, Bridges, Handlers
    PROVE  /\ ServiceConnected \/ Tap => Connecting
           /\ Command => Requested \/ Dies
           /\ Stop => Letting \/ Dies
           /\ CreateView => Looking \/ Dies
           /\ Leave \/ Restart \/ (\E tab \in Tabs : SelectTab(tab)) => Looking
           /\ Restore => Dies
<1>1. /\ system \in Systems
      /\ system.screen # "new" => system.service
      /\ system.service => bound # 0
  BY DEF TypeOK, Handlers
<1>2. ASSUME ServiceConnected PROVE Connecting
  <2> DEFINE r == [service[bound] EXCEPT !.listener = "screen"]
  <2>1. bound # 0 /\ bound \in Services
    BY <1>2, ServiceTypes DEF ServiceConnected
  <2>2. /\ r \in LightServices /\ r.listener # "none"
        /\ r.bridge = service[bound].bridge /\ r.running = service[bound].running
    BY <2>1, ServiceTypes DEF LightServices
  <2>3. system' = [system EXCEPT !.service = TRUE] /\ Connect(r, bound)
    BY <1>2 DEF ServiceConnected
  <2>4. /\ system' \in Systems /\ system'.status = system.status /\ system'.service
        /\ system'.screen = system.screen
    BY <1>1, <2>3 DEF Systems
  <2>5. UNCHANGED <<created, bound, messages, alarms, crash>>
    BY <1>2 DEF ServiceConnected, countVars
  <2> HIDE DEF r
  <2> QED BY <2>1, <2>2, <2>3, <2>4, <2>5, ConnectStep
<1>3. ASSUME Tap PROVE Connecting
  <2>1. bound # 0 /\ bound \in Services /\ system.service
    BY <1>1, <1>3, ServiceTypes DEF Tap
  <2>2. service[bound] \in LightServices /\ service[bound].listener # "none"
    BY <2>1, ServiceTypes DEF Handlers
  <2>3. Connect(service[bound], bound)
    BY <1>3 DEF Tap
  <2>4. UNCHANGED <<created, bound, messages, alarms, crash, system>>
    BY <1>3 DEF Tap, FromOutside, screenVars
  <2> QED BY <1>1, <2>1, <2>2, <2>3, <2>4, ConnectStep
<1>4. ASSUME Command PROVE Requested \/ Dies
  <2>1. bound # 0 /\ bound \in Services /\ bound \in 1 .. created
    BY <1>1, <1>4, ServiceTypes DEF Command
  <2> DEFINE new == UpdateLights(service[bound], Screen)
  <2>2. /\ new.handler = service[bound].handler /\ new.listener = service[bound].listener
        /\ new.bridge = service[bound].bridge /\ new.running # None
        /\ service[bound].running # None => service[bound].bridge # NoBridge
        /\ service[bound].running = None => new.running = Screen
    <3>1. service[bound] \in LightServices /\ Screen \in Clients /\ Screen # None
      BY <2>1, Bounds, ServiceTypes DEF Screen, Clients, None
    <3> QED BY <2>1, <3>1, Requesting DEF Handlers
  <2>3. \/ crash' = "lights" /\ UNCHANGED <<sdk, service, created, bound, system, messages, cut>>
        \/ /\ ~(new.running = Screen /\ new.bridge = NoBridge)
           /\ service' = [service EXCEPT ![bound] = new]
           /\ UNCHANGED <<sdk, created, bound, system, messages, cut, crash>>
    BY <1>4 DEF Command, Crash, serviceVars, screenVars, auxVars
  <2>4. alarms' = alarms
    BY <1>4 DEF Command, FromOutside
  <2> HIDE DEF new
  <2>5. CASE service' = [service EXCEPT ![bound] = new]
    <3>1. service'[bound] = new /\ Only(bound)
      BY <2>1, <2>5, ServiceTypes DEF Only
    <3>2. CASE ~(new.running = Screen /\ new.bridge = NoBridge)
               /\ UNCHANGED <<sdk, created, bound, system, messages, cut, crash>>
      BY <2>1, <2>2, <2>4, <3>1, <3>2 DEF Requested
    <3> QED BY <2>3, <2>4, <3>2 DEF Dies
  <2> QED BY <2>3, <2>4, <2>5 DEF Dies
<1>5. ASSUME Stop PROVE Letting \/ Dies
  <2>1. alarms' = alarms
    BY <1>5 DEF Stop, FromOutside
  <2>2. CASE Crash("unbound")
    BY <2>1, <2>2 DEF Crash, Dies, serviceVars, screenVars, auxVars
  <2>3. CASE ~Crash("unbound")
    <3>1. /\ sdk' = Disconnected(bound)
          /\ cut' = IF sdk.selected \in sdk.bridges THEN "stop" ELSE cut
          /\ UNCHANGED <<service, created, bound, system, messages, crash>>
      BY <1>5, <2>3 DEF Stop, serviceVars
    <3>2. sdk.selected = sdk.made
      BY DEF Bridges
    <3>3. Unplug
      BY <3>1, <3>2, Disconnecting DEF Unplug, Listening
    <3> QED BY <2>1, <3>1, <3>3 DEF Letting
  <2> QED BY <2>2, <2>3
<1>6. ASSUME CreateView PROVE Looking \/ Dies
  <2>1. alarms' = alarms
    BY <1>6 DEF CreateView, countVars
  <2>2. CASE Crash("unbound")
    BY <2>1, <2>2 DEF Crash, Dies, serviceVars, screenVars, auxVars
  <2>3. CASE ~Crash("unbound")
    <3>1. /\ system.service
          /\ \/ system' = [system EXCEPT !.screen = "shown", !.tab = FirstTab(system.status)]
             \/ system' = [system EXCEPT !.screen = "shown"]
          /\ UNCHANGED <<sdk, service, created, bound, messages, cut, crash>>
      BY <1>1, <1>6, <2>3 DEF CreateView, ScreenMoved, serviceVars, auxVars
    <3>2. system'.status = system.status /\ system'.service = system.service
      BY <1>1, <3>1 DEF Systems
    <3> QED BY <2>1, <3>1, <3>2 DEF Looking
  <2> QED BY <2>2, <2>3
<1>7. ASSUME Restart PROVE Looking
  BY <1>1, <1>7 DEF Restart, Looking, serviceVars, auxVars, countVars
<1>8. ASSUME Leave PROVE Looking
  <2>1. /\ system.screen = "shown" /\ system' = [system EXCEPT !.screen = "left"]
        /\ UNCHANGED <<sdk, service, created, bound, messages, alarms, cut, crash>>
    BY <1>8 DEF Leave, ScreenMoved, serviceVars, auxVars, countVars
  <2>2. system'.status = system.status /\ system'.service = system.service
    BY <1>1, <2>1 DEF Systems
  <2> QED BY <1>1, <2>1, <2>2 DEF Looking
<1>9. ASSUME NEW tab \in Tabs, SelectTab(tab) PROVE Looking
  <2>1. /\ system' = [system EXCEPT !.tab = tab]
        /\ UNCHANGED <<sdk, service, created, bound, messages, alarms, cut, crash>>
    BY <1>9 DEF SelectTab, ScreenMoved, serviceVars, auxVars, countVars
  <2>2. /\ system'.status = system.status /\ system'.service = system.service
        /\ system'.screen = system.screen
    BY <1>1, <2>1 DEF Systems
  <2> QED BY <1>1, <2>1, <2>2 DEF Looking
<1>10. ASSUME Restore PROVE Dies
  BY <1>10 DEF Restore, Crash, Dies, serviceVars, screenVars, auxVars, countVars
<1> QED BY <1>2, <1>3, <1>4, <1>5, <1>6, <1>7, <1>8, <1>9, <1>10

(* An alarm starts its service. *)
LEMMA StartSteps ==
    ASSUME TypeOK, Created, Handlers, OnStartCommand
    PROVE  Dies \/ Requested \/ \E s \in Services : Summoning(s)
<1> DEFINE s == IF bound # 0 THEN bound ELSE created + 1
           r == IF bound # 0 THEN service[s] ELSE NewService
           alarm == alarms + 1
           connected == r.server /\ sdk.bridges # {}
<1>1. alarms' = alarm /\ alarms < MaxAlarms /\ alarm > Screen /\ alarm \in Clients
      /\ alarm # None
  BY Bounds, ServiceTypes DEF OnStartCommand, Screen, Clients, None
<1>2. s \in Services /\ r \in LightServices
  BY Room, ServiceTypes, Fresh
<1>3. r.bridge = service[s].bridge /\ r.running = service[s].running
      /\ (bound # 0 => r = service[s]) /\ (bound = 0 => r.bridge = NoBridge)
  <2>1. CASE bound = 0
    <3>1. s = created + 1 /\ s > created /\ r = NewService
      BY <2>1, ServiceTypes
    <3>2. service[s].bridge = NoBridge /\ service[s].running = None
      BY <1>2, <3>1 DEF Created
    <3> QED BY <2>1, <3>1, <3>2, Fresh
  <2>2. CASE bound # 0
    BY <2>2
  <2> QED BY <2>1, <2>2
<1>4. \/ Crash("lights")
      \/ /\ connected /\ r.bridge # NoBridge
         /\ created' = IF bound # 0 THEN created ELSE s
         /\ service' = [service EXCEPT ![s] = UpdateLights(r, alarm)]
         /\ UNCHANGED <<sdk, bound, system, cut, messages, crash>>
      \/ /\ ~connected
         /\ created' = IF bound # 0 THEN created ELSE s
         /\ service' = [service EXCEPT ![s] = [r EXCEPT !.handler = alarm]]
         /\ sdk' = Registered(IF r.server THEN [sdk EXCEPT !.threads = @ + 1]
                              ELSE [sdk EXCEPT !.blank = @ + 1], s)
         /\ UNCHANGED <<bound, system, cut, messages, crash>>
  BY DEF OnStartCommand, screenVars
<1> HIDE DEF s, r, alarm, connected
<1>5. CASE Crash("lights")
  <2>1. /\ crash' = "lights"
        /\ UNCHANGED <<sdk, service, created, bound, system, messages, cut>>
    BY <1>5 DEF Crash, serviceVars, screenVars, auxVars
  <2>2. alarms' \in {alarms, alarms + 1}
    BY <1>1 DEF alarm
  <2>3. Dies
    BY <2>1, <2>2 DEF Dies
  <2> QED BY <2>3
<1>6. CASE /\ r.bridge # NoBridge
           /\ created' = IF bound # 0 THEN created ELSE s
           /\ service' = [service EXCEPT ![s] = UpdateLights(r, alarm)]
           /\ UNCHANGED <<sdk, bound, system, cut, messages, crash>>
  <2>1. bound # 0 /\ s = bound /\ r = service[bound]
    BY <1>3, <1>6 DEF s
  <2>2. bound \in 1 .. created /\ bound \in Services /\ DOMAIN service = Services
    BY <2>1, ServiceTypes
  <2> DEFINE u == UpdateLights(r, alarm)
  <2>3. /\ u.handler = r.handler /\ u.listener = r.listener /\ u.bridge = r.bridge
        /\ u.running # None
    <3>1. alarm # None => u.running # None
      BY <1>1, <1>2, Requesting
    <3> QED BY <1>1, <1>2, <3>1, Requesting
  <2>4. service' = [service EXCEPT ![bound] = u]
    BY <1>6, <2>1
  <2> HIDE DEF u
  <2>5. service'[bound] = u /\ Only(bound)
    BY <2>2, <2>4 DEF Only
  <2>6. alarms' \in {alarms, alarms + 1}
    BY <1>1 DEF alarm
  <2>7. Requested
    BY <1>6, <2>1, <2>2, <2>3, <2>5, <2>6 DEF Requested
  <2> QED BY <2>7
<1>7. CASE /\ created' = IF bound # 0 THEN created ELSE s
           /\ service' = [service EXCEPT ![s] = [r EXCEPT !.handler = alarm]]
           /\ sdk' = Registered(IF r.server THEN [sdk EXCEPT !.threads = @ + 1]
                                ELSE [sdk EXCEPT !.blank = @ + 1], s)
           /\ UNCHANGED <<bound, system, cut, messages, crash>>
  <2> DEFINE u == [r EXCEPT !.handler = alarm]
  <2>1. /\ u.handler = alarm /\ u.listener = r.listener /\ u.bridge = r.bridge
        /\ u.running = r.running
    BY <1>2 DEF LightServices
  <2>2. service' = [service EXCEPT ![s] = u]
    BY <1>7
  <2> HIDE DEF u
  <2>3. service'[s] = u /\ Only(s)
    BY <1>2, <2>2, ServiceTypes DEF Only
  <2>4. SameBridges /\ sdk'.listeners = Append(sdk.listeners, s)
    <3>1. sdk \in SDKs
      BY DEF TypeOK
    <3> QED BY <1>7, <3>1 DEF SameBridges, Registered, SDKs
  <2>5. Listening' = Listening \cup {s}
    <3>1. ToSet(Append(sdk.listeners, s)) = ToSet(sdk.listeners) \cup {s}
      <4>1. sdk.listeners \in Seq(Services) /\ <<s>> \in Seq(Services)
        BY <1>2, Listeners
      <4>2. Append(sdk.listeners, s) = sdk.listeners \o <<s>>
        BY <4>1
      <4>3. Range(sdk.listeners \o <<s>>) = Range(sdk.listeners) \cup Range(<<s>>)
        BY <4>1, RangeOfConcat, ZenonT(30)
      <4>4. Range(<<s>>) = {s}
        BY RangeOfFew
      <4>5. \A l : Range(l) = ToSet(l)
        BY DEF Range, ToSet
      <4> QED BY <4>2, <4>3, <4>4, <4>5
    <3> QED BY <2>4, <3>1 DEF Listening
  <2>6. s = IF bound # 0 THEN bound ELSE created + 1
    BY DEF s
  <2>7. alarms' = alarms + 1 /\ service'[s].handler > Screen
    BY <1>1, <2>1, <2>3 DEF alarm
  <2>8. Summoning(s)
    BY <1>2, <1>3, <1>7, <2>1, <2>3, <2>4, <2>5, <2>6, <2>7 DEF Summoning
  <2> QED BY <1>2, <2>8
<1> QED BY <1>4, <1>5, <1>6, <1>7

(* The oldest message is one. *)
LEMMA FirstIs ==
    ASSUME TypeOK, messages # << >>
    PROVE  /\ messages \in Seq(Posts) /\ First \in Posts
           /\ First.service \in 1 .. created /\ First.service \in Services
<1>1. messages \in Seq(Posts) /\ \A m \in ToSet(messages) : m.service \in 1 .. created
  BY DEF TypeOK
<1>2. First \in Posts /\ First \in ToSet(messages)
  BY <1>1 DEF First, ToSet
<1> QED BY <1>1, <1>2, ServiceTypes

(* The handlers of messages. *)
LEMMA HandleSteps ==
    ASSUME TypeOK, Bridges, Handle
    PROVE  Dies \/ Telling \/ Alarmed \/ Finishing
<1>1. messages # << >> /\ Alive
  BY DEF Handle, HandleScreen, HandleAlarm, HandleDone
<1>2. /\ messages \in Seq(Posts) /\ First \in Posts
      /\ First.service \in 1 .. created /\ First.service \in Services
  BY <1>1, FirstIs
<1> DEFINE s == First.service
<1>3. service[s] \in LightServices /\ DOMAIN service = Services
  BY <1>2, ServiceTypes
<1>4. CASE HandleScreen
  <2>1. UNCHANGED alarms /\ First.to = Screen /\ First.what # "done"
    BY <1>4 DEF HandleScreen, countVars
  <2>2. CASE Crash("left")
    <3>1. Dies
      BY <2>1, <2>2 DEF Crash, Dies, serviceVars, screenVars, auxVars
    <3> QED BY <3>1
  <2>3. CASE ~Crash("left")
    <3>1. /\ messages' = Tail(messages)
          /\ system' = Told(system, First.what)
          /\ UNCHANGED <<sdk, service, created, bound, cut, crash>>
      BY <1>4, <2>3 DEF HandleScreen, serviceVars, auxVars
    <3>2. /\ system'.status = StatusOf(First.what)
          /\ system'.service = system.service /\ system'.screen = system.screen
      BY <3>1 DEF TypeOK, Systems, Told
    <3>3. Taking
      BY <1>1, <1>2, <2>1, <3>1 DEF Taking
    <3>4. Telling
      BY <2>1, <3>1, <3>2, <3>3 DEF Telling
    <3> QED BY <3>4
  <2> QED BY <2>2, <2>3
<1>5. CASE HandleAlarm
  <2>1. UNCHANGED alarms /\ First.to > Screen /\ First.what # "done"
    BY <1>5 DEF HandleAlarm, countVars
  <2>2. CASE Crash("lights")
    <3>1. Dies
      BY <2>1, <2>2 DEF Crash, Dies, serviceVars, screenVars, auxVars
    <3> QED BY <3>1
  <2>3. CASE ~Crash("lights")
    <3>1. /\ ~(First.what = "none" /\ service[s].bridge = NoBridge)
          /\ messages' = Tail(messages)
          /\ service' = IF First.what # "none" THEN service
                        ELSE [service EXCEPT ![s] = AlarmHeard(@, First.to)]
          /\ UNCHANGED <<sdk, created, bound, system, cut, crash>>
      BY <1>5, <2>3 DEF HandleAlarm, screenVars
    <3>2. Taking
      BY <1>1, <1>2, <2>1, <3>1 DEF Taking
    <3>3. CASE First.what # "none"
      <4>1. Alarmed
        BY <2>1, <3>1, <3>2, <3>3 DEF Alarmed
      <4> QED BY <4>1
    <3>4. CASE First.what = "none"
      <4> DEFINE r == [service[s] EXCEPT !.listener = "disconnect"]
                 u == UpdateLights(r, First.to)
      <4>1. /\ r \in LightServices /\ r.listener = "disconnect"
            /\ r.handler = service[s].handler /\ r.bridge = service[s].bridge
        BY <1>3 DEF LightServices
      <4>2. First.to \in Clients /\ First.to # None
        BY <1>2, <2>1 DEF Posts, Clients, Screen, None
      <4> HIDE DEF r
      <4>3. /\ u.handler = service[s].handler /\ u.listener = "disconnect"
            /\ u.bridge = service[s].bridge /\ u.running # None
        <5>1. First.to # None => u.running # None
          BY <4>1, <4>2, Requesting
        <5> QED BY <4>1, <4>2, <5>1, Requesting
      <4>4. service' = [service EXCEPT ![s] = u]
        BY <3>1, <3>4 DEF AlarmHeard, r
      <4> HIDE DEF u
      <4>5. service'[s] = u /\ Only(s)
        BY <1>2, <1>3, <4>4 DEF Only
      <4>6. Alarmed
        BY <2>1, <3>1, <3>2, <3>4, <4>3, <4>5 DEF Alarmed
      <4> QED BY <4>6
    <3> QED BY <3>3, <3>4
  <2> QED BY <2>2, <2>3
<1>6. CASE HandleDone
  <2>1. UNCHANGED alarms /\ First.what = "done"
    BY <1>6 DEF HandleDone, countVars
  <2>2. CASE Crash("listener")
    <3>1. Dies
      BY <2>1, <2>2 DEF Crash, Dies, serviceVars, screenVars, auxVars
    <3> QED BY <3>1
  <2>3. CASE ~Crash("listener")
    <3> DEFINE u == DoRequest([service[s] EXCEPT !.running = None])
    <3>1. /\ u.listener # "none"
          /\ messages' = Tail(messages)
          /\ service' = [service EXCEPT ![s] = u]
          /\ \/ u.listener = "screen" /\ UNCHANGED <<sdk, cut>>
             \/ /\ u.listener = "disconnect"
                /\ sdk' = Disconnected(s)
                /\ cut' = IF sdk.selected \in sdk.bridges THEN "alarm" ELSE cut
          /\ UNCHANGED <<created, bound, system, crash>>
      BY <1>6, <2>3 DEF HandleDone, screenVars
    <3>2. /\ u.handler = service[s].handler /\ u.listener = service[s].listener
          /\ u.bridge = service[s].bridge
      BY <1>3, RequestingNext
    <3> HIDE DEF u
    <3>3. service'[s] = u /\ Only(s)
      BY <1>2, <1>3, <3>1 DEF Only
    <3>4. Taking
      BY <1>1, <1>2, <2>1, <3>1 DEF Taking
    <3>5. IF service[s].listener = "screen" THEN UNCHANGED <<sdk, cut>> ELSE Unplug
      <4>1. CASE u.listener = "screen" /\ UNCHANGED <<sdk, cut>>
        BY <3>2, <4>1
      <4>2. CASE /\ u.listener = "disconnect"
                 /\ sdk' = Disconnected(s)
                 /\ cut' = IF sdk.selected \in sdk.bridges THEN "alarm" ELSE cut
        <5>1. sdk.selected = sdk.made
          BY DEF Bridges
        <5>2. Unplug
          BY <4>2, <5>1, Disconnecting DEF Unplug, Listening
        <5> QED BY <3>2, <4>2, <5>2
      <4> QED BY <3>1, <4>1, <4>2
    <3>6. Finishing
      BY <2>1, <3>1, <3>2, <3>3, <3>4, <3>5 DEF Finishing
    <3> QED BY <3>6
  <2> QED BY <2>2, <2>3
<1> QED BY <1>4, <1>5, <1>6 DEF Handle

(* A message of one kind is in the list of errors. *)
LEMMA Kinds == {"none", "network", "notify"} \subseteq Errors /\ "done" \notin Errors
BY DEF Errors

(* An error is posted, whatever the SDK counts besides. *)
LEMMA FailStep ==
    ASSUME TypeOK, NEW k \in SDKs, Fail(k),
           k.bridges = sdk.bridges, k.beating = sdk.beating, k.lost = sdk.lost,
           k.made = sdk.made, k.listeners = sdk.listeners
    PROVE  Mentioning
<1>1. PICK t : Notified(t, "network") /\ Heard("network") = messages \o t
  BY Hearing, Kinds
<1>2. /\ sdk' = k /\ messages' = Heard("network")
      /\ UNCHANGED <<service, created, bound, system, cut, crash, alarms>>
  BY DEF Fail, serviceVars, screenVars, auxVars, countVars
<1>3. SameBridges /\ Listening' = Listening
  BY <1>2 DEF SameBridges, Listening
<1>4. Posting(t, "network")
  BY <1>1, <1>2, <1>3 DEF Posting
<1> QED BY <1>2, <1>3, <1>4 DEF Mentioning

(* A thread of connect ends. *)
LEMMA ConnectEndStep ==
    ASSUME TypeOK, ConnectEnds
    PROVE  Arriving \/ Mentioning
<1>1. sdk \in SDKs /\ sdk.threads > 0
  BY DEF TypeOK, ConnectEnds
<1>2. CASE sdk.bridges = {} /\ OnBridgeConnected
  <2>1. PICK t : Notified(t, "none") /\ Everyone(t) /\ Heard("none") = messages \o t
    BY Hearing, Kinds
  <2> DEFINE b == sdk.made + 1
  <2>2. /\ sdk' = [sdk EXCEPT !.threads = @ - 1, !.made = b, !.bridges = {b},
                              !.selected = b,
                              !.beating = IF sdk.listeners = << >> THEN @ ELSE @ \cup {b}]
        /\ service' = [s \in Services |->
                          IF s \in Listening
                          THEN [service[s] EXCEPT !.bridge = b, !.connected = TRUE,
                                                  !.server = @ \/ service[s].find]
                          ELSE service[s]]
        /\ messages' = Heard("none") /\ cut' = "none"
        /\ UNCHANGED <<created, bound, system, crash, alarms>>
    BY <1>2 DEF OnBridgeConnected, screenVars, countVars
  <2>3. /\ sdk'.made = b /\ sdk'.bridges = {b} /\ sdk'.lost = sdk.lost
        /\ sdk'.listeners = sdk.listeners
        /\ sdk'.beating \in {sdk.beating, sdk.beating \cup {b}}
    BY <1>1, <2>2 DEF SDKs
  <2>4. \A s \in Services :
           /\ service'[s].handler = service[s].handler
           /\ service'[s].listener = service[s].listener
           /\ service'[s].running = service[s].running
           /\ service'[s].bridge = IF s \in Listening THEN b ELSE service[s].bridge
    <3>1. ASSUME NEW s \in Services
          PROVE  /\ service'[s].handler = service[s].handler
                 /\ service'[s].listener = service[s].listener
                 /\ service'[s].running = service[s].running
                 /\ service'[s].bridge = IF s \in Listening THEN b ELSE service[s].bridge
      <4>1. service[s] \in LightServices
        BY ServiceTypes
      <4>2. service'[s] = IF s \in Listening
                          THEN [service[s] EXCEPT !.bridge = b, !.connected = TRUE,
                                                  !.server = @ \/ service[s].find]
                          ELSE service[s]
        BY <2>2
      <4> HIDE DEF b
      <4> QED BY <4>1, <4>2 DEF LightServices
    <3> QED BY <3>1
  <2>5. Posting(t, "none")
    BY <2>1, <2>2, <2>3 DEF Posting, Listening
  <2>6. Arriving
    BY <1>1, <1>2, <2>1, <2>2, <2>3, <2>4, <2>5 DEF Arriving
  <2> QED BY <2>6
<1>3. CASE OnAuthenticationRequired
  <2>1. PICK t : Notified(t, "notify") /\ Heard("notify") = messages \o t
    BY Hearing, Kinds
  <2>2. /\ sdk' = [sdk EXCEPT !.threads = @ - 1, !.pushlink = @ \/ sdk.listeners # << >>]
        /\ messages' = Heard("notify")
        /\ UNCHANGED <<service, created, bound, system, cut, crash, alarms>>
    BY <1>3 DEF OnAuthenticationRequired, FromOutside, serviceVars, screenVars, auxVars
  <2>3. SameBridges /\ sdk'.listeners = sdk.listeners
    BY <1>1, <2>2 DEF SameBridges, SDKs
  <2>4. Posting(t, "notify")
    BY <2>1, <2>2, <2>3 DEF Posting, Listening
  <2>5. Mentioning
    BY <2>2, <2>3, <2>4 DEF Mentioning
  <2> QED BY <2>5
<1>4. CASE Fail([sdk EXCEPT !.threads = @ - 1])
  <2> DEFINE k == [sdk EXCEPT !.threads = @ - 1]
  <2>1. /\ k \in SDKs /\ k.bridges = sdk.bridges /\ k.beating = sdk.beating
        /\ k.lost = sdk.lost /\ k.made = sdk.made /\ k.listeners = sdk.listeners
    BY <1>1 DEF SDKs
  <2> HIDE DEF k
  <2>2. Fail(k)
    BY <1>4 DEF k
  <2> QED BY <2>1, <2>2, FailStep
<1> QED BY <1>2, <1>3, <1>4 DEF ConnectEnds

(* No one is told. *)
LEMMA Silence == Notified(<< >>, "network")
BY DEF Notified

(* The other threads end. *)
LEMMA ThreadSteps ==
    ASSUME TypeOK, Bridges
    PROVE  /\ BlankEnds \/ PushlinkEnds => Mentioning
           /\ SearchEnds => Mentioning \/ Letting \/ Dies
<1>1. sdk \in SDKs /\ messages \in Seq(Posts)
  BY DEF TypeOK
<1>2. ASSUME BlankEnds PROVE Mentioning
  <2> DEFINE k == [sdk EXCEPT !.blank = @ - 1]
  <2>0. sdk.blank > 0 /\ Fail(k)
    BY <1>2 DEF BlankEnds
  <2>1. /\ k \in SDKs /\ k.bridges = sdk.bridges /\ k.beating = sdk.beating
        /\ k.lost = sdk.lost /\ k.made = sdk.made /\ k.listeners = sdk.listeners
    BY <1>1, <2>0, SMTT(20) DEF SDKs
  <2> HIDE DEF k
  <2> QED BY <2>0, <2>1, FailStep
<1>3. ASSUME PushlinkEnds PROVE Mentioning
  <2>1. CASE Fail([sdk EXCEPT !.pushlink = FALSE])
    <3> DEFINE k == [sdk EXCEPT !.pushlink = FALSE]
    <3>1. /\ k \in SDKs /\ k.bridges = sdk.bridges /\ k.beating = sdk.beating
          /\ k.lost = sdk.lost /\ k.made = sdk.made /\ k.listeners = sdk.listeners
      BY <1>1 DEF SDKs
    <3> HIDE DEF k
    <3>2. Fail(k)
      BY <2>1 DEF k
    <3> QED BY <3>1, <3>2, FailStep
  <2>2. CASE ~Fail([sdk EXCEPT !.pushlink = FALSE])
    <3>1. /\ sdk' = [sdk EXCEPT !.pushlink = FALSE, !.threads = @ + 1]
          /\ UNCHANGED <<service, created, bound, system, cut, messages, crash, alarms>>
      BY <1>3, <2>2 DEF PushlinkEnds, serviceVars, screenVars, auxVars, countVars
    <3>2. SameBridges /\ sdk'.listeners = sdk.listeners
      BY <1>1, <3>1 DEF SameBridges, SDKs
    <3>3. messages' = messages \o << >>
      BY <1>1, <3>1
    <3>4. Posting(<< >>, "network")
      BY <3>1, <3>2, <3>3, Silence DEF Posting, Listening
    <3>5. Mentioning
      BY <3>1, <3>2, <3>4 DEF Mentioning
    <3> QED BY <3>5
  <2> QED BY <2>1, <2>2
<1>4. ASSUME SearchEnds PROVE Mentioning \/ Letting \/ Dies
  <2>1. sdk.searches > 0
    BY <1>4 DEF SearchEnds
  <2>2. CASE Fail([sdk EXCEPT !.searches = @ - 1])
    <3> DEFINE k == [sdk EXCEPT !.searches = @ - 1]
    <3>0. sdk.searches - 1 \in Nat
      BY <1>1, <2>1 DEF SDKs
    <3>1. /\ k \in SDKs /\ k.bridges = sdk.bridges /\ k.beating = sdk.beating
          /\ k.lost = sdk.lost /\ k.made = sdk.made /\ k.listeners = sdk.listeners
      BY <1>1, <3>0 DEF SDKs
    <3> HIDE DEF k
    <3>2. Fail(k)
      BY <2>2 DEF k
    <3> QED BY <3>1, <3>2, FailStep
  <2>3. CASE OnAccessPointsFound
    <3> DEFINE k == IF sdk.selected = NoBridge \/ sdk.listeners = << >> THEN sdk
                    ELSE Unplugged(sdk)
    <3>1. CASE Crash("connected") /\ UNCHANGED countVars
      <4>1. Dies
        BY <3>1 DEF Crash, Dies, serviceVars, screenVars, auxVars, countVars
      <4> QED BY <4>1
    <3>2. CASE ~(Crash("connected") /\ UNCHANGED countVars)
      <4>1. /\ sdk' = [k EXCEPT !.searches = @ - 1, !.threads = @ + Len(k.listeners)]
            /\ cut' = IF k.bridges # sdk.bridges THEN "search" ELSE cut
            /\ UNCHANGED <<service, created, bound, system, messages, crash, alarms>>
        BY <2>3, <3>2 DEF OnAccessPointsFound, serviceVars, screenVars, countVars
      <4>2. k \in SDKs
        BY <1>1, Unplugging
      <4> HIDE DEF k
      <4>3. /\ sdk'.bridges = k.bridges /\ sdk'.beating = k.beating /\ sdk'.lost = k.lost
            /\ sdk'.made = k.made /\ sdk'.listeners = k.listeners
        BY <4>1, <4>2 DEF SDKs
      <4>4. CASE k = sdk
        <5>1. SameBridges /\ Listening' = Listening /\ cut' = cut
          BY <4>1, <4>3, <4>4 DEF SameBridges, Listening
        <5>2. Letting
          BY <4>1, <5>1 DEF Letting
        <5> QED BY <5>2
      <4>5. CASE k = Unplugged(sdk)
        <5>1. k = [sdk EXCEPT !.bridges = @ \ {sdk.made}, !.beating = @ \ {sdk.made},
                              !.lost = @ \ {sdk.made}]
          BY <4>5, Unplugging
        <5>2. /\ k.bridges = sdk.bridges \ {sdk.made} /\ k.beating = sdk.beating \ {sdk.made}
              /\ k.lost = sdk.lost \ {sdk.made} /\ k.made = sdk.made
              /\ k.listeners = sdk.listeners
          BY <1>1, <5>1 DEF SDKs
        <5>3. Listening' = Listening
          BY <4>3, <5>2 DEF Listening
        <5>4. cut' # "none" \/ (cut' = cut /\ sdk'.bridges = sdk.bridges)
          BY <4>1, <4>3
        <5>5. Unplug
          BY <4>3, <5>2, <5>3, <5>4 DEF Unplug
        <5>6. Letting
          BY <4>1, <5>5 DEF Letting
        <5> QED BY <5>6
      <4> QED BY <4>4, <4>5 DEF k
    <3> QED BY <3>1, <3>2
  <2> QED BY <1>4, <2>2, <2>3 DEF SearchEnds
<1> QED BY <1>2, <1>3, <1>4

(* The heartbeat. *)
LEMMA HeartbeatSteps ==
    ASSUME TypeOK, Bridges, NEW b \in sdk.beating, Heartbeat(b)
    PROVE  Losing \/ Resuming \/ Mentioning
<1>1. sdk \in SDKs
  BY DEF TypeOK
<1>2. CASE OnConnectionLost(b)
  <2>1. PICK t : Notified(t, "network") /\ Everyone(t) /\ Heard("network") = messages \o t
    BY Hearing, Kinds
  <2>2. /\ sdk' = [sdk EXCEPT !.bridges = @ \ {b}, !.lost = @ \cup {b}]
        /\ service' = [s \in Services |->
                          IF s \in Listening THEN [service[s] EXCEPT !.connected = FALSE]
                          ELSE service[s]]
        /\ messages' = Heard("network")
        /\ cut' = IF b \in sdk.bridges /\ ~ScreenListens THEN "deaf" ELSE cut
        /\ UNCHANGED <<created, bound, system, crash, alarms>>
    BY <1>2 DEF OnConnectionLost, LossHeard, FromOutside, screenVars
  <2>3. /\ sdk'.bridges = sdk.bridges \ {b} /\ sdk'.lost = sdk.lost \cup {b}
        /\ sdk'.beating = sdk.beating /\ sdk'.made = sdk.made
        /\ sdk'.listeners = sdk.listeners
    BY <1>1, <2>2 DEF SDKs
  <2>4. \A s \in Services : Keeps(s)
    <3>1. ASSUME NEW s \in Services PROVE Keeps(s)
      <4>1. service[s] \in LightServices
        BY ServiceTypes
      <4> QED BY <2>2, <4>1 DEF Keeps, LightServices
    <3> QED BY <3>1
  <2>5. Posting(t, "network")
    BY <2>1, <2>2, <2>3 DEF Posting, Listening
  <2>6. Losing
    BY <2>1, <2>2, <2>3, <2>4, <2>5 DEF Losing
  <2> QED BY <2>6
<1>3. CASE OnConnectionResumed(b)
  <2> DEFINE deaf == {s \in Listening : ~service[s].connected}
             first == {i \in DOMAIN sdk.listeners :
                         /\ sdk.listeners[i] \in deaf
                         /\ \A j \in 1 .. i - 1 : sdk.listeners[j] # sdk.listeners[i]}
  <2>1. /\ sdk' = [sdk EXCEPT !.bridges = @ \cup {b}, !.lost = @ \ {b}]
        /\ service' = [s \in Services |->
                          IF s \in deaf THEN [service[s] EXCEPT !.connected = TRUE]
                          ELSE service[s]]
        /\ messages' \in HeardAt(first, "none")
        /\ cut' = "none"
        /\ UNCHANGED <<created, bound, system, crash, alarms>>
    BY <1>3 DEF OnConnectionResumed, screenVars, countVars
  <2>2. first \subseteq DOMAIN sdk.listeners
    OBVIOUS
  <2> HIDE DEF first, deaf
  <2>3. PICK t : Notified(t, "none") /\ messages' = messages \o t
    BY <2>1, <2>2, HearingSome, Kinds
  <2>4. /\ sdk'.bridges = sdk.bridges \cup {b} /\ sdk'.lost = sdk.lost \ {b}
        /\ sdk'.beating = sdk.beating /\ sdk'.made = sdk.made
        /\ sdk'.listeners = sdk.listeners
    BY <1>1, <2>1 DEF SDKs
  <2>5. \A s \in Services : Keeps(s)
    <3>1. ASSUME NEW s \in Services PROVE Keeps(s)
      <4>1. service[s] \in LightServices
        BY ServiceTypes
      <4> QED BY <2>1, <4>1 DEF Keeps, LightServices
    <3> QED BY <3>1
  <2>6. Posting(t, "none")
    BY <2>1, <2>3, <2>4 DEF Posting, Listening
  <2>7. Resuming
    BY <2>1, <2>4, <2>5, <2>6 DEF Resuming
  <2> QED BY <2>7
<1>4. CASE OnCacheUpdated(b)
  <2> DEFINE idle == {i \in DOMAIN sdk.listeners : service[sdk.listeners[i]].running = None}
  <2>1. /\ b \in sdk.beating \ sdk.lost
        /\ messages' \in HeardAt(idle, "none")
        /\ UNCHANGED <<sdk, service, created, bound, system, cut, crash, alarms>>
    BY <1>4 DEF OnCacheUpdated, FromOutside, serviceVars, screenVars, auxVars
  <2>2. idle \subseteq DOMAIN sdk.listeners
    OBVIOUS
  <2> HIDE DEF idle
  <2>3. PICK t : Notified(t, "none") /\ messages' = messages \o t
    BY <2>1, <2>2, HearingSome, Kinds
  <2>4. Posting(t, "none")
    BY <2>1, <2>3 DEF Posting, Listening
  <2>5. sdk.bridges # {} /\ sdk.made > 0
    <3>1. b \in sdk.bridges
      BY <2>1 DEF Bridges
    <3>2. b \in 1 .. sdk.made /\ sdk.made \in Nat
      BY <1>1, <3>1 DEF TypeOK, SDKs
    <3> QED BY <3>1, <3>2
  <2>6. SameBridges
    BY <2>1 DEF SameBridges
  <2>7. Mentioning
    BY <2>1, <2>4, <2>5, <2>6 DEF Mentioning
  <2> QED BY <2>7
<1> QED BY <1>2, <1>3, <1>4 DEF Heartbeat

(* The bridge answers. *)
LEMMA DoneStep ==
    ASSUME TypeOK, NEW s \in Services, RequestDone(s)
    PROVE  Answering(s)
<1> DEFINE e == [to |-> None, service |-> s, what |-> "done"]
<1>1. /\ service[s].running # None
      /\ \A m \in ToSet(messages) : ~(m.what = "done" /\ m.service = s)
      /\ messages' = Append(messages, e)
      /\ UNCHANGED <<sdk, service, created, bound, system, alarms, cut, crash>>
  BY DEF RequestDone, serviceVars, screenVars, auxVars, countVars
<1>2. e \in Done(s)
  BY Bounds DEF Done, Posts, Clients, None
<1>3. e.to = None
  OBVIOUS
<1> HIDE DEF e
<1>4. ~Occurs(messages, Done(s))
  <2>1. messages \in Seq(Posts)
    BY DEF TypeOK
  <2> QED BY <1>1, <2>1 DEF Occurs, Done, ToSet
<1> QED BY <1>1, <1>2, <1>3, <1>4 DEF Answering

(* Every step is one of these, and none is taken after a crash. *)
LEMMA Steps ==
    ASSUME TypeOK, Bridges, Created, Handlers, Next
    PROVE  Step /\ Alive
<1>1. Alive
  BY DEF Next, Open, ServiceConnected, CreateView, Leave, SelectTab, Tap, Command, Stop,
         Restart, Restore, OnStartCommand, Handle, HandleScreen, HandleAlarm, HandleDone, ConnectEnds,
         BlankEnds, PushlinkEnds, SearchEnds, Heartbeat, OnConnectionLost,
         OnConnectionResumed, OnCacheUpdated, RequestDone
<1>2. CASE Open
  BY <1>1, <1>2, OpenStep DEF Step
<1>3. CASE \/ ServiceConnected \/ CreateView \/ Leave \/ \E tab \in Tabs : SelectTab(tab)
           \/ Tap \/ Command \/ Stop \/ Restart \/ Restore
  BY <1>1, <1>3, ActivitySteps DEF Step
<1>4. CASE OnStartCommand
  BY <1>1, <1>4, StartSteps DEF Step
<1>5. CASE Handle
  BY <1>1, <1>5, HandleSteps DEF Step
<1>6. CASE ConnectEnds
  BY <1>1, <1>6, ConnectEndStep DEF Step
<1>7. CASE BlankEnds \/ PushlinkEnds \/ SearchEnds
  BY <1>1, <1>7, ThreadSteps DEF Step
<1>8. CASE \E b \in sdk.beating : Heartbeat(b)
  BY <1>1, <1>8, HeartbeatSteps DEF Step
<1>9. CASE \E s \in Services : RequestDone(s)
  BY <1>1, <1>9, DoneStep DEF Step
<1> QED BY <1>1, <1>2, <1>3, <1>4, <1>5, <1>6, <1>7, <1>8, <1>9 DEF Next

(***************************************************************************)
(* Types.                                                                    *)
(***************************************************************************)
\* What a value of the SDK must be.
SdkOK(k) ==
    /\ k \in SDKs
    /\ k.selected = k.made
    /\ \/ k.made > 0
       \/ k.listeners # << >>
       \/ k.threads = 0 /\ k.blank = 0 /\ k.searches = 0 /\ ~k.pushlink

(* A disconnection keeps the SDK in order. *)
LEMMA DisconnectedOK ==
    ASSUME TypeOK, Bridges, NEW s
    PROVE  SdkOK(Disconnected(s))
<1>1. SdkOK(sdk)
  BY DEF SdkOK, TypeOK, Bridges, Heeded
<1>2. CASE sdk.made = 0
  <2>1. Disconnected(s) = sdk
    BY <1>2, Disconnecting
  <2> QED BY <1>1, <2>1
<1>3. CASE sdk.made # 0
  <2>1. sdk.made > 0
    BY <1>1, <1>3 DEF SdkOK, SDKs
  <2>2. /\ Disconnected(s) \in SDKs /\ Disconnected(s).made = sdk.made
        /\ Disconnected(s).selected = sdk.selected
    BY Disconnecting
  <2> QED BY <1>1, <2>1, <2>2 DEF SdkOK
<1> QED BY <1>2, <1>3

(* So does a request to connect. *)
LEMMA ConnectedOK ==
    ASSUME TypeOK, Bridges, NEW r \in LightServices, NEW s \in Services, Connect(r, s)
    PROVE  /\ SdkOK(sdk')
           /\ service' \in [Services -> LightServices]
           /\ silent' \in BOOLEAN /\ UNCHANGED <<asked, cut>>
<1>1. SdkOK(sdk) /\ sdk \in SDKs
  BY DEF SdkOK, TypeOK, Bridges, Heeded
<1>2. service' \in [Services -> LightServices]
  <2> DEFINE new == [r EXCEPT !.handler = Screen, !.find = ~r.server]
  <2>1. service' = [service EXCEPT ![s] = new]
    BY DEF Connect
  <2>2. new \in LightServices
    <3> DEFINE find == ~r.server
    <3>1. r.server \in BOOLEAN
      BY DEF LightServices
    <3>2. find \in BOOLEAN
      BY <3>1
    <3>3. new = [r EXCEPT !.handler = Screen, !.find = find]
      OBVIOUS
    <3>4. Screen \in Clients
      BY Bounds DEF Clients, Screen
    <3> HIDE DEF new, find
    <3> QED BY <3>2, <3>3, <3>4 DEF LightServices
  <2> HIDE DEF new
  <2> QED BY <2>1, <2>2 DEF TypeOK
<1>3. silent' \in BOOLEAN /\ UNCHANGED <<asked, cut>>
  <2>1. silent' = (silent \/ (r.server /\ sdk.bridges # {}))
    BY DEF Connect
  <2>2. UNCHANGED <<asked, cut>>
    BY DEF Connect
  <2> QED BY <2>1, <2>2
<1>4. CASE ~r.server
  <2> DEFINE l == RemoveFirst(sdk.listeners, s)
  <2>1. l \in Seq(Services)
    BY Listeners, RemoveFirstKeeps
  <2>2. sdk' = Registered([sdk EXCEPT !.listeners = l, !.searches = @ + 1], s)
    BY <1>4 DEF Connect
  <2> HIDE DEF l
  <2>3. Append(l, s) \in Seq(Services) /\ Append(l, s) # << >>
    BY <2>1
  <2>4. sdk' = [sdk EXCEPT !.listeners = Append(l, s), !.searches = @ + 1]
    BY <1>1, <2>2 DEF Registered, SDKs
  <2>5. SdkOK(sdk')
    <3>1. sdk.searches + 1 \in Nat
      BY <1>1 DEF SDKs
    <3>2. sdk' \in SDKs
      BY <1>1, <2>3, <2>4, <3>1 DEF SDKs
    <3>3. /\ sdk'.selected = sdk.selected /\ sdk'.made = sdk.made
          /\ sdk'.listeners = Append(l, s)
      BY <1>1, <2>4 DEF SDKs
    <3> QED BY <1>1, <2>3, <3>2, <3>3 DEF SdkOK
  <2> QED BY <1>2, <1>3, <2>5
<1>5. CASE r.server /\ sdk.bridges # {}
  <2>1. sdk' = sdk
    BY <1>5 DEF Connect
  <2> QED BY <1>1, <1>2, <1>3, <2>1
<1>6. CASE r.server /\ sdk.bridges = {}
  <2>1. sdk' = Registered([sdk EXCEPT !.threads = @ + 1], s)
    BY <1>6 DEF Connect
  <2> DEFINE l == Append(sdk.listeners, s)
  <2>2. l \in Seq(Services) /\ l # << >>
    BY Listeners
  <2>3. sdk' = [sdk EXCEPT !.listeners = l, !.threads = @ + 1]
    BY <1>1, <2>1 DEF Registered, SDKs
  <2> HIDE DEF l
  <2>4. SdkOK(sdk')
    <3>1. sdk.threads + 1 \in Nat
      BY <1>1 DEF SDKs
    <3>2. sdk' \in SDKs
      BY <1>1, <2>2, <2>3, <3>1 DEF SDKs
    <3>3. /\ sdk'.selected = sdk.selected /\ sdk'.made = sdk.made
          /\ sdk'.listeners = l
      BY <1>1, <2>3 DEF SDKs
    <3> QED BY <1>1, <2>2, <3>2, <3>3 DEF SdkOK
  <2> QED BY <1>2, <1>3, <2>4
<1> QED BY <1>4, <1>5, <1>6

(* The SDK stays in order. *)
LEMMA SdkKept ==
    ASSUME TypeOK, Bridges, Created, Handlers, Next
    PROVE  SdkOK(sdk')
<1>1. SdkOK(sdk) /\ sdk \in SDKs /\ sdk.selected = sdk.made
  BY DEF SdkOK, TypeOK, Bridges, Heeded
<1>2. bound # 0 => bound \in Services /\ service[bound] \in LightServices
  BY ServiceTypes
<1>3. CASE UNCHANGED sdk
  BY <1>1, <1>3
<1>4. CASE ServiceConnected
  <2> DEFINE r == [service[bound] EXCEPT !.listener = "screen"]
  <2>1. r \in LightServices /\ bound \in Services
    BY <1>2, <1>4 DEF ServiceConnected, LightServices
  <2>2. Connect(r, bound)
    BY <1>4 DEF ServiceConnected
  <2> HIDE DEF r
  <2> QED BY <2>1, <2>2, ConnectedOK
<1>5. CASE Tap
  <2>1. bound # 0 /\ Connect(service[bound], bound)
    BY <1>5 DEF Tap, Handlers
  <2> QED BY <1>2, <2>1, ConnectedOK
<1>6. CASE Stop
  <2>1. sdk' = Disconnected(bound) \/ sdk' = sdk
    BY <1>6 DEF Stop, Crash
  <2> QED BY <1>1, <2>1, DisconnectedOK
<1>7. CASE OnStartCommand
  <2>1. CASE ~ UNCHANGED sdk
    <3> DEFINE s == IF bound # 0 THEN bound ELSE created + 1
               l == Append(sdk.listeners, s)
    <3>1. \E b \in BOOLEAN : sdk' = Registered(IF b THEN [sdk EXCEPT !.threads = @ + 1]
                                               ELSE [sdk EXCEPT !.blank = @ + 1], s)
      <4> DEFINE r == IF bound # 0 THEN service[s] ELSE NewService
      <4>1. sdk' = Registered(IF r.server THEN [sdk EXCEPT !.threads = @ + 1]
                              ELSE [sdk EXCEPT !.blank = @ + 1], s)
        BY <1>7, <2>1 DEF OnStartCommand, Crash
      <4>2. r \in LightServices
        BY <1>2, Fresh
      <4>3. r.server \in BOOLEAN
        BY <4>2 DEF LightServices
      <4> HIDE DEF r, s
      <4> QED BY <4>1, <4>3
    <3>2. s \in Services
      BY <1>2, Room
    <3>3. l \in Seq(Services) /\ l # << >>
      BY <3>2, Listeners
    <3>4. \/ sdk' = [sdk EXCEPT !.listeners = l, !.threads = @ + 1]
          \/ sdk' = [sdk EXCEPT !.listeners = l, !.blank = @ + 1]
      BY <1>1, <3>1 DEF Registered, SDKs
    <3> HIDE DEF l
    <3>5. sdk.threads + 1 \in Nat /\ sdk.blank + 1 \in Nat
      BY <1>1 DEF SDKs
    <3>6. sdk' \in SDKs
      <4>1. CASE sdk' = [sdk EXCEPT !.listeners = l, !.threads = @ + 1]
        BY <1>1, <3>3, <3>5, <4>1 DEF SDKs
      <4>2. CASE sdk' = [sdk EXCEPT !.listeners = l, !.blank = @ + 1]
        BY <1>1, <3>3, <3>5, <4>2 DEF SDKs
      <4> QED BY <3>4, <4>1, <4>2
    <3>7. /\ sdk'.selected = sdk.selected /\ sdk'.made = sdk.made
          /\ sdk'.listeners = l
      BY <1>1, <3>4 DEF SDKs
    <3> QED BY <1>1, <3>3, <3>6, <3>7 DEF SdkOK
  <2> QED BY <1>3, <2>1
<1>8. CASE HandleDone
  <2>1. (\E s : sdk' = Disconnected(s)) \/ sdk' = sdk
    BY <1>8 DEF HandleDone, Crash
  <2> QED BY <1>1, <2>1, DisconnectedOK
<1>9. CASE ConnectEnds
  <2>0. sdk.threads \in Nat /\ sdk.threads - 1 \in Nat /\ (sdk.made > 0 \/ sdk.listeners # << >>)
    BY <1>1, <1>9 DEF ConnectEnds, SdkOK, SDKs
  <2>1. CASE sdk' = [sdk EXCEPT !.threads = @ - 1]
    BY <1>1, <2>0, <2>1 DEF SdkOK, SDKs
  <2>2. CASE OnAuthenticationRequired
    <3> DEFINE p == sdk.pushlink \/ sdk.listeners # << >>
    <3>1. sdk' = [sdk EXCEPT !.threads = @ - 1, !.pushlink = p]
      BY <2>2 DEF OnAuthenticationRequired
    <3>2. p \in BOOLEAN
      BY <1>1 DEF SDKs
    <3> HIDE DEF p
    <3> QED BY <1>1, <2>0, <3>1, <3>2 DEF SdkOK, SDKs
  <2>3. CASE OnBridgeConnected
    <3> DEFINE b == sdk.made + 1
               c == IF sdk.listeners = << >> THEN sdk.beating ELSE sdk.beating \cup {b}
    <3>1. sdk' = [sdk EXCEPT !.threads = @ - 1, !.made = b, !.bridges = {b},
                             !.selected = b, !.beating = c]
      BY <2>3 DEF OnBridgeConnected
    <3>2. b \in Nat /\ b > 0 /\ c \in SUBSET Nat
      BY <1>1 DEF SDKs
    <3> HIDE DEF b, c
    <3> QED BY <1>1, <2>0, <3>1, <3>2 DEF SdkOK, SDKs
  <2> QED BY <1>9, <2>1, <2>2, <2>3 DEF ConnectEnds, Fail
<1>10. CASE BlankEnds
  <2>1. sdk' = [sdk EXCEPT !.blank = @ - 1] /\ sdk.blank > 0
    BY <1>10 DEF BlankEnds, Fail
  <2>2. sdk.blank \in Nat /\ sdk.blank - 1 \in Nat /\ (sdk.made > 0 \/ sdk.listeners # << >>)
    BY <1>1, <2>1 DEF SdkOK, SDKs
  <2> QED BY <1>1, <2>1, <2>2 DEF SdkOK, SDKs
<1>11. CASE PushlinkEnds
  <2>1. /\ sdk.pushlink
        /\ \/ sdk' = [sdk EXCEPT !.pushlink = FALSE, !.threads = @ + 1]
           \/ sdk' = [sdk EXCEPT !.pushlink = FALSE]
    BY <1>11 DEF PushlinkEnds, Fail
  <2>2. sdk.made > 0 \/ sdk.listeners # << >>
    BY <1>1, <2>1 DEF SdkOK
  <2>3. sdk.threads + 1 \in Nat
    BY <1>1 DEF SDKs
  <2>4. sdk' \in SDKs
    BY <1>1, <2>1, <2>3 DEF SDKs
  <2>5. /\ sdk'.selected = sdk.selected /\ sdk'.made = sdk.made
        /\ sdk'.listeners = sdk.listeners
    BY <1>1, <2>1 DEF SDKs
  <2> QED BY <1>1, <2>2, <2>4, <2>5 DEF SdkOK
<1>12. CASE SearchEnds
  <2>0. sdk.searches > 0
    BY <1>12 DEF SearchEnds
  <2>1. sdk.searches \in Nat /\ sdk.searches - 1 \in Nat /\ (sdk.made > 0 \/ sdk.listeners # << >>)
    BY <1>1, <2>0 DEF SdkOK, SDKs
  <2>2. CASE sdk' = [sdk EXCEPT !.searches = @ - 1]
    BY <1>1, <2>1, <2>2 DEF SdkOK, SDKs
  <2>3. CASE OnAccessPointsFound /\ ~ UNCHANGED sdk
    <3> DEFINE k == IF sdk.selected = NoBridge \/ sdk.listeners = << >> THEN sdk
                    ELSE Unplugged(sdk)
    <3>1. sdk' = [k EXCEPT !.searches = @ - 1, !.threads = @ + Len(k.listeners)]
      BY <2>3 DEF OnAccessPointsFound, Crash
    <3>2. k \in SDKs /\ k.selected = sdk.selected /\ k.made = sdk.made
          /\ k.listeners = sdk.listeners /\ k.searches = sdk.searches
          /\ k.threads = sdk.threads
      <4>1. CASE k = sdk
        BY <1>1, <4>1
      <4>2. CASE k = Unplugged(sdk)
        <5>1. /\ k \in SDKs
              /\ k = [sdk EXCEPT !.bridges = @ \ {sdk.made}, !.beating = @ \ {sdk.made},
                                 !.lost = @ \ {sdk.made}]
          BY <4>2, Unplugging
        <5> HIDE DEF k
        <5> QED BY <1>1, <5>1 DEF SDKs
      <4> QED BY <4>1, <4>2
    <3> HIDE DEF k
    <3>3. Len(k.listeners) \in Nat
      BY <3>2, Listeners
    <3>4. k.searches - 1 \in Nat /\ k.threads + Len(k.listeners) \in Nat
      BY <2>1, <3>2, <3>3 DEF SDKs
    <3> QED BY <1>1, <2>1, <3>1, <3>2, <3>4 DEF SdkOK, SDKs
  <2> QED BY <1>3, <1>12, <2>2, <2>3 DEF SearchEnds, Fail
<1>13. CASE \E b \in sdk.beating : Heartbeat(b)
  <2>1. PICK b \in sdk.beating : Heartbeat(b)
    BY <1>13
  <2>2. b \in Nat
    BY <1>1, <2>1 DEF SDKs
  <2>3. \/ UNCHANGED sdk
        \/ sdk' = [sdk EXCEPT !.bridges = @ \ {b}, !.lost = @ \cup {b}]
        \/ sdk' = [sdk EXCEPT !.bridges = @ \cup {b}, !.lost = @ \ {b}]
    BY <2>1 DEF Heartbeat, OnConnectionLost, OnConnectionResumed, OnCacheUpdated
  <2>4. sdk' \in SDKs
    <3>1. ASSUME NEW x \in SUBSET Nat, NEW y \in SUBSET Nat,
                 sdk' = [sdk EXCEPT !.bridges = x, !.lost = y]
          PROVE  sdk' \in SDKs
      BY <1>1, <3>1 DEF SDKs
    <3>2. /\ sdk.bridges \ {b} \in SUBSET Nat /\ sdk.bridges \cup {b} \in SUBSET Nat
          /\ sdk.lost \ {b} \in SUBSET Nat /\ sdk.lost \cup {b} \in SUBSET Nat
      BY <1>1, <2>2 DEF SDKs
    <3> QED BY <1>1, <2>3, <3>1, <3>2
  <2>5. /\ sdk'.selected = sdk.selected /\ sdk'.made = sdk.made
        /\ sdk'.listeners = sdk.listeners /\ sdk'.threads = sdk.threads
        /\ sdk'.blank = sdk.blank /\ sdk'.searches = sdk.searches
        /\ sdk'.pushlink = sdk.pushlink
    BY <1>1, <2>3 DEF SDKs
  <2> QED BY <1>1, <2>4, <2>5 DEF SdkOK
<1>14. CASE \/ Open \/ CreateView \/ Leave \/ \E tab \in Tabs : SelectTab(tab)
            \/ Command \/ Restart \/ Restore \/ HandleScreen \/ HandleAlarm
            \/ \E s \in Services : RequestDone(s)
  BY <1>3, <1>14 DEF Open, CreateView, Leave, SelectTab, ScreenMoved, Command, Restart,
                     Restore, HandleScreen, HandleAlarm, RequestDone, Crash
<1> QED BY <1>4, <1>5, <1>6, <1>7, <1>8, <1>9, <1>10, <1>11, <1>12, <1>13, <1>14
        DEF Next, Handle

(* The services keep their types. *)
LEMMA ServicesKept ==
    ASSUME TypeOK, Bridges, Created, Handlers, Next
    PROVE  /\ service' \in [Services -> LightServices]
           /\ silent' \in BOOLEAN
           /\ cut' \in {"none", "stop", "alarm", "search", "deaf"}
<1>1. /\ service \in [Services -> LightServices]
      /\ silent \in BOOLEAN
      /\ cut \in {"none", "stop", "alarm", "search", "deaf"}
  BY DEF TypeOK
<1>2. bound # 0 => bound \in Services /\ service[bound] \in LightServices
  BY ServiceTypes
<1>3. CASE UNCHANGED <<service, silent, cut>>
  BY <1>1, <1>3
<1>4. CASE Open
  <2>1. /\ service' = [service EXCEPT ![bound'] = NewService]
        /\ UNCHANGED <<silent, cut>>
    BY <1>4 DEF Open, auxVars
  <2> QED BY <1>1, <2>1, Fresh
<1>5. CASE ServiceConnected
  <2> DEFINE r == [service[bound] EXCEPT !.listener = "screen"]
  <2>1. r \in LightServices /\ bound \in Services
    BY <1>2, <1>5 DEF ServiceConnected, LightServices
  <2>2. Connect(r, bound)
    BY <1>5 DEF ServiceConnected
  <2> HIDE DEF r
  <2> QED BY <1>1, <2>1, <2>2, ConnectedOK
<1>6. CASE Tap
  <2>1. bound # 0 /\ Connect(service[bound], bound)
    BY <1>6 DEF Tap, Handlers
  <2> QED BY <1>1, <1>2, <2>1, ConnectedOK
<1>7. CASE Command
  <2>1. bound # 0
    BY <1>7 DEF Command, Handlers
  <2>2. /\ \/ service' = service
           \/ service' = [service EXCEPT ![bound] = UpdateLights(service[bound], Screen)]
        /\ UNCHANGED <<silent, cut>>
    BY <1>7 DEF Command, Crash, serviceVars, auxVars
  <2>3. UpdateLights(service[bound], Screen) \in LightServices
    <3>1. Screen \in Clients
      BY Bounds DEF Screen, Clients
    <3> QED BY <1>2, <2>1, <3>1, Requesting
  <2> QED BY <1>1, <2>2, <2>3
<1>8. CASE Stop
  <2>1. /\ service' = service /\ silent' = silent
        /\ cut' \in {"stop", cut}
    BY <1>8 DEF Stop, Crash, serviceVars, auxVars
  <2> QED BY <1>1, <2>1
<1>9. CASE OnStartCommand
  <2> DEFINE s == IF bound # 0 THEN bound ELSE created + 1
             r == IF bound # 0 THEN service[s] ELSE NewService
             alarm == alarms + 1
  <2>1. /\ \/ service' = service
           \/ service' = [service EXCEPT ![s] = UpdateLights(r, alarm)]
           \/ service' = [service EXCEPT ![s] = [r EXCEPT !.handler = alarm]]
        /\ UNCHANGED <<silent, cut>>
    BY <1>9 DEF OnStartCommand, Crash, serviceVars, auxVars
  <2>2. alarm \in Clients
    BY <1>9, Bounds, ServiceTypes DEF OnStartCommand, Clients
  <2>3. r \in LightServices
    BY <1>2, Fresh
  <2> HIDE DEF r, alarm, s
  <2>4. UpdateLights(r, alarm) \in LightServices
    BY <2>2, <2>3, Requesting
  <2>5. [r EXCEPT !.handler = alarm] \in LightServices
    BY <2>2, <2>3 DEF LightServices
  <2> QED BY <1>1, <2>1, <2>4, <2>5
<1>10. CASE HandleAlarm
  <2>1. /\ \/ service' = service
           \/ service' = [service EXCEPT ![First.service] =
                             AlarmHeard(service[First.service], First.to)]
        /\ UNCHANGED <<silent, cut>>
    BY <1>10 DEF HandleAlarm, Crash, serviceVars, auxVars
  <2>2. First \in Posts /\ service[First.service] \in LightServices
    BY <1>10, FirstIs, ServiceTypes DEF HandleAlarm
  <2> DEFINE r == [service[First.service] EXCEPT !.listener = "disconnect"]
  <2>3. r \in LightServices /\ First.to \in Clients
    BY <2>2 DEF LightServices, Posts
  <2> HIDE DEF r
  <2>4. UpdateLights(r, First.to) \in LightServices
    BY <2>3, Requesting
  <2>5. AlarmHeard(service[First.service], First.to) \in LightServices
    BY <2>4 DEF AlarmHeard, r
  <2> QED BY <1>1, <2>1, <2>5
<1>11. CASE HandleDone
  <2> DEFINE u == DoRequest([service[First.service] EXCEPT !.running = None])
  <2>1. /\ service' \in {service, [service EXCEPT ![First.service] = u]}
        /\ cut' \in {cut, "alarm"} /\ silent' = silent
    BY <1>11 DEF HandleDone, Crash, serviceVars, auxVars
  <2>2. service[First.service] \in LightServices
    BY <1>11, FirstIs, ServiceTypes DEF HandleDone
  <2>3. u \in LightServices
    BY <2>2, RequestingNext
  <2> HIDE DEF u
  <2> QED BY <1>1, <2>1, <2>3
<1>12. CASE ConnectEnds
  <2>1. CASE OnBridgeConnected
    <3> DEFINE b == sdk.made + 1
    <3>1. /\ service' = [s \in Services |->
                            IF s \in Listening
                            THEN [service[s] EXCEPT !.bridge = b, !.connected = TRUE,
                                                    !.server = @ \/ service[s].find]
                            ELSE service[s]]
          /\ cut' = "none" /\ silent' = silent
      BY <2>1 DEF OnBridgeConnected
    <3>2. b \in Nat
      BY DEF TypeOK, SDKs
    <3> HIDE DEF b
    <3>3. ASSUME NEW s \in Services
          PROVE  [service[s] EXCEPT !.bridge = b, !.connected = TRUE,
                                    !.server = @ \/ service[s].find] \in LightServices
      <4> DEFINE known == service[s].server \/ service[s].find
      <4>1. service[s] \in LightServices
        BY <1>1
      <4>2. known \in BOOLEAN
        BY <4>1 DEF LightServices
      <4>3. [service[s] EXCEPT !.bridge = b, !.connected = TRUE,
                               !.server = @ \/ service[s].find]
            = [service[s] EXCEPT !.bridge = b, !.connected = TRUE, !.server = known]
        BY <4>1 DEF LightServices
      <4> HIDE DEF known
      <4>4. [service[s] EXCEPT !.bridge = b, !.connected = TRUE, !.server = known]
               \in LightServices
        BY <3>2, <4>1, <4>2 DEF LightServices
      <4> QED BY <4>3, <4>4
    <3> QED BY <1>1, <3>1, <3>3
  <2>2. CASE ~OnBridgeConnected
    <3>1. UNCHANGED <<service, silent, cut>>
      BY <1>12, <2>2 DEF ConnectEnds, OnAuthenticationRequired, Fail, serviceVars, auxVars
    <3> QED BY <1>3, <3>1
  <2> QED BY <2>1, <2>2
<1>13. CASE SearchEnds
  <2>1. /\ service' = service /\ silent' = silent
        /\ cut' \in {"search", cut}
    BY <1>13 DEF SearchEnds, OnAccessPointsFound, Fail, Crash, serviceVars, auxVars
  <2> QED BY <1>1, <2>1
<1>14. CASE \E b \in sdk.beating : Heartbeat(b)
  <2>1. PICK b \in sdk.beating : Heartbeat(b)
    BY <1>14
  <2>2. silent' = silent /\ cut' \in {"none", "deaf", cut}
    BY <2>1 DEF Heartbeat, OnConnectionLost, OnConnectionResumed, OnCacheUpdated, auxVars
  <2>3. ASSUME NEW d, NEW v \in BOOLEAN,
               service' = [s \in Services |->
                              IF s \in d THEN [service[s] EXCEPT !.connected = v]
                              ELSE service[s]]
        PROVE  service' \in [Services -> LightServices]
    <3>1. ASSUME NEW s \in Services
          PROVE  [service[s] EXCEPT !.connected = v] \in LightServices
      BY <1>1 DEF LightServices
    <3> QED BY <1>1, <2>3, <3>1
  <2>4. service' \in [Services -> LightServices]
    <3>1. CASE OnCacheUpdated(b)
      BY <1>1, <3>1 DEF OnCacheUpdated, serviceVars
    <3>2. CASE OnConnectionLost(b)
      BY <2>3, <3>2 DEF OnConnectionLost
    <3>3. CASE OnConnectionResumed(b)
      <4> DEFINE deaf == {s \in Listening : ~service[s].connected}
      <4>1. service' = [s \in Services |->
                           IF s \in deaf THEN [service[s] EXCEPT !.connected = TRUE]
                           ELSE service[s]]
        BY <3>3 DEF OnConnectionResumed
      <4> HIDE DEF deaf
      <4> QED BY <2>3, <4>1
    <3> QED BY <2>1, <3>1, <3>2, <3>3 DEF Heartbeat
  <2> QED BY <1>1, <2>2, <2>4
<1>15. CASE \/ CreateView \/ Leave \/ \E tab \in Tabs : SelectTab(tab)
            \/ Restart \/ Restore \/ HandleScreen \/ BlankEnds \/ PushlinkEnds
            \/ \E s \in Services : RequestDone(s)
  BY <1>3, <1>15 DEF CreateView, Leave, SelectTab, ScreenMoved, Restart, Restore,
                     HandleScreen, BlankEnds, PushlinkEnds, Fail, RequestDone, Crash,
                     serviceVars, auxVars
<1> QED BY <1>4, <1>5, <1>6, <1>7, <1>8, <1>9, <1>10, <1>11, <1>12, <1>13, <1>14, <1>15
        DEF Next, Handle

\* A screen that waits has waited, and turns to its settings or not at all.
StillWaiting ==
    system'.status = "loading" =>
        system.status = "loading" /\ system'.tab \in {system.tab, "setup"}

(* So do the other variables that only single handlers change. *)
LEMMA RestKept ==
    ASSUME TypeOK, Bridges, Created, Handlers, Next
    PROVE  /\ stored' \in BOOLEAN
           /\ system' \in Systems
           /\ visible' \in BOOLEAN
           /\ crash' \in Causes
           /\ alarms' \in 0 .. MaxAlarms
           /\ events' \in 0 .. MaxEvents
           /\ asked' \subseteq 1 .. alarms'
           /\ StillWaiting
<1>1. /\ stored \in BOOLEAN /\ system \in Systems /\ visible \in BOOLEAN
      /\ crash \in Causes
      /\ alarms \in 0 .. MaxAlarms /\ events \in 0 .. MaxEvents
      /\ asked \subseteq 1 .. alarms
  BY DEF TypeOK
<1>2. ASSUME \/ UNCHANGED <<alarms, events>>
             \/ FromOutside
             \/ events' = events /\ alarms' = alarms + 1 /\ alarms < MaxAlarms
      PROVE  alarms' \in 0 .. MaxAlarms /\ events' \in 0 .. MaxEvents /\ alarms <= alarms'
  BY <1>1, <1>2, Bounds DEF FromOutside
<1>3. ASSUME alarms' \in 0 .. MaxAlarms, alarms <= alarms', asked' \subseteq asked
      PROVE  asked' \subseteq 1 .. alarms'
  <2>1. alarms \in Nat /\ alarms' \in Nat
    BY <1>1, <1>3, Bounds
  <2> QED BY <1>1, <1>3, <2>1
<1>4. CASE Open \/ Restart \/ Restore
  <2>1. /\ UNCHANGED <<stored, system, alarms, events, asked>>
        /\ visible' \in {visible, TRUE}
        /\ crash' \in {crash, "restored"}
    BY <1>4 DEF Open, Restart, Restore, Crash, serviceVars, screenVars, auxVars, countVars
  <2> QED BY <1>1, <1>2, <1>3, <2>1 DEF Causes, StillWaiting
<1>5. CASE ServiceConnected
  <2>1. /\ UNCHANGED <<stored, visible, crash, alarms, events, asked>>
        /\ system' = [system EXCEPT !.service = TRUE]
    BY <1>5 DEF ServiceConnected, Connect, countVars
  <2>2. system' \in Systems /\ StillWaiting
    BY <1>1, <2>1 DEF Systems, StillWaiting
  <2> QED BY <1>1, <1>2, <1>3, <2>1, <2>2
<1>6. CASE CreateView \/ Leave \/ \E tab \in Tabs : SelectTab(tab)
  <2>1. /\ UNCHANGED <<stored, visible, alarms, events, asked>>
        /\ crash' \in {crash, "unbound"}
    BY <1>6 DEF CreateView, Leave, SelectTab, ScreenMoved, Crash, serviceVars, screenVars,
                auxVars, countVars
  <2>2. /\ FirstTab(system.status) \in Tabs
        /\ system.status = "loading" => FirstTab(system.status) = "setup"
    BY DEF FirstTab, Tabs
  <2>3. CASE CreateView
    <3>1. \/ system' = system
          \/ system' = [system EXCEPT !.screen = "shown", !.tab = FirstTab(system.status)]
          \/ system' = [system EXCEPT !.screen = "shown"]
      BY <2>3 DEF CreateView, Crash, screenVars
    <3>2. system' \in Systems /\ StillWaiting
      BY <1>1, <2>2, <3>1 DEF Systems, Screens, StillWaiting
    <3> QED BY <1>1, <1>2, <1>3, <2>1, <3>2 DEF Causes
  <2>4. CASE Leave \/ \E tab \in Tabs : SelectTab(tab)
    <3>1. \/ system' = [system EXCEPT !.screen = "left"]
          \/ /\ system.status = "online"
             /\ \E tab \in Tabs : system' = [system EXCEPT !.tab = tab]
      BY <2>4 DEF Leave, SelectTab
    <3>2. system' \in Systems /\ StillWaiting
      BY <1>1, <3>1 DEF Systems, Screens, StillWaiting
    <3> QED BY <1>1, <1>2, <1>3, <2>1, <3>2 DEF Causes
  <2> QED BY <1>6, <2>3, <2>4
<1>7. CASE Tap
  <2>1. /\ UNCHANGED <<stored, system, visible, crash, asked>> /\ FromOutside
    BY <1>7 DEF Tap, Connect, screenVars
  <2> QED BY <1>1, <1>2, <1>3, <2>1 DEF Causes, StillWaiting
<1>8. CASE Command
  <2>1. /\ UNCHANGED <<stored, system, visible, asked>> /\ FromOutside
        /\ crash' \in {crash, "lights"}
    BY <1>8 DEF Command, Crash, serviceVars, screenVars, auxVars
  <2> QED BY <1>1, <1>2, <1>3, <2>1 DEF Causes, StillWaiting
<1>9. CASE Stop
  <2>1. /\ UNCHANGED <<stored, system, asked>> /\ FromOutside
        /\ visible' \in {visible, FALSE}
        /\ crash' \in {crash, "unbound"}
    BY <1>9 DEF Stop, Crash, serviceVars, screenVars, auxVars
  <2> QED BY <1>1, <1>2, <1>3, <2>1 DEF Causes, StillWaiting
<1>10. CASE OnStartCommand
  <2>1. /\ UNCHANGED <<stored, system, visible, events>>
        /\ alarms' = alarms + 1 /\ alarms < MaxAlarms
        /\ crash' \in {crash, "lights"}
        /\ asked' \subseteq asked \cup {alarms + 1}
    BY <1>10 DEF OnStartCommand, Crash, serviceVars, screenVars, auxVars
  <2>2. asked' \subseteq 1 .. alarms'
    BY <1>1, <2>1, Bounds
  <2> QED BY <1>1, <1>2, <2>1, <2>2 DEF Causes, StillWaiting
<1>11. CASE HandleScreen
  <2>1. /\ UNCHANGED <<stored, visible, alarms, events, asked>>
        /\ crash' \in {crash, "left"}
        /\ system' \in {system, Told(system, First.what)}
        /\ messages # << >> /\ First.what # "done"
    BY <1>11 DEF HandleScreen, Crash, serviceVars, screenVars, auxVars, countVars
  <2>2. First.what \in Errors
    BY <2>1, FirstIs DEF Posts
  <2>3. StatusOf(First.what) \in Statuses \ {"loading"}
    BY DEF StatusOf, Statuses
  <2>4. NextTab(system, StatusOf(First.what)) \in Tabs
    BY <1>1 DEF NextTab, Systems, Tabs
  <2>5. system' \in Systems /\ StillWaiting
    BY <1>1, <2>1, <2>2, <2>3, <2>4 DEF Told, Systems, StillWaiting
  <2> QED BY <1>1, <1>2, <1>3, <2>1, <2>5 DEF Causes
<1>12. CASE HandleAlarm
  <2>1. /\ UNCHANGED <<stored, system, visible, alarms, events>>
        /\ crash' \in {crash, "lights"}
        /\ asked' \subseteq asked
    BY <1>12 DEF HandleAlarm, Crash, serviceVars, screenVars, auxVars, countVars
  <2> QED BY <1>1, <1>2, <1>3, <2>1 DEF Causes, StillWaiting
<1>13. CASE HandleDone
  <2>1. /\ UNCHANGED <<stored, system, visible, alarms, events, asked>>
        /\ crash' \in {crash, "listener"}
    BY <1>13 DEF HandleDone, Crash, serviceVars, screenVars, auxVars, countVars
  <2> QED BY <1>1, <1>2, <1>3, <2>1 DEF Causes, StillWaiting
<1>14. CASE ConnectEnds
  <2>1. CASE OnBridgeConnected
    <3>1. /\ UNCHANGED <<system, visible, crash, alarms, events, asked>>
          /\ stored' = (stored \/ \E s \in Listening : service[s].find)
      BY <2>1 DEF OnBridgeConnected, screenVars, countVars
    <3>2. stored' \in BOOLEAN
      BY <3>1
    <3> QED BY <1>1, <1>2, <1>3, <3>1, <3>2 DEF Causes, StillWaiting
  <2>2. CASE ~OnBridgeConnected
    <3>1. /\ UNCHANGED <<stored, system, visible, crash, asked>>
          /\ UNCHANGED <<alarms, events>> \/ FromOutside
      BY <1>14, <2>2 DEF ConnectEnds, OnAuthenticationRequired, Fail, serviceVars,
                         screenVars, auxVars, countVars
    <3> QED BY <1>1, <1>2, <1>3, <3>1 DEF Causes, StillWaiting
  <2> QED BY <2>1, <2>2
<1>15. CASE BlankEnds \/ PushlinkEnds \/ SearchEnds
  <2>1. /\ UNCHANGED <<stored, system, visible, asked, alarms, events>>
        /\ crash' \in {crash, "connected"}
    BY <1>15 DEF BlankEnds, PushlinkEnds, SearchEnds, OnAccessPointsFound, Fail, Crash,
                 serviceVars, screenVars, auxVars, countVars
  <2> QED BY <1>1, <1>2, <1>3, <2>1 DEF Causes, StillWaiting
<1>16. CASE (\E b \in sdk.beating : Heartbeat(b)) \/ \E s \in Services : RequestDone(s)
  <2>1. /\ UNCHANGED <<stored, system, visible, crash, asked>>
        /\ UNCHANGED <<alarms, events>> \/ FromOutside
    BY <1>16 DEF Heartbeat, OnConnectionLost, OnConnectionResumed, OnCacheUpdated,
                 RequestDone, serviceVars, screenVars, auxVars, countVars
  <2> QED BY <1>1, <1>2, <1>3, <2>1 DEF Causes, StillWaiting
<1> QED BY <1>4, <1>5, <1>6, <1>7, <1>8, <1>9, <1>10, <1>11, <1>12, <1>13, <1>14, <1>15,
           <1>16 DEF Next, Handle

(* The bridges' numbers. *)
LEMMA BridgeTypes ==
    ASSUME TypeOK
    PROVE  /\ sdk.made \in Nat
           /\ sdk.bridges \subseteq 1 .. sdk.made /\ sdk.beating \subseteq 1 .. sdk.made
           /\ sdk.lost \subseteq sdk.beating
           /\ sdk.threads \in Nat
BY DEF TypeOK, SDKs

(* Bridges are numbered as they come, and heartbeats are of bridges. *)
LEMMA BridgesKept ==
    ASSUME TypeOK, Bridges, Step
    PROVE  /\ sdk'.bridges \cup sdk'.beating \subseteq 1 .. sdk'.made
           /\ sdk'.lost \subseteq sdk'.beating
           /\ sdk'.beating \ sdk'.lost \subseteq sdk'.bridges
           /\ sdk'.made \in {sdk.made, sdk.made + 1}
<1>1. /\ sdk.made \in Nat
      /\ sdk.bridges \subseteq 1 .. sdk.made /\ sdk.beating \subseteq 1 .. sdk.made
      /\ sdk.lost \subseteq sdk.beating
      /\ sdk.beating \ sdk.lost \subseteq sdk.bridges
  BY BridgeTypes DEF Bridges
<1>2. CASE SameBridges
  BY <1>1, <1>2 DEF SameBridges
<1>3. CASE Unplug
  BY <1>1, <1>3 DEF Unplug
<1>4. CASE Arriving
  <2>1. /\ sdk'.made = sdk.made + 1 /\ sdk'.bridges = {sdk.made + 1}
        /\ sdk.bridges = {}
        /\ sdk'.beating \in {sdk.beating, sdk.beating \cup {sdk.made + 1}}
        /\ sdk'.lost = sdk.lost
    BY <1>4 DEF Arriving
  <2>2. 1 .. sdk.made \subseteq 1 .. sdk.made + 1 /\ sdk.made + 1 \in 1 .. sdk.made + 1
    BY <1>1
  <2>3. /\ sdk'.bridges \cup sdk'.beating \subseteq 1 .. sdk'.made
        /\ sdk'.lost \subseteq sdk'.beating
        /\ sdk'.beating \ sdk'.lost \subseteq sdk'.bridges
    BY <1>1, <2>1, <2>2
  <2> QED BY <2>1, <2>3
<1>5. CASE Losing
  <2>1. PICK b \in sdk.beating :
           /\ sdk'.bridges = sdk.bridges \ {b} /\ sdk'.lost = sdk.lost \cup {b}
           /\ sdk'.beating = sdk.beating /\ sdk'.made = sdk.made
    BY <1>5 DEF Losing
  <2> QED BY <1>1, <2>1
<1>6. CASE Resuming
  <2>1. PICK b \in sdk.beating :
           /\ sdk'.bridges = sdk.bridges \cup {b} /\ sdk'.lost = sdk.lost \ {b}
           /\ sdk'.beating = sdk.beating /\ sdk'.made = sdk.made
    BY <1>6 DEF Resuming
  <2> QED BY <1>1, <2>1
<1>7. CASE UNCHANGED sdk
  BY <1>1, <1>7
<1>8. SameBridges \/ Unplug \/ Arriving \/ Losing \/ Resuming \/ UNCHANGED sdk
  BY DEF Step, Dies, Opening, Connecting, Requested, Summoning, Letting, Looking, Telling,
         Alarmed, Finishing, Mentioning, Answering
<1> QED BY <1>2, <1>3, <1>4, <1>5, <1>6, <1>7, <1>8

(* Services are numbered as they are created. *)
LEMMA CountsKept ==
    ASSUME TypeOK, Created, Step
    PROVE  /\ created' \in {created, created + 1}
           /\ created' \in 0 .. MaxAlarms + 1
           /\ bound' \in 0 .. created'
           /\ Listening' \subseteq 1 .. created'
<1>1. /\ created \in 0 .. MaxAlarms + 1 /\ bound \in 0 .. created
      /\ Listening \subseteq 1 .. created /\ created \in Nat
  BY Bounds DEF TypeOK
<1>2. CASE Opening
  <2>1. /\ created' = created + 1 /\ bound' = created + 1 /\ created + 1 \in Services
        /\ UNCHANGED sdk
    BY <1>2 DEF Opening
  <2>2. Listening' = Listening
    BY <2>1 DEF Listening
  <2> QED BY <1>1, <2>1, <2>2, Bounds DEF Services
<1>3. CASE \E s \in Services : Summoning(s)
  <2>1. PICK s \in Services : Summoning(s)
    BY <1>3
  <2>2. /\ s = IF bound # 0 THEN bound ELSE created + 1
        /\ created' = IF bound # 0 THEN created ELSE s
        /\ Listening' = Listening \cup {s} /\ bound' = bound
    BY <2>1 DEF Summoning
  <2>3. CASE bound # 0
    <3>1. created' = created /\ s \in 1 .. created
      BY <1>1, <2>2, <2>3
    <3> QED BY <1>1, <2>2, <3>1
  <2>4. CASE bound = 0
    <3>1. created' = created + 1 /\ s = created + 1
      BY <2>2, <2>4
    <3>2. 1 .. created \subseteq 1 .. created + 1 /\ created + 1 \in 1 .. created + 1
      BY <1>1
    <3> QED BY <1>1, <2>2, <2>4, <3>1, <3>2, Bounds DEF Services
  <2> QED BY <2>3, <2>4
<1>4. CASE Connecting
  BY <1>1, <1>4 DEF Connecting
<1>5. CASE Dies \/ Requested \/ Letting \/ Looking \/ Telling \/ Alarmed \/ Finishing
           \/ Mentioning \/ Arriving \/ Losing \/ Resuming \/ \E s \in Services : Answering(s)
  <2>1. UNCHANGED <<created, bound>>
    BY <1>5 DEF Dies, Requested, Letting, Looking, Telling, Alarmed, Finishing, Taking,
                Mentioning, Arriving, Losing, Resuming, Posting, Answering
  <2>2. UNCHANGED sdk \/ Listening' \subseteq Listening
    BY <1>5 DEF Dies, Requested, Letting, Looking, Telling, Alarmed, Finishing, Unplug,
                Mentioning, Arriving, Losing, Resuming, Posting, Answering
  <2>3. Listening' \subseteq Listening
    BY <2>2 DEF Listening
  <2> QED BY <1>1, <2>1, <2>3
<1> QED BY <1>2, <1>3, <1>4, <1>5 DEF Step

(* The queue of the main thread grows at its end and shrinks at its head. *)
LEMMA Queueing ==
    ASSUME Step
    PROVE  \/ UNCHANGED messages
           \/ messages # << >> /\ messages' = Tail(messages)
           \/ \E t, what : Posting(t, what) /\ what \in {"none", "network", "notify"}
           \/ \E s \in Services : Answering(s)
BY DEF Step, Dies, Opening, Connecting, Requested, Summoning, Letting, Looking, Telling,
       Alarmed, Finishing, Taking, Mentioning, Arriving, Losing, Resuming

(* Messages are from services that have been created. *)
LEMMA MessagesKept ==
    ASSUME TypeOK, Created, Handlers, Step
    PROVE  /\ messages' \in Seq(Posts)
           /\ \A m \in ToSet(messages') : m.service \in 1 .. created'
<1>1. /\ messages \in Seq(Posts) /\ created \in Nat /\ Listening \subseteq 1 .. created
      /\ \A m \in Range(messages) : m.service \in 1 .. created
  BY Bounds DEF TypeOK, ToSet, Range
<1>2. 1 .. created \subseteq 1 .. created'
  BY <1>1, CountsKept
<1>3. \A q : ToSet(q) = Range(q)
  BY DEF ToSet, Range
<1>4. CASE UNCHANGED messages
  BY <1>1, <1>2, <1>3, <1>4
<1>5. CASE messages # << >> /\ messages' = Tail(messages)
  <2>1. messages' \in Seq(Posts) /\ Range(messages') \subseteq Range(messages)
    BY <1>1, <1>5, RangeOfTail
  <2> QED BY <1>1, <1>2, <1>3, <2>1
<1>6. CASE \E t, what : Posting(t, what) /\ what \in {"none", "network", "notify"}
  <2>1. PICK t, what : Posting(t, what) /\ what \in {"none", "network", "notify"}
    BY <1>6
  <2>2. /\ messages' = messages \o t /\ t \in Seq(Posts)
        /\ \A i \in 1 .. Len(t) : t[i].service \in Listening
    BY <2>1 DEF Posting, Notified
  <2>3. messages' \in Seq(Posts) /\ Range(messages') = Range(messages) \cup Range(t)
    BY <1>1, <2>2, RangeOfConcat
  <2>4. \A m \in Range(t) : m.service \in Listening
    BY <2>2 DEF Range
  <2> QED BY <1>1, <1>2, <1>3, <2>3, <2>4
<1>7. CASE \E s \in Services : Answering(s)
  <2>1. PICK s \in Services : Answering(s)
    BY <1>7
  <2>2. PICK e \in Done(s) : messages' = Append(messages, e)
    BY <2>1 DEF Answering
  <2>3. e \in Posts /\ e.service = s
    BY <2>2 DEF Done
  <2>4. s \in 1 .. created
    <3>1. service[s].running # None
      BY <2>1 DEF Answering
    <3>2. ~(s > created)
      BY <2>1, <3>1 DEF Created
    <3> QED BY <1>1, <3>2 DEF Services
  <2> DEFINE new == <<e>>
  <2>5. messages \in Seq(Posts) /\ new \in Seq(Posts) /\ messages' = messages \o new
    BY <1>1, <2>2, <2>3
  <2>6. Range(new) = {e}
    BY RangeOfFew
  <2> HIDE DEF new
  <2>7. messages' \in Seq(Posts) /\ Range(messages') = Range(messages) \cup Range(new)
    BY <2>5, RangeOfConcat
  <2> QED BY <1>1, <1>2, <1>3, <2>3, <2>4, <2>6, <2>7
<1> QED BY <1>4, <1>5, <1>6, <1>7, Queueing

(* A service has a bridge that there has been. *)
LEMMA OwnBridgesKept ==
    ASSUME TypeOK, Bridges, Created, Step
    PROVE  \A s \in Services : service'[s].bridge \in 0 .. sdk'.made
<1>1. /\ sdk.made \in Nat /\ \A s \in Services : service[s].bridge \in 0 .. sdk.made
  BY BridgeTypes DEF TypeOK
<1>2. 0 .. sdk.made \subseteq 0 .. sdk'.made
  BY <1>1, BridgesKept
<1> SUFFICES ASSUME NEW s \in Services
             PROVE  service'[s].bridge \in 0 .. sdk'.made
  OBVIOUS
<1>3. CASE service'[s].bridge = service[s].bridge
  BY <1>1, <1>2, <1>3
<1>4. CASE Opening
  <2>1. service' = [service EXCEPT ![created + 1] = NewService]
    BY <1>4 DEF Opening
  <2>2. service'[s] \in {service[s], NewService}
    BY <2>1, ServiceTypes
  <2>3. 0 \in 0 .. sdk.made
    BY <1>1
  <2>4. NewService.bridge = 0
    BY Fresh DEF NoBridge
  <2> QED BY <1>1, <1>2, <2>2, <2>3, <2>4
<1>5. CASE Arriving
  <2>1. /\ sdk'.made = sdk.made + 1
        /\ service'[s].bridge = IF s \in Listening THEN sdk.made + 1 ELSE service[s].bridge
    BY <1>5 DEF Arriving
  <2> QED BY <1>1, <2>1
<1>6. CASE Connecting \/ Requested
  <2>1. service'[s].bridge = service[s].bridge
    BY <1>6 DEF Connecting, Requested, Only
  <2> QED BY <1>3, <2>1
<1>7. CASE \E u \in Services : Summoning(u)
  <2>1. service'[s].bridge = service[s].bridge
    BY <1>7 DEF Summoning, Only
  <2> QED BY <1>3, <2>1
<1>8. CASE Alarmed \/ Finishing
  <2>1. service'[s].bridge = service[s].bridge
    BY <1>8 DEF Alarmed, Finishing, Only
  <2> QED BY <1>3, <2>1
<1>9. CASE Losing \/ Resuming
  <2>1. service'[s].bridge = service[s].bridge
    BY <1>9 DEF Losing, Resuming, Keeps
  <2> QED BY <1>3, <2>1
<1>10. CASE Dies \/ Letting \/ Looking \/ Telling \/ Mentioning
            \/ \E u \in Services : Answering(u)
  <2>1. service' = service
    BY <1>10 DEF Dies, Letting, Looking, Telling, Mentioning, Answering
  <2> QED BY <1>3, <2>1
<1> QED BY <1>4, <1>5, <1>6, <1>7, <1>8, <1>9, <1>10 DEF Step

(* All types hold at first. *)
LEMMA TypeHolds == Init => TypeOK
<1> SUFFICES ASSUME Init PROVE TypeOK
  OBVIOUS
<1>1. sdk = [bridges |-> {}, beating |-> {}, lost |-> {}, selected |-> NoBridge,
             made |-> 0, listeners |-> << >>, threads |-> 0, blank |-> 0,
             searches |-> 0, pushlink |-> FALSE]
  BY DEF Init
<1>2. sdk \in SDKs
  BY <1>1 DEF SDKs, NoBridge
<1>3. NewService \in LightServices
  BY Bounds DEF Init, NewService, LightServices, Clients, None, NoBridge
<1>4. service = [s \in Services |-> NewService] /\ NewService.bridge = 0
  BY DEF Init, NewService, NoBridge
<1>5. system \in Systems
  BY DEF Init, Systems, Statuses, Errors, Screens, Tabs
<1>6. Listening = {} /\ ToSet(messages) = {} /\ messages \in Seq(Posts)
  BY <1>1 DEF Init, Listening, ToSet
<1>7. /\ sdk.bridges \cup sdk.beating \subseteq 1 .. sdk.made
      /\ sdk.lost \subseteq sdk.beating /\ sdk.selected \in 0 .. sdk.made
      /\ \A s \in Services : service[s].bridge \in 0 .. sdk.made
  BY <1>1, <1>4 DEF NoBridge
<1>8. /\ created \in 0 .. MaxAlarms + 1 /\ bound \in 0 .. created
      /\ alarms \in 0 .. MaxAlarms /\ events \in 0 .. MaxEvents
      /\ asked \subseteq 1 .. alarms
  BY Bounds DEF Init
<1>9. /\ stored \in BOOLEAN /\ visible \in BOOLEAN /\ silent \in BOOLEAN
      /\ crash \in Causes
      /\ cut \in {"none", "stop", "alarm", "search", "deaf"}
  BY DEF Init, Causes
<1> QED BY <1>2, <1>3, <1>4, <1>5, <1>6, <1>7, <1>8, <1>9 DEF TypeOK

(* And stay. *)
LEMMA TypeKept ==
    ASSUME TypeOK, Bridges, Created, Handlers, [Next]_vars
    PROVE  TypeOK' /\ Bridges'
<1>1. CASE Next
  <2>1. Step
    BY <1>1, Steps
  <2>2. SdkOK(sdk')
    BY <1>1, SdkKept
  <2>3. /\ sdk'.bridges \cup sdk'.beating \subseteq 1 .. sdk'.made
        /\ sdk'.lost \subseteq sdk'.beating
        /\ sdk'.beating \ sdk'.lost \subseteq sdk'.bridges
    BY <2>1, BridgesKept
  <2>4. sdk'.selected \in 0 .. sdk'.made
    BY <2>2 DEF SdkOK, SDKs
  <2>5. /\ created' \in 0 .. MaxAlarms + 1 /\ bound' \in 0 .. created'
        /\ Listening' \subseteq 1 .. created'
    BY <2>1, CountsKept
  <2>6. TypeOK'
    BY <1>1, <2>1, <2>2, <2>3, <2>4, <2>5, ServicesKept, RestKept, MessagesKept,
       OwnBridgesKept DEF TypeOK, SdkOK
  <2>7. Bridges'
    BY <2>2, <2>3 DEF SdkOK, Bridges, Heeded
  <2> QED BY <2>6, <2>7
<1>2. CASE UNCHANGED vars
  <2>1. UNCHANGED <<sdk, service, created, bound, stored, system, visible, silent, asked,
                    cut, messages, crash, alarms, events>>
    BY <1>2 DEF vars, serviceVars, screenVars, auxVars, countVars
  <2>2. TypeOK'
    BY <2>1 DEF TypeOK, Listening
  <2>3. Bridges'
    BY <2>1 DEF Bridges, Heeded
  <2> QED BY <2>2, <2>3
<1> QED BY <1>1, <1>2

(* What a message that is taken off is. *)
LEMMA TakingIs ==
    ASSUME TypeOK, Taking
    PROVE  /\ messages \in Seq(Posts) /\ Head(messages) = First
           /\ First \in Posts /\ First.service \in 1 .. created
           /\ First.service \in Services
           /\ \A M : Occurs(messages, M) <=> First \in M \/ Occurs(Tail(messages), M)
<1>1. messages \in Seq(Posts) /\ messages # << >> /\ Head(messages) = First
  BY DEF TypeOK, Taking, First
<1>2. ASSUME NEW M
      PROVE  Occurs(messages, M) <=> First \in M \/ Occurs(Tail(messages), M)
  BY <1>1, OccursInTail
<1> QED BY <1>1, <1>2 DEF Taking

(* A service has a request while its completion waits to be handled. *)
LEMMA FinishingIs ==
    ASSUME TypeOK, Handlers, Answers, Finishing
    PROVE  /\ First \in Done(First.service)
           /\ service[First.service].running # None
           /\ service[First.service].bridge # NoBridge
<1>1. Taking /\ First.what = "done"
  BY DEF Finishing
<1>2. First \in Done(First.service) /\ First.service \in Services
  BY <1>1, TakingIs DEF Done
<1>3. Occurs(messages, Done(First.service))
  BY <1>1, <1>2, TakingIs
<1> QED BY <1>2, <1>3 DEF Answers, Handlers

(* No one but the alarms and the activity creates services. *)
LEMMA CreatedKept ==
    ASSUME TypeOK, Bridges, Created, Handlers, Answers, Step
    PROVE  Created'
<1>1. /\ \A s \in Services : s \in Nat
      /\ created \in Nat /\ alarms \in Nat /\ bound \in Nat
      /\ bound # 0 => bound \in 1 .. created
      /\ DOMAIN service = Services
  BY ServiceTypes, Bounds DEF Services
<1>2. /\ created <= IF bound = 0 THEN alarms ELSE alarms + 1
      /\ \A s \in Services : s > created =>
            service[s].bridge = NoBridge /\ service[s].running = None
  BY DEF Created
<1>3. Listening \subseteq 1 .. created
  BY DEF TypeOK
<1>4. ASSUME created' = created, bound' = bound, alarms' \in {alarms, alarms + 1},
             \A s \in Services : s > created =>
                service'[s].bridge = service[s].bridge
                /\ service'[s].running = service[s].running
      PROVE  Created'
  <2>1. created' <= IF bound' = 0 THEN alarms' ELSE alarms' + 1
    <3>1. CASE bound = 0
      <4>1. created <= alarms /\ (alarms' = alarms \/ alarms' = alarms + 1)
        BY <1>2, <1>4, <3>1
      <4>2. created' <= alarms'
        BY <1>1, <1>4, <4>1
      <4> QED BY <1>4, <3>1, <4>2
    <3>2. CASE bound # 0
      <4>1. created <= alarms + 1 /\ (alarms' = alarms \/ alarms' = alarms + 1)
        BY <1>2, <1>4, <3>2
      <4>2. created' <= alarms' + 1
        BY <1>1, <1>4, <4>1
      <4> QED BY <1>4, <3>2, <4>2
    <3> QED BY <3>1, <3>2
  <2>2. \A s \in Services : s > created' =>
           service'[s].bridge = NoBridge /\ service'[s].running = None
    BY <1>2, <1>4
  <2> QED BY <2>1, <2>2 DEF Created
<1>5. ASSUME created' = created, bound' = bound, alarms' \in {alarms, alarms + 1},
             NEW u \in 1 .. created, Only(u)
      PROVE  Created'
  BY <1>1, <1>4, <1>5 DEF Only
<1>6. ASSUME created' = created, bound' = bound, alarms' \in {alarms, alarms + 1},
             service' = service
      PROVE  Created'
  BY <1>4, <1>6
<1>7. CASE Dies
  BY <1>6, <1>7 DEF Dies
<1>8. CASE Opening
  <2>1. /\ created' = created + 1 /\ bound' = created + 1 /\ bound = 0 /\ alarms' = alarms
        /\ \A s \in Services : s > created + 1 => service'[s] = service[s]
    BY <1>1, <1>8 DEF Opening
  <2> QED BY <1>1, <1>2, <2>1 DEF Created
<1>9. CASE Connecting
  BY <1>5, <1>9 DEF Connecting
<1>10. CASE Requested
  BY <1>5, <1>10 DEF Requested
<1>11. CASE \E s \in Services : Summoning(s)
  <2>1. PICK s \in Services : Summoning(s)
    BY <1>11
  <2>2. /\ alarms' = alarms + 1 /\ bound' = bound /\ Only(s)
        /\ created' = IF bound # 0 THEN created ELSE created + 1
        /\ s = IF bound # 0 THEN bound ELSE created + 1
    BY <2>1 DEF Summoning
  <2>3. s <= created' /\ created' >= created /\ created' \in Nat
    BY <1>1, <2>2
  <2>4. \A u \in Services : u > created' => service'[u] = service[u]
    BY <1>1, <2>2, <2>3 DEF Only
  <2> QED BY <1>1, <1>2, <2>2, <2>3, <2>4 DEF Created
<1>12. CASE Letting
  BY <1>6, <1>12 DEF Letting
<1>13. CASE Looking
  BY <1>6, <1>13 DEF Looking
<1>14. CASE Telling
  BY <1>6, <1>14 DEF Telling, Taking
<1>15. CASE Alarmed
  BY <1>5, <1>6, <1>15 DEF Alarmed, Taking
<1>16. CASE Finishing
  BY <1>5, <1>16 DEF Finishing, Taking
<1>17. CASE Mentioning
  BY <1>6, <1>17 DEF Mentioning, Posting
<1>18. CASE Arriving
  BY <1>1, <1>3, <1>4, <1>18 DEF Arriving, Posting
<1>19. CASE Losing
  BY <1>4, <1>19 DEF Losing, Posting, Keeps
<1>20. CASE Resuming
  BY <1>4, <1>20 DEF Resuming, Posting, Keeps
<1>21. CASE \E s \in Services : Answering(s)
  BY <1>6, <1>21 DEF Answering
<1> QED BY <1>7, <1>8, <1>9, <1>10, <1>11, <1>12, <1>13, <1>14, <1>15, <1>16, <1>17,
           <1>18, <1>19, <1>20, <1>21 DEF Step

\* What Handlers says of a service whose fields are r, and which listens or not.
Handled(r, listens) ==
    /\ listens => r.handler # None
    /\ r.handler = Screen => r.listener # "none"
    /\ r.running # None => r.bridge # NoBridge

(* Whoever has the handler is known before it is needed. *)
LEMMA HandlersKept ==
    ASSUME TypeOK, Bridges, Created, Handlers, Answers, Step
    PROVE  Handlers'
<1>1. /\ \A s \in Services : s \in Nat
      /\ created \in Nat /\ alarms \in Nat /\ bound \in Nat
      /\ bound # 0 => bound \in 1 .. created /\ bound \in Services
      /\ DOMAIN service = Services
  BY ServiceTypes, Bounds DEF Services
<1>2. \A s \in Services : Handled(service[s], s \in Listening)
  BY DEF Handlers, Handled
<1>3. /\ system.service => bound # 0 /\ service[bound].listener # "none"
      /\ system.screen # "new" => system.service
  BY DEF Handlers
<1>4. Listening \subseteq 1 .. created /\ Screen # None /\ sdk.made \in Nat /\ NoBridge = 0
  BY BridgeTypes DEF TypeOK, Screen, None, NoBridge
<1>5. ASSUME \A s \in Services : Handled(service'[s], s \in Listening'),
             system'.service => bound' # 0 /\ service'[bound'].listener # "none",
             system'.screen # "new" => system'.service
      PROVE  Handlers'
  BY <1>5 DEF Handlers, Handled
<1>6. ASSUME service' = service, bound' = bound, Listening' \subseteq Listening,
             system'.service = system.service, system'.screen # "new" => system'.service
      PROVE  Handlers'
  BY <1>2, <1>3, <1>5, <1>6 DEF Handled
<1>7. ASSUME NEW u \in Services, Only(u), Handled(service'[u], u \in Listening'),
             bound' = bound, Listening' \subseteq Listening \cup {u},
             u = bound /\ system.service => service'[u].listener # "none",
             system'.service => bound # 0 /\ service'[bound].listener # "none",
             system'.screen # "new" => system'.service
      PROVE  Handlers'
  BY <1>2, <1>5, <1>7 DEF Handled, Only
<1>8. ASSUME \A s \in Services :
                /\ service'[s].handler = service[s].handler
                /\ service'[s].listener = service[s].listener
                /\ service'[s].running = service[s].running
                /\ service[s].bridge # NoBridge => service'[s].bridge # NoBridge,
             bound' = bound, system' = system, Listening' = Listening
      PROVE  Handlers'
  BY <1>1, <1>2, <1>3, <1>5, <1>8 DEF Handled
<1>9. CASE Dies
  BY <1>3, <1>6, <1>9 DEF Dies, Listening
<1>10. CASE Opening
  <2>1. /\ bound = 0 /\ system' = system /\ Listening' = Listening
        /\ service' = [service EXCEPT ![created + 1] = NewService]
        /\ created + 1 \in Services
    BY <1>10 DEF Opening, Listening
  <2>2. service'[created + 1] = NewService
        /\ \A s \in Services : s # created + 1 => service'[s] = service[s]
    BY <1>1, <2>1
  <2>3. created + 1 \notin Listening
    BY <1>1, <1>4
  <2>4. Handled(NewService, created + 1 \in Listening)
    BY <1>4, <2>3, Fresh DEF Handled
  <2> QED BY <1>2, <1>3, <1>5, <2>1, <2>2, <2>4
<1>11. CASE Connecting
  <2>1. Handled(service[bound], bound \in Listening)
    BY <1>2, <1>11 DEF Connecting
  <2>2. Handled(service'[bound], bound \in Listening')
    BY <1>4, <1>11, <2>1 DEF Connecting, Handled
  <2> QED BY <1>1, <1>3, <1>7, <1>11, <2>2 DEF Connecting
<1>12. CASE Requested
  <2>1. Handled(service[bound], bound \in Listening) /\ Listening' = Listening
    BY <1>2, <1>12 DEF Requested, Listening
  <2>2. Handled(service'[bound], bound \in Listening')
    BY <1>12, <2>1 DEF Requested, Handled
  <2> QED BY <1>3, <1>7, <1>12, <2>1, <2>2 DEF Requested
<1>13. CASE \E s \in Services : Summoning(s)
  <2>1. PICK s \in Services : Summoning(s)
    BY <1>13
  <2>2. Handled(service[s], s \in Listening)
    BY <1>2
  <2>3. Handled(service'[s], s \in Listening')
    <3>1. service'[s].handler # None /\ service'[s].handler # Screen
      <4>1. service'[s].handler > 0
        BY <2>1 DEF Summoning, Screen
      <4>2. ~(-1 > 0) /\ ~(0 > 0)
        OBVIOUS
      <4> QED BY <4>1, <4>2 DEF None, Screen
    <3> QED BY <2>1, <2>2, <3>1 DEF Summoning, Handled
  <2> QED BY <1>1, <1>3, <1>7, <2>1, <2>3 DEF Summoning
<1>14. CASE Letting
  BY <1>3, <1>6, <1>14 DEF Letting, Unplug
<1>15. CASE Looking
  BY <1>6, <1>15 DEF Looking, Listening
<1>16. CASE Telling
  BY <1>3, <1>6, <1>16 DEF Telling, Taking, Listening
<1>17. CASE Alarmed
  <2> DEFINE u == First.service
  <2>1. u \in Services /\ Handled(service[u], u \in Listening) /\ Listening' = Listening
    BY <1>2, <1>17 DEF Alarmed, Taking, Listening
  <2>2. system' = system /\ bound' = bound
    BY <1>17 DEF Alarmed, Taking
  <2>3. CASE service' = service
    BY <1>3, <1>6, <2>1, <2>2, <2>3
  <2>4. CASE /\ Only(u) /\ service[u].bridge # NoBridge
             /\ service'[u].handler = service[u].handler
             /\ service'[u].listener = "disconnect"
             /\ service'[u].bridge = service[u].bridge
    <3>1. Handled(service'[u], u \in Listening')
      BY <2>1, <2>4 DEF Handled
    <3>2. system'.service => bound # 0 /\ service'[bound].listener # "none"
      BY <1>1, <1>3, <2>2, <2>4 DEF Only
    <3> HIDE DEF u
    <3> QED BY <1>3, <1>7, <2>1, <2>2, <2>4, <3>1, <3>2
  <2> QED BY <1>17, <2>3, <2>4 DEF Alarmed
<1>18. CASE Finishing
  <2> DEFINE u == First.service
  <2>1. /\ u \in Services /\ Only(u) /\ service[u].bridge # NoBridge
        /\ service[u].listener # "none"
        /\ service'[u].handler = service[u].handler
        /\ service'[u].listener = service[u].listener
        /\ service'[u].bridge = service[u].bridge
        /\ system' = system /\ bound' = bound
    BY <1>18, FinishingIs DEF Finishing, Taking
  <2>2. Listening' \subseteq Listening
    BY <1>18 DEF Finishing, Unplug, Listening
  <2> HIDE DEF u
  <2>3. Handled(service'[u], u \in Listening')
    BY <1>2, <2>1, <2>2 DEF Handled
  <2>4. system'.service => bound # 0 /\ service'[bound].listener # "none"
    BY <1>1, <1>3, <2>1 DEF Only
  <2> QED BY <1>3, <1>7, <2>1, <2>2, <2>3, <2>4
<1>19. CASE Mentioning
  BY <1>3, <1>6, <1>19 DEF Mentioning, Posting
<1>20. CASE Arriving
  BY <1>4, <1>8, <1>20 DEF Arriving, Posting
<1>21. CASE Losing
  BY <1>8, <1>21 DEF Losing, Posting, Keeps
<1>22. CASE Resuming
  BY <1>8, <1>22 DEF Resuming, Posting, Keeps
<1>23. CASE \E s \in Services : Answering(s)
  BY <1>3, <1>6, <1>23 DEF Answering, Listening
<1> QED BY <1>9, <1>10, <1>11, <1>12, <1>13, <1>14, <1>15, <1>16, <1>17, <1>18, <1>19,
           <1>20, <1>21, <1>22, <1>23 DEF Step

(* A bridge is made by a new connection only, and a service keeps what it has. *)
LEMMA BridgesStay ==
    ASSUME TypeOK, Bridges, Created, Step
    PROVE  /\ sdk'.made = sdk.made \/ Arriving
           /\ sdk'.made >= sdk.made
           /\ \A s \in 1 .. created : /\ s \in Services /\ s \in 1 .. created'
                                      /\ service[s].bridge # NoBridge =>
                                            service'[s].bridge # NoBridge
<1>1. sdk.made \in Nat /\ created \in Nat /\ DOMAIN service = Services
      /\ \A s \in 1 .. created : s \in Services
  BY BridgeTypes, ServiceTypes
<1>2. \A s \in 1 .. created : s \in 1 .. created'
  BY <1>1, CountsKept
<1>3. sdk'.made = sdk.made \/ Arriving
  BY DEF Step, Dies, Opening, Connecting, Requested, Summoning, SameBridges, Letting, Unplug,
         Looking, Telling, Alarmed, Finishing, Mentioning, Losing, Resuming, Answering
<1>4. sdk'.made >= sdk.made
  BY <1>1, <1>3 DEF Arriving
<1>5. ASSUME NEW s \in 1 .. created, service[s].bridge # NoBridge
      PROVE  service'[s].bridge # NoBridge
  <2>1. s \in Services /\ s # created + 1
    BY <1>1
  <2>2. CASE Opening
    <3>1. service' = [service EXCEPT ![created + 1] = NewService]
      BY <2>2 DEF Opening
    <3> QED BY <1>1, <1>5, <2>1, <3>1
  <2>3. CASE Arriving
    <3>1. service'[s].bridge = IF s \in Listening THEN sdk.made + 1 ELSE service[s].bridge
      BY <2>1, <2>3 DEF Arriving
    <3> QED BY <1>1, <1>5, <3>1 DEF NoBridge
  <2>4. CASE ~Opening /\ ~Arriving
    <3>1. service'[s].bridge = service[s].bridge
      BY <2>1, <2>4 DEF Step, Dies, Connecting, Requested, Summoning, Only, Letting, Looking,
             Telling, Alarmed, Finishing, Mentioning, Losing, Resuming, Keeps, Answering
    <3> QED BY <1>5, <3>1
  <2> QED BY <2>2, <2>3, <2>4
<1> QED BY <1>1, <1>2, <1>3, <1>4, <1>5

(* What is posted is of one kind, to the handlers of those that listen. *)
LEMMA PostedIs ==
    ASSUME TypeOK, NEW t, NEW what, what \in {"none", "network", "notify"},
           Notified(t, what)
    PROVE  /\ messages \in Seq(Posts) /\ t \in Seq(Posts)
           /\ \A M : Occurs(messages \o t, M) <=> Occurs(messages, M) \/ Occurs(t, M)
           /\ \A M : Occurs(t, M) => \E m \in M :
                 /\ m \in Posts /\ m.what = what /\ m.service \in Listening
                 /\ m.to = service[m.service].handler
           /\ \A s : ~Occurs(t, Done(s))
<1>1. messages \in Seq(Posts) /\ t \in Seq(Posts)
  BY DEF TypeOK, Notified
<1>2. \A M : Occurs(messages \o t, M) <=> Occurs(messages, M) \/ Occurs(t, M)
  BY <1>1, OccursInConcat
<1>3. ASSUME NEW M, Occurs(t, M)
      PROVE  \E m \in M : /\ m \in Posts /\ m.what = what /\ m.service \in Listening
                          /\ m.to = service[m.service].handler
  <2>1. PICK i \in 1 .. Len(t) : t[i] \in M
    BY <1>3 DEF Occurs
  <2>2. /\ t[i] \in Posts /\ t[i].what = what /\ t[i].service \in Listening
        /\ t[i].to = service[t[i].service].handler
    BY <1>1, <2>1 DEF Notified
  <2> QED BY <2>1, <2>2
<1>4. ASSUME NEW s PROVE ~Occurs(t, Done(s))
  BY <1>3 DEF Done
<1> QED BY <1>1, <1>2, <1>3, <1>4

(* An online screen, and the news of a bridge, come from a bridge that some service
   has. *)
LEMMA ReachedKept ==
    ASSUME TypeOK, Bridges, Created, Handlers, Answers, Reached, Step
    PROVE  Reached'
<1>1. /\ sdk.made \in Nat /\ sdk'.made \in Nat /\ sdk'.made >= sdk.made
      /\ sdk'.made = sdk.made \/ Arriving
      /\ sdk.bridges \cup sdk.beating \subseteq 1 .. sdk.made
  BY BridgeTypes, BridgesStay DEF Arriving
<1>2. sdk.made > 0 => sdk'.made > 0
  BY <1>1
<1>3. Occurs(messages', Good) => sdk'.made > 0
  <2>1. CASE UNCHANGED messages
    BY <1>2, <2>1 DEF Reached
  <2>2. CASE messages # << >> /\ messages' = Tail(messages)
    BY <1>2, <2>2, OccursInTail DEF Reached, TypeOK
  <2>3. CASE \E t, what : Posting(t, what) /\ what \in {"none", "network", "notify"}
    <3>1. CASE sdk.made > 0
      BY <1>2, <3>1
    <3>2. CASE Arriving
      BY <1>1, <3>2 DEF Arriving
    <3>3. CASE ~(sdk.made > 0) /\ ~Arriving
      <4>1. sdk.beating = {} /\ sdk.bridges = {}
        BY <1>1, <3>3
      <4>2. PICK t, what : Posting(t, what) /\ what \in {"none", "network", "notify"}
        BY <2>3
      <4>3. CASE Mentioning
        <5>1. PICK u, w : /\ Posting(u, w)
                          /\ w \in {"none", "network", "notify"}
                          /\ w = "none" => sdk.bridges # {} /\ sdk.made > 0
          BY <4>3 DEF Mentioning
        <5>2. w # "none" /\ messages' = messages \o u /\ Notified(u, w)
          BY <3>3, <5>1 DEF Posting
        <5>3. ~Occurs(u, Good)
          BY <5>1, <5>2, PostedIs DEF Good
        <5>4. ~Occurs(messages, Good)
          BY <3>3 DEF Reached
        <5> QED BY <5>1, <5>2, <5>3, <5>4, PostedIs
      <4>4. CASE ~Mentioning
        <5>1. UNCHANGED messages \/ (messages' = Tail(messages) /\ messages # << >>)
              \/ \E s \in Services : Answering(s)
          BY <3>3, <4>1, <4>4 DEF Step, Dies, Opening, Connecting, Requested, Summoning,
             Letting, Looking, Telling, Alarmed, Finishing, Taking, Losing, Resuming
        <5>2. CASE \E s \in Services : Answering(s)
          <6>1. PICK s \in Services : \E e \in Done(s) : messages' = Append(messages, e)
            BY <5>2 DEF Answering
          <6>2. ~Occurs(messages, Good) /\ \A e \in Done(s) : e \notin Good
            BY <3>3 DEF Reached, Good, Done
          <6>3. ~Occurs(messages', Good)
            BY <6>1, <6>2, OccursInAppend DEF TypeOK
          <6> QED BY <6>3
        <5> QED BY <2>1, <2>2, <5>1, <5>2
      <4> QED BY <4>3, <4>4
    <3> QED BY <3>1, <3>2, <3>3
  <2>4. CASE \E s \in Services : Answering(s)
    <3>1. PICK s \in Services : \E e \in Done(s) : messages' = Append(messages, e)
      BY <2>4 DEF Answering
    <3>2. \A e \in Done(s) : e \notin Good
      BY DEF Good, Done
    <3>3. Occurs(messages', Good) => Occurs(messages, Good)
      BY <3>1, <3>2, OccursInAppend DEF TypeOK
    <3> QED BY <1>2, <3>3 DEF Reached
  <2> QED BY <2>1, <2>2, <2>3, <2>4, Queueing
<1>4. system'.status = "online" => sdk'.made > 0
  <2>1. CASE Telling
    <3>1. ASSUME system'.status = "online" PROVE First \in Good
      <4>1. First.what = "none" /\ First \in Posts
        BY <2>1, <3>1 DEF Telling, Taking, StatusOf
      <4> QED BY <4>1 DEF Good
    <3>2. First \in Good => Occurs(messages, Good)
      BY <2>1, TakingIs DEF Telling
    <3> QED BY <1>2, <3>1, <3>2 DEF Reached
  <2>2. CASE ~Telling
    <3>1. system'.status = system.status
      BY <2>2 DEF Step, Dies, Opening, Connecting, Requested, Summoning, Letting, Looking,
             Alarmed, Finishing, Mentioning, Arriving, Losing, Resuming, Posting, Answering
    <3> QED BY <1>2, <3>1 DEF Reached
  <2> QED BY <2>1, <2>2
<1>5. ASSUME sdk'.made > 0
      PROVE  \E s \in 1 .. created' : service'[s].bridge # NoBridge
  <2>1. CASE sdk.made > 0
    <3>1. PICK s \in 1 .. created : service[s].bridge # NoBridge
      BY <2>1 DEF Reached
    <3> QED BY <3>1, BridgesStay
  <2>2. CASE ~(sdk.made > 0)
    <3>1. Arriving
      BY <1>1, <1>5, <2>2
    <3>2. sdk.listeners # << >>
      <4>1. sdk.threads > 0 /\ sdk.threads # 0
        BY <3>1 DEF Arriving
      <4> QED BY <2>2, <4>1 DEF Bridges, Heeded
    <3>3. 1 \in DOMAIN sdk.listeners
      BY <3>2, Listeners
    <3>4. PICK s : s \in Listening /\ s \in 1 .. created /\ s \in Services
      BY <3>3, Listeners DEF TypeOK
    <3>5. service'[s].bridge = sdk.made + 1
      BY <3>1, <3>4 DEF Arriving
    <3>6. service'[s].bridge # NoBridge
      BY <1>1, <3>5 DEF NoBridge
    <3> QED BY <3>4, <3>6, BridgesStay
  <2> QED BY <2>1, <2>2
<1> QED BY <1>3, <1>4, <1>5 DEF Reached

\* What Answers says of a service s whose fields are r, with the messages q.
Answered(r, q, s) ==
    /\ Occurs(q, Done(s)) => r.running # None
    /\ OccursOnce(q, Done(s))
    /\ r.listener = "none" /\ r.bridge # NoBridge => HeadedBy(q, GoodFor(s), Done(s))

(* A message taken off leaves the rest of a service's, if it was not its own. *)
LEMMA AnsweredInTail ==
    ASSUME NEW q \in Seq(Posts), q # << >>, NEW r, NEW s, Answered(r, q, s)
    PROVE  /\ Head(q) \notin GoodFor(s) => Answered(r, Tail(q), s)
           /\ OccursOnce(Tail(q), Done(s))
           /\ Occurs(Tail(q), Done(s)) => r.running # None /\ Head(q) \notin Done(s)
<1>1. /\ OccursOnce(Tail(q), Done(s))
      /\ Occurs(Tail(q), Done(s)) => Occurs(q, Done(s)) /\ Head(q) \notin Done(s)
  BY OccursInTail DEF Answered
<1>2. ASSUME HeadedBy(q, GoodFor(s), Done(s)), Head(q) \notin GoodFor(s)
      PROVE  HeadedBy(Tail(q), GoodFor(s), Done(s))
  BY <1>2, HeadedInTail
<1> QED BY <1>1, <1>2 DEF Answered

(* What listeners post completes no request. *)
LEMMA AnsweredInConcat ==
    ASSUME TypeOK, NEW t, NEW what, what \in {"none", "network", "notify"},
           Notified(t, what), NEW r, NEW s, Answered(r, messages, s)
    PROVE  Answered(r, messages \o t, s)
<1>1. /\ messages \in Seq(Posts) /\ t \in Seq(Posts) /\ ~Occurs(t, Done(s))
      /\ Occurs(messages \o t, Done(s)) => Occurs(messages, Done(s))
  BY PostedIs
<1>2. OccursOnce(messages \o t, Done(s))
  BY <1>1, OccursInConcat DEF Answered
<1>3. HeadedBy(messages, GoodFor(s), Done(s)) => HeadedBy(messages \o t, GoodFor(s), Done(s))
  BY <1>1, HeadedInConcat
<1> QED BY <1>1, <1>2, <1>3 DEF Answered

(* Whoever has a service's request completed is there by then. *)
LEMMA AnswersKept ==
    ASSUME TypeOK, Bridges, Created, Handlers, Answers, Step
    PROVE  Answers'
<1> SUFFICES ASSUME NEW s \in Services
             PROVE  Answered(service'[s], messages', s)
  BY DEF Answers, Answered
<1>1. Answered(service[s], messages, s)
  BY DEF Answers, Answered
<1>2. /\ messages \in Seq(Posts) /\ DOMAIN service = Services /\ created \in Nat
      /\ bound # 0 => bound \in 1 .. created
      /\ s \in Nat /\ service[s] \in LightServices
  BY ServiceTypes, Bounds DEF TypeOK, Services
<1>3. /\ s \in Listening => service[s].handler # None
      /\ service[s].handler = Screen => service[s].listener # "none"
      /\ service[s].running # None => service[s].bridge # NoBridge
      /\ s > created => service[s].bridge = NoBridge /\ service[s].running = None
  BY DEF Handlers, Created
<1>4. ASSUME service'[s].listener = service[s].listener,
             service'[s].bridge = service[s].bridge,
             service'[s].running = service[s].running \/ service'[s].running # None
      PROVE  \A q : Answered(service[s], q, s) => Answered(service'[s], q, s)
  BY <1>4 DEF Answered
<1>5. CASE Dies \/ Letting \/ Looking
  <2>1. service' = service /\ messages' = messages
    BY <1>5 DEF Dies, Letting, Looking
  <2> QED BY <1>1, <2>1
<1>6. CASE Opening
  <2>1. /\ service' = [service EXCEPT ![created + 1] = NewService] /\ messages' = messages
        /\ created + 1 \in Services
    BY <1>6 DEF Opening
  <2>2. CASE s = created + 1
    <3>1. service'[s] = NewService /\ service[s].running = None
      BY <1>2, <1>3, <2>1, <2>2
    <3>2. ~Occurs(messages, Done(s)) /\ NewService.bridge = NoBridge
      BY <1>1, <3>1, Fresh DEF Answered
    <3> QED BY <1>1, <2>1, <3>1, <3>2 DEF Answered
  <2>3. CASE s # created + 1
    BY <1>1, <1>2, <2>1, <2>3
  <2> QED BY <2>2, <2>3
<1>7. CASE Connecting
  <2>1. messages' = messages /\ (s # bound => service'[s] = service[s])
    BY <1>7 DEF Connecting, Only
  <2>2. s = bound => /\ service'[s].listener # "none"
                     /\ service'[s].running = service[s].running
    BY <1>7 DEF Connecting
  <2> QED BY <1>1, <2>1, <2>2 DEF Answered
<1>8. CASE Requested
  <2>1. messages' = messages /\ (s # bound => service'[s] = service[s])
    BY <1>8 DEF Requested, Only
  <2>2. s = bound => /\ service'[s].listener = service[s].listener
                     /\ service'[s].bridge = service[s].bridge
                     /\ service'[s].running # None
    BY <1>8 DEF Requested
  <2> QED BY <1>1, <1>4, <2>1, <2>2
<1>9. CASE \E u \in Services : Summoning(u)
  <2>1. PICK u \in Services : Summoning(u)
    BY <1>9
  <2>2. messages' = messages /\ (s # u => service'[s] = service[s])
    BY <2>1 DEF Summoning, Only
  <2>3. s = u => /\ bound # 0 => service'[s].listener = service[s].listener
                 /\ service'[s].bridge = service[s].bridge
                 /\ service'[s].running = service[s].running
    BY <2>1 DEF Summoning
  <2>4. s = u /\ bound = 0 => service[s].bridge = NoBridge
    <3>1. s = u /\ bound = 0 => s = created + 1
      BY <2>1 DEF Summoning
    <3> QED BY <1>2, <1>3, <3>1
  <2> QED BY <1>1, <1>4, <2>2, <2>3, <2>4 DEF Answered
<1>10. CASE Telling
  <2>1. /\ messages # << >> /\ messages' = Tail(messages) /\ service' = service
        /\ Head(messages).to = Screen
    BY <1>10 DEF Telling, Taking, First
  <2>2. Head(messages) \notin GoodFor(s)
    <3>1. ~(0 > 0)
      OBVIOUS
    <3> QED BY <2>1, <3>1 DEF GoodFor, Screen
  <2> QED BY <1>1, <1>2, <2>1, <2>2, AnsweredInTail
<1>11. CASE Alarmed
  <2>1. /\ messages # << >> /\ messages' = Tail(messages) /\ First = Head(messages)
        /\ First.what # "done"
    BY <1>11 DEF Alarmed, Taking, First
  <2>2. CASE First.what # "none"
    <3>1. service' = service /\ Head(messages) \notin GoodFor(s)
      BY <1>11, <2>1, <2>2 DEF Alarmed, GoodFor, Good
    <3> QED BY <1>1, <1>2, <2>1, <3>1, AnsweredInTail
  <2>3. CASE First.what = "none" /\ First.service # s
    <3>1. service'[s] = service[s] /\ Head(messages) \notin GoodFor(s)
      BY <1>11, <2>1, <2>3 DEF Alarmed, GoodFor, Only
    <3> QED BY <1>1, <1>2, <2>1, <3>1, AnsweredInTail
  <2>4. CASE First.what = "none" /\ First.service = s
    <3>1. service'[s].listener = "disconnect" /\ service'[s].running # None
      BY <1>11, <2>4 DEF Alarmed
    <3>2. OccursOnce(Tail(messages), Done(s))
      BY <1>1, <1>2, <2>1, AnsweredInTail
    <3> QED BY <2>1, <3>1, <3>2 DEF Answered
  <2> QED BY <2>2, <2>3, <2>4
<1>12. CASE Finishing
  <2>1. /\ messages # << >> /\ messages' = Tail(messages) /\ First = Head(messages)
        /\ First.what = "done" /\ First \in Done(First.service)
    BY <1>12, FinishingIs DEF Finishing, Taking, First
  <2>2. CASE First.service # s
    <3>1. service'[s] = service[s] /\ Head(messages) \notin GoodFor(s)
      BY <1>12, <2>1, <2>2 DEF Finishing, GoodFor, Only
    <3> QED BY <1>1, <1>2, <2>1, <3>1, AnsweredInTail
  <2>3. CASE First.service = s
    <3>1. service'[s].listener # "none"
      BY <1>12, <2>3 DEF Finishing
    <3>2. OccursOnce(Tail(messages), Done(s)) /\ ~Occurs(Tail(messages), Done(s))
      BY <1>1, <1>2, <2>1, <2>3, AnsweredInTail
    <3> QED BY <2>1, <3>1, <3>2 DEF Answered
  <2> QED BY <2>2, <2>3
<1>13. CASE Mentioning
  <2>1. PICK t, what : /\ Posting(t, what) /\ what \in {"none", "network", "notify"}
                       /\ UNCHANGED service
    BY <1>13 DEF Mentioning
  <2> QED BY <1>1, <2>1, AnsweredInConcat DEF Posting
<1>14. CASE Losing \/ Resuming
  <2>1. PICK t, what : Posting(t, what) /\ what \in {"none", "network"}
    BY <1>14 DEF Losing, Resuming
  <2>2. Keeps(s)
    BY <1>14 DEF Losing, Resuming
  <2>3. Answered(service[s], messages', s)
    BY <1>1, <2>1, AnsweredInConcat DEF Posting
  <2> QED BY <1>4, <2>2, <2>3 DEF Keeps
<1>15. CASE Arriving
  <2>1. PICK t : Posting(t, "none") /\ Everyone(t)
    BY <1>15 DEF Arriving
  <2>2. /\ service'[s].listener = service[s].listener
        /\ service'[s].running = service[s].running
        /\ service'[s].bridge = IF s \in Listening THEN sdk.made + 1 ELSE service[s].bridge
    BY <1>15 DEF Arriving
  <2>3. Answered(service[s], messages', s)
    BY <1>1, <2>1, AnsweredInConcat DEF Posting
  <2>4. CASE service[s].bridge # NoBridge \/ s \notin Listening
    BY <2>2, <2>3, <2>4 DEF Answered
  <2>5. CASE service[s].listener # "none"
    BY <2>2, <2>3, <2>5 DEF Answered
  <2>6. CASE service[s].bridge = NoBridge /\ s \in Listening /\ service[s].listener = "none"
    <3>1. messages' = messages \o t /\ t \in Seq(Posts)
      BY <2>1 DEF Posting, Notified
    <3>2. ~Occurs(messages, Done(s)) /\ ~Occurs(t, Done(s))
      <4>1. service[s].running = None
        BY <1>3, <2>6
      <4> QED BY <1>1, <2>1, <4>1, PostedIs DEF Answered, Posting
    <3>3. Occurs(t, GoodFor(s))
      <4>1. PICK i \in 1 .. Len(t) : t[i].service = s
        BY <2>1, <2>6 DEF Everyone
      <4>2. t[i] \in Posts /\ t[i].what = "none" /\ t[i].to = service[s].handler
        BY <2>1, <3>1, <4>1 DEF Posting, Notified
      <4>3. service[s].handler > Screen
        <5>1. /\ service[s].handler \in -1 .. MaxAlarms
              /\ service[s].handler # -1 /\ service[s].handler # 0
          BY <1>2, <1>3, <2>6 DEF LightServices, Clients, None, Screen
        <5> QED BY <5>1, Bounds DEF Screen
      <4> QED BY <4>1, <4>2, <4>3 DEF Occurs, GoodFor, Good
    <3>4. HeadedBy(messages', GoodFor(s), Done(s))
      BY <1>2, <3>1, <3>2, <3>3, HeadedInConcat
    <3> QED BY <2>2, <2>3, <3>4 DEF Answered
  <2> QED BY <2>4, <2>5, <2>6
<1>16. CASE \E u \in Services : Answering(u)
  <2>1. PICK u \in Services : Answering(u)
    BY <1>16
  <2>2. PICK e \in Done(u) : messages' = Append(messages, e)
    BY <2>1 DEF Answering
  <2>3. service' = service /\ service[u].running # None /\ ~Occurs(messages, Done(u))
    BY <2>1 DEF Answering
  <2>4. e \in Done(s) <=> s = u
    BY <2>2 DEF Done
  <2>5. Occurs(messages', Done(s)) => service[s].running # None
    BY <1>1, <1>2, <2>2, <2>3, <2>4, OccursInAppend DEF Answered
  <2>6. OccursOnce(messages', Done(s))
    BY <1>1, <1>2, <2>2, <2>3, <2>4, OccursInAppend DEF Answered
  <2>7. HeadedBy(messages, GoodFor(s), Done(s)) => HeadedBy(messages', GoodFor(s), Done(s))
    <3>1. e \in Posts
      BY <2>2 DEF Done
    <3>2. messages' = messages \o <<e>> /\ <<e>> \in Seq(Posts)
      BY <1>2, <2>2, <3>1
    <3> QED BY <1>2, <3>2, HeadedInConcat
  <2> QED BY <1>1, <2>3, <2>5, <2>6, <2>7 DEF Answered
<1> QED BY <1>5, <1>6, <1>7, <1>8, <1>9, <1>10, <1>11, <1>12, <1>13, <1>14, <1>15, <1>16
        DEF Step

(* Good news and bad news that are followed stay so when one message is taken off
   that is neither. *)
LEMMA NewsInTail ==
    ASSUME NEW q \in Seq(Posts), q # << >>, FollowedBy(q, GoodNews, BadNews)
    PROVE  /\ FollowedBy(Tail(q), GoodNews, BadNews)
           /\ Head(q) \in GoodNews => Occurs(Tail(q), BadNews)
           /\ Head(q) \notin ToScreen /\ Occurs(q, BadNews) => Occurs(Tail(q), BadNews)
BY FollowedInTail, OccursInTail DEF BadNews

(* No good news is among messages of an error. *)
LEMMA NoGoodNews ==
    ASSUME TypeOK, NEW t, NEW what, what \in {"network", "notify"}, Notified(t, what),
           FollowedBy(messages, GoodNews, BadNews) \/ Occurs(t, BadNews)
    PROVE  /\ FollowedBy(messages \o t, GoodNews, BadNews)
           /\ Occurs(messages, BadNews) \/ Occurs(t, BadNews)
                 => Occurs(messages \o t, BadNews)
<1>1. ~Occurs(t, GoodNews)
  BY PostedIs DEF GoodNews, Good
<1>2. messages \in Seq(Posts) /\ t \in Seq(Posts)
  BY PostedIs
<1>3. FollowedBy(messages \o t, GoodNews, BadNews)
  BY <1>1, <1>2, FollowedInConcat
<1> QED BY <1>2, <1>3, PostedIs

(* The screen is told when the bridge goes, unless it went on purpose, or while the
   screen did not listen. *)
LEMMA UntoldKept ==
    ASSUME TypeOK, Bridges, Created, Handlers, Answers, Untold, Step
    PROVE  Untold'
<1> SUFFICES ASSUME sdk'.bridges = {}, cut' = "none"
             PROVE  /\ FollowedBy(messages', GoodNews, BadNews)
                    /\ system'.status = "online" => Occurs(messages', BadNews)
  BY DEF Untold
<1>1. messages \in Seq(Posts)
  BY DEF TypeOK
<1>2. ASSUME sdk.bridges = {}, cut = "none"
      PROVE  /\ FollowedBy(messages, GoodNews, BadNews)
             /\ system.status = "online" => Occurs(messages, BadNews)
  BY <1>2 DEF Untold
<1>3. CASE Dies \/ Opening \/ Connecting \/ Requested \/ (\E s \in Services : Summoning(s))
           \/ Letting \/ Looking
  <2>1. /\ messages' = messages /\ system'.status = system.status
        /\ sdk.bridges = {} /\ cut = "none"
    BY <1>3 DEF Dies, Opening, Connecting, Requested, Summoning, Letting, Looking,
                SameBridges, Unplug
  <2> QED BY <1>2, <2>1
<1>4. CASE Telling
  <2>1. /\ messages # << >> /\ messages' = Tail(messages) /\ First = Head(messages)
        /\ First \in ToScreen /\ sdk.bridges = {} /\ cut = "none"
        /\ system'.status = StatusOf(First.what)
    BY <1>4 DEF Telling, Taking, First, ToScreen
  <2>2. system'.status = "online" => First \in GoodNews
    BY <2>1 DEF StatusOf, GoodNews, Good, ToScreen
  <2> QED BY <1>1, <1>2, <2>1, <2>2, NewsInTail
<1>5. CASE Alarmed
  <2>1. /\ messages # << >> /\ messages' = Tail(messages) /\ First = Head(messages)
        /\ sdk.bridges = {} /\ cut = "none" /\ system' = system /\ First.to > Screen
    BY <1>5 DEF Alarmed, Taking, First
  <2>2. First \notin ToScreen
    <3>1. ~(0 > 0)
      OBVIOUS
    <3> QED BY <2>1, <3>1 DEF ToScreen, Screen
  <2> QED BY <1>1, <1>2, <2>1, <2>2, NewsInTail
<1>6. CASE Finishing
  <2>1. /\ messages # << >> /\ messages' = Tail(messages) /\ First = Head(messages)
        /\ system' = system /\ First \notin ToScreen
    BY <1>6 DEF Finishing, Taking, First, ToScreen
  <2>2. sdk.bridges = {} /\ cut = "none"
    BY <1>6 DEF Finishing, Unplug
  <2> QED BY <1>1, <1>2, <2>1, <2>2, NewsInTail
<1>7. CASE Mentioning
  <2>1. PICK t, what : /\ Posting(t, what) /\ what \in {"none", "network", "notify"}
                       /\ what = "none" => sdk.bridges # {}
                       /\ SameBridges /\ UNCHANGED cut
    BY <1>7 DEF Mentioning
  <2>2. /\ sdk.bridges = {} /\ cut = "none" /\ what \in {"network", "notify"}
        /\ messages' = messages \o t /\ system' = system /\ Notified(t, what)
    BY <2>1 DEF SameBridges, Posting
  <2> QED BY <1>2, <2>2, NoGoodNews
<1>8. CASE Arriving
  BY <1>8 DEF Arriving
<1>9. CASE Resuming
  BY <1>9 DEF Resuming
<1>10. CASE Losing
  <2>1. PICK t, b : /\ Posting(t, "network") /\ Everyone(t)
                    /\ sdk'.bridges = sdk.bridges \ {b}
                    /\ cut' = IF b \in sdk.bridges /\ ~ScreenListens THEN "deaf" ELSE cut
    BY <1>10 DEF Losing
  <2>2. /\ messages' = messages \o t /\ system' = system /\ Notified(t, "network")
        /\ t \in Seq(Posts)
    BY <2>1 DEF Posting, Notified
  <2>3. CASE b \notin sdk.bridges
    <3>1. sdk.bridges = {} /\ cut = "none"
      BY <2>1, <2>3
    <3> QED BY <1>2, <2>2, <3>1, NoGoodNews
  <2>4. CASE b \in sdk.bridges
    <3>1. bound \in Listening /\ service[bound].handler = Screen
      BY <2>1, <2>4 DEF ScreenListens
    <3>2. PICK i \in 1 .. Len(t) : t[i].service = bound
      BY <2>1, <3>1 DEF Everyone
    <3>3. t[i] \in Posts /\ t[i].to = Screen /\ t[i].what = "network"
      BY <2>2, <3>1, <3>2 DEF Notified
    <3>4. Occurs(t, BadNews)
      BY <3>2, <3>3 DEF Occurs, BadNews, ToScreen, Good
    <3> QED BY <2>2, <3>4, NoGoodNews
  <2> QED BY <2>3, <2>4
<1>11. CASE \E u \in Services : Answering(u)
  <2>1. PICK u \in Services : Answering(u)
    BY <1>11
  <2>2. PICK e \in Done(u) : messages' = Append(messages, e)
    BY <2>1 DEF Answering
  <2>3. e \notin GoodNews /\ sdk.bridges = {} /\ cut = "none" /\ system' = system
    BY <2>1, <2>2 DEF Answering, Done, GoodNews, ToScreen
  <2>4. FollowedBy(messages', GoodNews, BadNews)
    BY <1>1, <1>2, <2>2, <2>3, FollowedInAppend
  <2>5. Occurs(messages, BadNews) => Occurs(messages', BadNews)
    BY <1>1, <2>2, OccursInAppend
  <2> QED BY <1>2, <2>3, <2>4, <2>5
<1> QED BY <1>3, <1>4, <1>5, <1>6, <1>7, <1>8, <1>9, <1>10, <1>11 DEF Step

(* A disconnection leaves nothing of a bridge that is the only one there has been. *)
LEMMA UnpluggedIsGone ==
    ASSUME TypeOK, Unplug, sdk'.made = 1
    PROVE  sdk'.bridges \cup sdk'.beating = {}
<1>1. sdk.made = 1 /\ sdk.bridges \cup sdk.beating \subseteq 1 .. 1
  BY DEF TypeOK, Unplug
<1>2. /\ sdk'.bridges = sdk.bridges \ {1} /\ sdk'.beating = sdk.beating \ {1}
  BY <1>1 DEF Unplug
<1>3. 1 .. 1 = {1}
  OBVIOUS
<1> QED BY <1>1, <1>2, <1>3

\* An answer waits in q, or a request is under way.
Pending(q) == Occurs(q, Answer) \/ \E s \in Services : service[s].running # None

(* Without an activity, the alarms' services go on until they disconnect. *)
LEMMA NoActivityKept ==
    ASSUME TypeOK, Bridges, Created, Handlers, Answers, NoActivity, Step, Alive
    PROVE  NoActivity'
<1>1. /\ messages \in Seq(Posts) /\ created \in Nat /\ bound \in Nat /\ sdk.made \in Nat
      /\ sdk.bridges \cup sdk.beating \subseteq 1 .. sdk.made
      /\ \A s \in Services : s \in Nat /\ (s > created => service[s].running = None)
  BY ServiceTypes, BridgeTypes, Bounds DEF TypeOK, Services, Created
<1>2. SUFFICES ASSUME bound' = 0
               PROVE  /\ ~Occurs(messages', ToScreen)
                      /\ \A s \in Services :
                            /\ service'[s].handler # Screen
                            /\ service'[s].running # None =>
                                  service'[s].listener = "disconnect"
                      /\ Alive' /\ sdk'.made = 1 /\ sdk'.bridges \cup sdk'.beating # {} =>
                            \/ Occurs(messages', Answer)
                            \/ \E s \in Services : service'[s].running # None
  BY DEF NoActivity
<1>3. bound = 0 /\ ~Opening /\ ~Connecting /\ ~Requested
  <2>1. ~Opening
    <3>1. ASSUME Opening PROVE FALSE
      <4>1. bound' = created + 1
        BY <3>1 DEF Opening
      <4> QED BY <1>1, <1>2, <4>1
    <3> QED BY <3>1
  <2>2. bound' = bound
    BY <2>1 DEF Step, Dies, Connecting, Requested, Summoning, Letting, Looking, Telling,
       Alarmed, Finishing, Taking, Mentioning, Arriving, Losing, Resuming, Posting, Answering
  <2> QED BY <1>1, <1>2, <2>1, <2>2 DEF Connecting, Requested
<1>4. /\ ~Occurs(messages, ToScreen)
      /\ \A s \in Services :
            /\ service[s].handler # Screen
            /\ service[s].running # None => service[s].listener = "disconnect"
      /\ sdk.made = 1 /\ sdk.bridges \cup sdk.beating # {} => Pending(messages)
  BY <1>3 DEF NoActivity, Pending
<1>5. CASE Dies
  BY <1>4, <1>5 DEF Dies, Alive
<1>6. CASE \E s \in Services : Summoning(s)
  <2>1. PICK s \in Services : Summoning(s)
    BY <1>6
  <2>2. /\ s = created + 1 /\ Only(s) /\ service'[s].handler > Screen
        /\ service'[s].running = service[s].running /\ SameBridges /\ messages' = messages
    BY <1>3, <2>1 DEF Summoning
  <2>3. service[s].running = None
    BY <1>1, <2>2
  <2>4. service'[s].handler # Screen
    <3>1. ~(0 > 0)
      OBVIOUS
    <3> QED BY <2>2, <3>1 DEF Screen
  <2>5. \A u \in Services : service'[u].running = service[u].running
    BY <2>2 DEF Only
  <2> QED BY <1>4, <2>2, <2>3, <2>4, <2>5 DEF Only, SameBridges, Pending
<1>7. CASE Letting
  <2>1. service' = service /\ messages' = messages
    BY <1>7 DEF Letting
  <2>2. CASE Unplug
    BY <1>4, <2>1, <2>2, UnpluggedIsGone
  <2>3. CASE SameBridges
    BY <1>4, <2>1, <2>3 DEF SameBridges, Pending
  <2> QED BY <1>7, <2>2, <2>3 DEF Letting
<1>8. CASE Looking
  BY <1>4, <1>8 DEF Looking, Pending
<1>9. CASE Telling
  <2>1. First \in ToScreen
    BY <1>9 DEF Telling, Taking, ToScreen
  <2> QED BY <1>4, <1>9, <2>1, TakingIs DEF Telling
<1>10. CASE Alarmed
  <2>1. Taking /\ messages' = Tail(messages) /\ sdk' = sdk /\ First.what # "done"
    BY <1>10 DEF Alarmed, Taking
  <2>2. ~Occurs(messages', ToScreen)
    BY <1>4, <2>1, TakingIs
  <2>3. CASE First.what # "none"
    <3>1. service' = service /\ First \notin Answer
      BY <1>10, <2>1, <2>3 DEF Alarmed, Answer
    <3>2. Occurs(messages, Answer) => Occurs(messages', Answer)
      BY <2>1, <3>1, TakingIs
    <3> QED BY <1>4, <2>1, <2>2, <3>1, <3>2 DEF Pending
  <2>4. CASE First.what = "none"
    <3>1. /\ Only(First.service) /\ First.service \in Services
          /\ service'[First.service].handler = service[First.service].handler
          /\ service'[First.service].listener = "disconnect"
          /\ service'[First.service].running # None
      BY <1>10, <2>4 DEF Alarmed, Taking
    <3> QED BY <1>4, <2>2, <3>1 DEF Only
  <2> QED BY <2>3, <2>4
<1>11. CASE Finishing
  <2> DEFINE u == First.service
  <2>1. /\ Taking /\ messages' = Tail(messages) /\ Only(u)
        /\ service'[u].handler = service[u].handler
        /\ service'[u].listener = service[u].listener
        /\ u \in Services
    BY <1>11 DEF Finishing, Taking
  <2>2. ~Occurs(messages', ToScreen)
    BY <1>4, <2>1, TakingIs
  <2>3. service[u].listener = "disconnect"
    BY <1>4, <1>11, <2>1, FinishingIs
  <2>4. Unplug
    BY <1>11, <2>3 DEF Finishing
  <2> HIDE DEF u
  <2>5. sdk'.made = 1 => sdk'.bridges \cup sdk'.beating = {}
    BY <2>4, UnpluggedIsGone
  <2> QED BY <1>4, <2>1, <2>2, <2>3, <2>5 DEF Only
<1>12. ASSUME NEW t, NEW what, Posting(t, what), what \in {"none", "network", "notify"}
       PROVE  /\ ~Occurs(messages', ToScreen)
              /\ Occurs(messages, Answer) \/ Occurs(t, Answer) => Occurs(messages', Answer)
  <2>1. Notified(t, what) /\ messages' = messages \o t
    BY <1>12 DEF Posting
  <2>2. ~Occurs(t, ToScreen)
    <3>1. SUFFICES ASSUME Occurs(t, ToScreen) PROVE FALSE
      OBVIOUS
    <3>2. PICK m \in ToScreen : m.service \in Listening /\ m.to = service[m.service].handler
      BY <1>12, <2>1, <3>1, PostedIs
    <3> QED BY <1>4, <3>2, Listeners DEF ToScreen
  <2> QED BY <1>4, <1>12, <2>1, <2>2, PostedIs
<1>13. CASE Mentioning
  <2>1. PICK t, what : /\ Posting(t, what) /\ what \in {"none", "network", "notify"}
                       /\ SameBridges /\ UNCHANGED service
    BY <1>13 DEF Mentioning
  <2> QED BY <1>4, <1>12, <2>1 DEF SameBridges, Pending
<1>14. CASE Losing \/ Resuming
  <2>1. PICK t, what : Posting(t, what) /\ what \in {"none", "network", "notify"}
    BY <1>14 DEF Losing, Resuming
  <2>2. /\ sdk.beating # {} /\ sdk'.made = sdk.made
        /\ \A s \in Services : Keeps(s)
    BY <1>14 DEF Losing, Resuming
  <2> QED BY <1>4, <1>12, <2>1, <2>2 DEF Keeps, Pending
<1>15. CASE Arriving
  <2>1. PICK t : Posting(t, "none") /\ Everyone(t)
    BY <1>15 DEF Arriving
  <2>2. /\ \A s \in Services : /\ service'[s].handler = service[s].handler
                               /\ service'[s].listener = service[s].listener
                               /\ service'[s].running = service[s].running
        /\ sdk'.made = sdk.made + 1 /\ sdk.threads > 0
    BY <1>15 DEF Arriving
  <2>3. ASSUME sdk'.made = 1 PROVE Occurs(t, Answer)
    <3>1. ~(sdk.made > 0)
      BY <1>1, <2>2, <2>3
    <3>2. sdk.listeners # << >>
      <4>1. sdk.threads # 0
        BY <2>2
      <4> QED BY <3>1, <4>1 DEF Bridges, Heeded
    <3>3. PICK s : s \in Listening
      BY <3>2, Listeners
    <3>4. PICK i \in 1 .. Len(t) : t[i].service = s
      BY <2>1, <3>3 DEF Everyone
    <3>5. t[i] \in Posts /\ t[i].what = "none"
      BY <2>1, <3>4 DEF Posting, Notified
    <3> QED BY <3>4, <3>5 DEF Occurs, Answer
  <2> QED BY <1>4, <1>12, <2>1, <2>2, <2>3
<1>16. CASE \E u \in Services : Answering(u)
  <2>1. PICK u \in Services : Answering(u)
    BY <1>16
  <2>2. PICK e \in Done(u) : messages' = Append(messages, e)
    BY <2>1 DEF Answering
  <2>3. sdk' = sdk /\ service' = service /\ e \notin ToScreen
    BY <2>1, <2>2 DEF Answering, Done, ToScreen
  <2>4. ~Occurs(messages', ToScreen)
    BY <1>1, <1>4, <2>2, <2>3, OccursInAppend
  <2>5. Occurs(messages, Answer) => Occurs(messages', Answer)
    BY <1>1, <2>2, OccursInAppend
  <2> QED BY <1>4, <2>3, <2>4, <2>5 DEF Pending
<1> QED BY <1>3, <1>5, <1>6, <1>7, <1>8, <1>9, <1>10, <1>11, <1>13, <1>14, <1>15, <1>16
        DEF Step

\* Some service has no bridge while there has been one.
Bridgeless ==
    sdk.made > 0 /\ \E s \in 1 .. created + 1 \cap Services : service[s].bridge = NoBridge

\* The first message changes the status of a screen that was left; if that waits for
\* the bridge, the message is no failure.
Turned ==
    /\ system.screen = "left"
    /\ StatusOf(First.what) # system.status
    /\ system.status = "loading" => First.what \in {"none", "notify"}

(* A bridge that is connected has been made. *)
LEMMA ConnectedIsMade ==
    ASSUME TypeOK
    PROVE  sdk.bridges # {} => sdk.made > 0
<1>1. sdk.made \in Nat /\ sdk.bridges \subseteq 1 .. sdk.made
  BY BridgeTypes DEF TypeOK
<1>2. ASSUME NEW b \in sdk.bridges PROVE sdk.made > 0
  BY <1>1
<1> QED BY <1>2

(* What kills the process. *)
LEMMA CrashSteps ==
    ASSUME TypeOK, Bridges, Created, Handlers, Waiting, Reached, Answers, Next, Alive,
           crash' # "none"
    PROVE  \/ crash' = "restored"
           \/ crash' = "left" /\ Turned
           \/ crash' = "unbound" /\ ~system.service
           \/ crash' = "connected" /\ sdk.made > 1
           \/ crash' = "lights" /\ Bridgeless
<1>1. /\ created \in Nat /\ sdk.made \in Nat
      /\ bound # 0 => bound \in 1 .. created + 1 /\ bound \in Services
      /\ \A s \in 1 .. created : s \in 1 .. created + 1
  BY ServiceTypes, BridgeTypes
<1>2. ~(crash' = crash)
  BY DEF Alive
<1>3. ASSUME NEW why, Crash(why) PROVE crash' = why
  BY <1>3 DEF Crash
<1>4. /\ ~Open /\ ~ServiceConnected /\ ~Tap /\ ~Restart /\ ~Leave
      /\ \A tab \in Tabs : ~SelectTab(tab)
      /\ ~ConnectEnds /\ ~BlankEnds /\ ~PushlinkEnds
      /\ \A b : ~Heartbeat(b)
      /\ \A s : ~RequestDone(s)
  <2>1. /\ ~Open /\ ~ServiceConnected /\ ~Tap /\ ~Restart /\ ~Leave
        /\ \A tab \in Tabs : ~SelectTab(tab)
    BY <1>2 DEF Open, ServiceConnected, Tap, Restart, Leave, SelectTab, ScreenMoved
  <2>2. ~ConnectEnds /\ ~BlankEnds /\ ~PushlinkEnds
    BY <1>2 DEF ConnectEnds, BlankEnds, PushlinkEnds, Fail, OnBridgeConnected,
                OnAuthenticationRequired
  <2>3. \A b : ~Heartbeat(b)
    BY <1>2 DEF Heartbeat, OnConnectionLost, OnConnectionResumed, OnCacheUpdated
  <2>4. \A s : ~RequestDone(s)
    BY <1>2 DEF RequestDone
  <2> QED BY <2>1, <2>2, <2>3, <2>4
<1>5. CASE CreateView \/ Stop
  <2>1. ~system.service /\ Crash("unbound")
    BY <1>2, <1>5 DEF CreateView, ScreenMoved, Stop
  <2> QED BY <1>3, <2>1
<1>6. CASE Command
  <2> DEFINE new == UpdateLights(service[bound], Screen)
  <2>1. /\ system.screen = "shown" /\ system.status = "online"
        /\ new.bridge = NoBridge /\ Crash("lights")
    BY <1>2, <1>6 DEF Command
  <2>2. bound # 0 /\ sdk.made > 0
    BY <2>1 DEF Handlers, Reached
  <2>3. new.bridge = service[bound].bridge
    <3>1. service[bound] \in LightServices /\ Screen \in Clients
      BY <1>1, <2>2, ServiceTypes, Bounds DEF Clients, Screen
    <3> QED BY <3>1, Requesting
  <2> HIDE DEF new
  <2> QED BY <1>1, <1>3, <2>1, <2>2, <2>3 DEF Bridgeless
<1>7. CASE OnStartCommand
  <2> DEFINE s == IF bound # 0 THEN bound ELSE created + 1
             r == IF bound # 0 THEN service[s] ELSE NewService
  <2>1. Crash("lights") /\ r.bridge = NoBridge /\ sdk.bridges # {}
    BY <1>2, <1>7 DEF OnStartCommand
  <2>2. sdk.made > 0
    BY <2>1, ConnectedIsMade
  <2>3. CASE bound # 0
    BY <1>1, <1>3, <2>1, <2>2, <2>3 DEF Bridgeless
  <2>4. CASE bound = 0
    <3>1. created + 1 \in Services /\ created + 1 > created
          /\ created + 1 \in 1 .. created + 1
      BY <1>1, <2>4, Room
    <3>2. service[created + 1].bridge = NoBridge
      BY <3>1 DEF Created
    <3> QED BY <1>3, <2>1, <2>2, <3>1, <3>2 DEF Bridgeless
  <2> QED BY <2>3, <2>4
<1>8. CASE HandleAlarm
  <2>1. /\ messages # << >> /\ First.what = "none" /\ Crash("lights")
        /\ service[First.service].bridge = NoBridge
    BY <1>2, <1>8 DEF HandleAlarm
  <2>2. /\ messages \in Seq(Posts) /\ First \in Posts /\ Head(messages) = First
        /\ First.service \in 1 .. created /\ First.service \in Services
    BY <2>1, FirstIs DEF First
  <2>3. Occurs(messages, Good)
    <3>1. First \in Good
      BY <2>1, <2>2 DEF Good
    <3> QED BY <2>1, <2>2, <3>1, OccursInTail
  <2>4. sdk.made > 0
    BY <2>3 DEF Reached
  <2> QED BY <1>1, <1>3, <2>1, <2>2, <2>4 DEF Bridgeless
<1>9. CASE HandleDone
  <2> DEFINE s == First.service
             next == DoRequest([service[s] EXCEPT !.running = None])
  <2>1. messages # << >> /\ First.what = "done" /\ next.listener = "none"
    BY <1>2, <1>9 DEF HandleDone
  <2>2. /\ messages \in Seq(Posts) /\ First \in Posts /\ Head(messages) = First
        /\ s \in Services /\ service[s] \in LightServices
    BY <2>1, FirstIs, ServiceTypes DEF First
  <2>3. service[s].listener = "none"
    BY <2>1, <2>2, RequestingNext
  <2>4. First \in Done(s)
    BY <2>1, <2>2 DEF Done
  <2> HIDE DEF s, next
  <2>5. Occurs(messages, Done(s))
    BY <2>1, <2>2, <2>4, OccursInTail
  <2>6. service[s].bridge # NoBridge
    BY <2>2, <2>5 DEF Answers, Handlers
  <2>7. HeadedBy(messages, GoodFor(s), Done(s))
    BY <2>2, <2>3, <2>6 DEF Answers
  <2> QED BY <2>1, <2>2, <2>4, <2>7, HeadedInTail
<1>10. CASE SearchEnds
  <2> DEFINE k == IF sdk.selected = NoBridge \/ sdk.listeners = << >> THEN sdk
                  ELSE Unplugged(sdk)
  <2>1. OnAccessPointsFound
    BY <1>2, <1>10 DEF SearchEnds, Fail
  <2>2. k.bridges # {} /\ sdk.listeners # << >> /\ Crash("connected")
    BY <1>2, <2>1 DEF OnAccessPointsFound
  <2>3. sdk.selected = sdk.made /\ sdk.bridges \subseteq 1 .. sdk.made /\ sdk \in SDKs
    BY DEF Bridges, TypeOK
  <2>4. sdk.selected # NoBridge
    <3>1. CASE sdk.selected = NoBridge
      <4>1. sdk.bridges # {} /\ sdk.made = 0
        BY <2>2, <2>3, <3>1 DEF NoBridge
      <4> QED BY <4>1, ConnectedIsMade
    <3> QED BY <3>1
  <2>5. k.bridges = sdk.bridges \ {sdk.made}
    <3>1. k = Unplugged(sdk)
      BY <2>2, <2>4
    <3> HIDE DEF k
    <3> QED BY <2>3, <3>1, Unplugging DEF SDKs
  <2> HIDE DEF k
  <2>6. sdk.made > 1
    <3>1. PICK b \in 1 .. sdk.made : b # sdk.made
      BY <2>2, <2>3, <2>5
    <3> QED BY <1>1, <3>1
  <2> QED BY <1>3, <2>2, <2>6
<1>11. CASE HandleScreen
  <2>1. ShowFails(First.what) /\ crash' = "left"
    BY <1>2, <1>11 DEF HandleScreen, Crash
  <2>2. /\ system.screen = "left"
        /\ \/ NextTab(system, StatusOf(First.what)) # system.tab
           \/ First.what = "notify" /\ system.status # "warning"
    BY <2>1 DEF ShowFails, TurnFails
  <2>3. StatusOf(First.what) # system.status
    BY <2>2 DEF NextTab, StatusOf
  <2>4. CASE system.status = "loading" /\ First.what \notin {"none", "notify"}
    <3>1. StatusOf(First.what) = "offline" /\ system.tab = "setup"
      BY <2>4 DEF StatusOf, Waiting
    <3> QED BY <2>2, <2>4, <3>1 DEF NextTab
  <2> QED BY <2>1, <2>2, <2>3, <2>4 DEF Turned
<1>12. CASE Restore
  BY <1>12 DEF Restore, Crash
<1> QED BY <1>4, <1>5, <1>6, <1>7, <1>8, <1>9, <1>10, <1>11, <1>12 DEF Next, Handle

(* Only what the code leaves open kills the process. *)
LEMMA CrashesKept ==
    ASSUME TypeOK, Bridges, Created, Handlers, Waiting, Reached, Answers, Next
    PROVE  CrashesOnlyIfUnsafe'
<1>1. Step /\ Alive
  BY Steps
<1>2. CASE crash' = "none"
  BY <1>2 DEF CrashesOnlyIfUnsafe
<1>3. CASE crash' # "none"
  <2>1. Dies
    BY <1>1, <1>3 DEF Alive, Step, Opening, Connecting, Requested, Summoning, Letting,
       Looking, Telling, Alarmed, Finishing, Taking, Mentioning, Arriving, Losing,
       Resuming, Posting, Answering
  <2>2. UNCHANGED <<sdk, service, created, system, messages>>
    BY <2>1 DEF Dies
  <2>3. ASSUME Bridgeless
        PROVE  \E s, t \in 1 .. created' + 1 \cap Services :
                  s # t /\ service'[s].bridge = NoBridge /\ service'[t].bridge # NoBridge
    <3>1. PICK s \in 1 .. created + 1 \cap Services : service[s].bridge = NoBridge
      BY <2>3 DEF Bridgeless
    <3>2. PICK t \in 1 .. created : service[t].bridge # NoBridge
      BY <2>3 DEF Bridgeless, Reached
    <3>3. t \in 1 .. created + 1 \cap Services /\ s # t
      BY <3>1, <3>2, ServiceTypes
    <3> QED BY <2>2, <3>1, <3>2, <3>3
  <2>4. \/ crash' = "restored"
        \/ crash' = "left" /\ Turned
        \/ crash' = "unbound" /\ ~system'.service
        \/ crash' = "connected" /\ sdk'.made > 1
        \/ crash' = "lights" /\ Bridgeless
    BY <1>1, <1>3, <2>2, CrashSteps
  <2> QED BY <2>2, <2>3, <2>4 DEF CrashesOnlyIfUnsafe, Turned, First
<1> QED BY <1>2, <1>3

(* The invariant holds at first. *)
LEMMA IInvHolds == Init => IInv
<1> SUFFICES ASSUME Init PROVE IInv
  OBVIOUS
<1>1. TypeOK
  BY TypeHolds
<1>2. /\ sdk.bridges = {} /\ sdk.beating = {} /\ sdk.lost = {} /\ sdk.selected = 0
      /\ sdk.made = 0 /\ sdk.listeners = << >> /\ sdk.threads = 0 /\ sdk.blank = 0
      /\ sdk.searches = 0 /\ ~sdk.pushlink
  BY DEF Init, NoBridge
<1>3. \A s \in Services : service[s] = NewService
  BY DEF Init
<1>4. created = 0 /\ bound = 0 /\ alarms = 0 /\ messages = << >> /\ crash = "none"
      /\ system.status = "loading" /\ ~system.service /\ system.screen = "new"
      /\ system.tab = "setup"
  BY DEF Init
<1>5. Listening = {} /\ Len(messages) = 0
  BY <1>2, <1>4 DEF Listening, ToSet
<1>6. \A M, N : ~Occurs(messages, M) /\ OccursOnce(messages, M) /\ FollowedBy(messages, M, N)
  BY <1>5 DEF Occurs, OccursOnce, FollowedBy
<1>7. Bridges
  BY <1>2 DEF Bridges, Heeded
<1>8. Created
  BY <1>1, <1>3, <1>4, Fresh DEF Created
<1>9. Handlers
  BY <1>1, <1>3, <1>4, <1>5, Fresh DEF Handlers, None, Screen
<1>10. Reached
  BY <1>2, <1>4, <1>6 DEF Reached
<1>11. Answers
  BY <1>1, <1>3, <1>6, Fresh DEF Answers
<1>12. Untold
  BY <1>4, <1>6 DEF Untold
<1>13. NoActivity
  BY <1>1, <1>2, <1>3, <1>6, Fresh DEF NoActivity, None, Screen
<1>14. CrashesOnlyIfUnsafe /\ Waiting
  BY <1>4 DEF CrashesOnlyIfUnsafe, Waiting
<1> QED BY <1>1, <1>7, <1>8, <1>9, <1>10, <1>11, <1>12, <1>13, <1>14 DEF IInv

(* And every step keeps it. *)
LEMMA IInvKept == IInv /\ [Next]_vars => IInv'
<1> SUFFICES ASSUME IInv, [Next]_vars PROVE IInv'
  OBVIOUS
<1>1. /\ TypeOK /\ Bridges /\ Created /\ Handlers /\ Waiting /\ Reached /\ Answers
      /\ Untold /\ NoActivity /\ CrashesOnlyIfUnsafe
  BY DEF IInv
<1>2. TypeOK' /\ Bridges'
  BY <1>1, TypeKept
<1>3. CASE Next
  <2>1. Step /\ Alive
    BY <1>1, <1>3, Steps
  <2>2. Created' /\ Handlers' /\ Reached' /\ Answers'
    BY <1>1, <2>1, CreatedKept, HandlersKept, ReachedKept, AnswersKept
  <2>3. Untold' /\ NoActivity'
    BY <1>1, <2>1, UntoldKept, NoActivityKept
  <2>4. CrashesOnlyIfUnsafe'
    BY <1>1, <1>3, CrashesKept
  <2>5. Waiting'
    BY <1>1, <1>3, RestKept DEF Waiting, StillWaiting
  <2> QED BY <1>2, <2>2, <2>3, <2>4, <2>5 DEF IInv
<1>4. CASE UNCHANGED vars
  <2>1. UNCHANGED <<sdk, service, created, bound, system, cut, messages, crash, alarms>>
    BY <1>4 DEF vars, serviceVars, screenVars, auxVars, countVars
  <2>2. Created' /\ Handlers' /\ Reached' /\ Answers'
    BY <1>1, <2>1 DEF Created, Handlers, Listening, Reached, Answers
  <2>3. Untold' /\ NoActivity' /\ CrashesOnlyIfUnsafe' /\ Waiting'
    BY <1>1, <2>1 DEF Untold, NoActivity, Alive, CrashesOnlyIfUnsafe, First, Waiting
  <2> QED BY <1>2, <2>2, <2>3 DEF IInv
<1> QED BY <1>3, <1>4

(* Until the end. *)
LEMMA Invariance == Spec => []IInv
<1>1. Spec => Init /\ [][Next]_vars
  BY PTL DEF Spec
<1> QED BY <1>1, IInvHolds, IInvKept, PTL

(***************************************************************************)
(* What the application can rely on.                                          *)
(***************************************************************************)
(* The fields of the services, of the SDK and of the screen hold what they are
   declared to hold: LightService, PHHueSDK as it is used, LightSystem. *)
THEOREM ConnectionTypeCorrect == Spec => []TypeOK
<1>1. IInv => TypeOK
  BY DEF IInv
<1> QED BY <1>1, Invariance, PTL

(* The process dies only of what the code leaves open: LightSystem used before its
   service is bound, a search that ends while a lost bridge is connected again, lights
   asked of a LightService whose mBridge is null though another has one, a LightFragment
   that is restored, or told of a new status after another system's fragment replaced
   it, unless it has waited for the bridge and the news is a failure.  The listener that
   completes a request is never null. *)
THEOREM CrashesAreKnown == Spec => []CrashesOnlyIfUnsafe
<1>1. IInv => CrashesOnlyIfUnsafe
  BY DEF IInv
<1> QED BY <1>1, Invariance, PTL

(* Once the main thread has handled what there is for the screen, online means that
   PHHueSDK has a bridge connected, but for a disconnection on purpose or a loss that
   the screen's service did not hear of. *)
THEOREM OnlineHasABridge == Spec => []OnlineIsConnected
<1>1. IInv => OnlineIsConnected
  <2> SUFFICES ASSUME IInv, system.status = "online", sdk.bridges = {}, cut = "none",
                      \A m \in ToSet(messages) : m.to # Screen
               PROVE  FALSE
    BY DEF OnlineIsConnected
  <2>1. Occurs(messages, BadNews) /\ messages \in Seq(Posts)
    BY DEF IInv, Untold, TypeOK
  <2>2. PICK i \in 1 .. Len(messages) : messages[i] \in BadNews
    BY <2>1 DEF Occurs
  <2>3. messages[i] \in ToSet(messages) /\ messages[i].to = Screen
    BY <2>1, <2>2 DEF ToSet, BadNews, ToScreen
  <2> QED BY <2>3
<1> QED BY <1>1, Invariance, PTL

(* Alarms that run without an activity disconnect the only bridge that has been
   connected, and end its heartbeat, before all is quiet: the handler of onStartCommand
   has the service disconnect after its request. *)
THEOREM AlarmsDisconnect == Spec => []AlarmsLetGo
<1>1. IInv => AlarmsLetGo
  <2> SUFFICES ASSUME IInv, Alive, bound = 0, messages = << >>, sdk.made < 2,
                      \A s \in Services : service[s].running = None
               PROVE  sdk.bridges \cup sdk.beating = {}
    BY DEF AlarmsLetGo
  <2>1. sdk.made \in Nat /\ sdk.bridges \cup sdk.beating \subseteq 1 .. sdk.made
    BY BridgeTypes DEF IInv, TypeOK
  <2>2. CASE sdk.made = 0
    BY <2>1, <2>2
  <2>3. CASE sdk.made = 1
    <3>1. ~Occurs(messages, Answer)
      BY DEF Occurs
    <3> QED BY <2>3, <3>1 DEF IInv, NoActivity
  <2> QED BY <2>1, <2>2, <2>3
<1> QED BY <1>1, Invariance, PTL

=============================================================================
