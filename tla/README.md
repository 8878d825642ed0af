# DomoControl: a TLA+ verification project

DomoControl is an Android application (Java, API 17) that controls a home: a
power strip with four sockets reached over a TCP session (*power*), Philips Hue
lights through the vendor's SDK (*light*) and a Belkin WeMo plug over SSDP and
HTTP (*WeMo*).  It has no tests.  This project models the parts of it whose
correctness depends on interleavings, crashes and orders of events.  Paths below
are relative to `src/src/es/acperez/domocontrol/` unless they start with `src/`.

## 1. Inventory

Everything runs on the main (UI) thread except: the threads of the connection
manager's tasks, one thread per light update inside the Hue SDK together with
its heartbeat, and the thread of the WeMo finder.  The only channel from those
threads to the main thread that the code intends is `Handler.sendMessage`; the
lists and counters named below are shared besides, and none is synchronised.

| Component | State | Operations | Talks to | What makes it correct |
|---|---|---|---|---|
| Connection manager `common/connectionManager` | `active`, `queue` (plain `ArrayList`s) | `push` (main thread), `startNext`, `didComplete` (each task's own thread) | power and WeMo services push, tasks report | at most `MAX_CONNECTIONS` tasks run, first come first served, no task lost, no wakeup lost, nothing throws |
| Timers: `systems/*/controller/*EventManager`, `systems/base/DomoEvent`, `database/EventDbHelper`, `common/BootLoader`, `PowerAlarm` | table `Events`, `mEvents` in memory, alarms and `PendingIntent`s in the system, the saved switch `mAlarmsEnabled` | constructor, `addEvent`, `deleteEvent`, `enableAlarms`, `setAlarm`, `cancelAlarm`, `onReceive` | fragment, database, preferences, AlarmManager, services | an alarm is armed iff its event exists and its system's switch is on, with the event's own payload, across kills and reboots; lists, table and views agree |
| Light request pump: `LightService.updateLights`, `LightListener`, the request classes | `mRequest`, `running`, `mRequests`, `mLightIds` | `updateLights`, `doRequest`, `run`, `onSuccess`/`onError`/`onStateUpdate`, completion handler | fragment, Hue SDK | one batch at a time, completed exactly once, the newest request is executed last, lamps and screen end in the commanded state |
| Light connection: rest of `LightService`, `LightSystem` | `mHandler`, `mListener`, `mIsConnected`, `mFind`, the selected bridge | `connect`, `disconnect`, the SDK listener, `onStartCommand` | activity, alarm, SDK | one handler hears each outcome; the alarm's use does not break the screen's |
| Power task: `PowerManagerTask`, `PowerDevice` | socket, token, plug status | `doRun`, `doGetStatus`, `doSetStatus` | strip, handler | an answer is a status or the right error, exactly one per request |
| Power system: `PowerSystem`, `PowerService`, `PowerFragment`, `PowerData` | `mSockets`, settings | `requestPlugSwitch`, `connect`, `requestResponse` | queue, task, fragment | the screen ends with the last status; a tap toggles |
| WeMo: `WemoService`, `SSDPFinder`, `Device`, `WemoManagerTask` | `mDevice`, the finder's thread and timeout | `connect`, `start`, `run`, `onDeviceFound`, `onFindTimeout`, `getState`, `setState` | queue, multicast, HTTP | exactly one outcome per connect; a second search is possible |
| Status and navigation: `DomoSystem`, `DomoControlActivity`, `mainList` | `mStatus`, `mError`, the systems, the fragment shown and its tab | `handleMessage`, `setStatus`, `updateStatus`, `loadContent` | fragments | status shown = last message; no change of status reaches a fragment that another one has replaced |
| Widget | none | two buttons | starts the light and the WeMo service | its command is carried out like any other |
| Scenes | table, `Scene.states` | save, delete, `SceneRequest.run` | pump | every light gets its own or the last state |
| Application class, native crypto, custom views, OpenSSL, jars | none of interest | | | not modelled (section 8) |

Hard behaviours: unsynchronised lists between the main thread and task threads; an
unsynchronised countdown between SDK threads; durable effects (row, preference, alarm)
made by several calls of one handler with kills in between; reboots that forget
alarms; a latest-wins slot and a busy flag that only an answer clears; timeouts racing
answers; handlers and screens replaced while answers are on their way; activities,
services and listeners of which more than one generation is alive.  `PROJECT.json`
lists the hazards with their lines.

## 2. Modules

| Module | Models |
|---|---|
| `TaskQueue` | abstract: FIFO queue with `Servers` servers, with fairness |
| `ConnectionManager` | the manager, statement by statement; refines `TaskQueue` when calls do not overlap |
| `ConnectionManagerProofs` | TLAPS proofs about `ConnectionManager` |
| `DomoEvents` | timers of the power and the light system with kills and reboots |
| `DomoEventsProofs` | TLAPS proof that timers carry what was asked |
| `ListFacts` | lemmas about sequences: range, insertion, removal, occurrences and their order |
| `TimerProofs` | TLAPS proofs about alarms and lists of `DomoEvents` |
| `LightRequests` | the pump, its listeners and the SDK's callback threads |
| `LatestCommand` | abstract: one command at a time, the newest waits; refined by `LightRequests` when callbacks do not interfere |
| `LightRequestsProofs` | TLAPS proofs about `LightRequests` |
| `DomoSystem` | what all systems share: statuses, errors, and what a message does to them and to the screen |
| `PowerDevice` | the strip's cipher, byte by byte |
| `PowerControl` | the power system from the tap to the strip and back, over the queue |
| `PowerControlProofs` | TLAPS proofs about the cipher and `PowerControl` |
| `WemoControl` | the WeMo system: request, search, retries, preferences, widget |
| `WemoControlProofs` | TLAPS proofs about `WemoControl` |
| `LightConnection` | how screen and alarms get the bridge, over one SDK |
| `LightConnectionProofs` | TLAPS proofs about `LightConnection` |
| `MC...` | constants of the model-checking instances |

Three refinements and compositions tie them together.  `ConnectionManager` implements
`TaskQueue`; `PowerControl` and `WemoControl` take the queue as `TaskQueue` describes
it, so that their results hold while calls of the manager do not overlap.
`PowerControl` lets WeMo tasks into it (`PushOther`), which may hold it up for ever;
`WemoControl` has only its own, for a power task always ends.  `PowerControl` extends
`PowerDevice` and `DomoSystem`, `WemoControl` and `LightConnection` extend
`DomoSystem`.  In `LightConnection` a batch of light updates is one request that ends,
as `LightRequests` shows it does unless it is empty.

What a message does is more than its status.  `setStatus` calls `updateStatus` of the
system's fragment, which checks a tab, and a tab that changes is animated with
`getActivity()`.  `ContentFragment.loadContent` replaces one system's fragment by
another's, and the replaced one keeps its views, so that the next change of its tab
throws.  `DomoSystem` therefore keeps for each system where its screen is (`new`,
`shown`, `left`) and its tab; `Told` turns the tab, `TurnFails` says when it cannot,
and the three modules have actions for leaving a screen and selecting it again, and
for its tabs.  An activity may be finished and opened again (`Reopen`), or be created
from a saved state (`Restore`): then `super.onCreate` instantiates the fragments anew,
and `PowerFragment`, `LightFragment` and `WemoFragment` have no empty constructor, so
the process dies.  The manifest has no `configChanges`: a rotation is a restoration.

### ConnectionManager

`active` and `queue` are `[size, slot]` records, as `ArrayList` is.  A call that
changes one is two steps: the caller records the size in `seen[th]`, and writes
slot and size from it (`Stored`, `Shifted`), so that lost updates, duplicated
elements and stale sizes are outcomes of the model and not of imagination.
`pc[th]` names the statement a thread executes next:

| code | actions |
|---|---|
| `push`: `queue.add(task)` | `Push(t)`, `QueueAdd` |
| `push`: `if (active.size() < MAX_CONNECTIONS)` | `TestSize` |
| `run`: `doRun()` ends; `didComplete`: `active.remove(task)` | `Finish(t)`, `ActiveRemove(t)` |
| `startNext`: `isEmpty`, `get(0)`, `remove(0)` | `IsEmpty`, `QueueGet`, `QueueRemove`, `QueueShift` |
| `startNext`: `active.add(next)`, `next.start()` | `ActiveAdd`, `ActiveStore`, `Start` |
| exceptions of `get`, `remove`, `start` | `IndexOutOfBounds`, `StartThrows`: the process dies |

Abstractions: sequentially consistent memory, and backing arrays that do not
reallocate (they hold ten elements at first; the instances have at most four
tasks).  Both only remove behaviours of the racy executions, where the
properties already fail.  `push` has one caller at a time: both services call it
on the main thread only.  `addListener` is never called in the repository, so
`notifyListeners` does nothing.

`overlapped` is an auxiliary flag: it becomes true when a thread enters the
manager while another is inside.  The `Serial...` invariants say what holds until
then, which is exactly the condition under which the code is right, and the two
violation runs show that the condition is needed.

### DomoEvents

One handler runs at a time on the main thread; `todo` is the list of its
remaining durable steps, because a kill may separate any two of them.  `Load`
is a manager's constructor, `Arm` is `setAlarm`, `Cancel` is `cancelAlarm`,
`Place` and `Drop` the insertion into and removal from `mEvents`.  `AddEvent`
and `DeleteEvent` perform the database call, `ToggleAlarms` the `commit` of the
preferences, each the first durable effect of its handler.  The call
`cancelAlarm()` at the top of `setAlarm` finds nothing armed in any reachable
state (an object is armed at most once between cancels), so `Arm` leaves it
out.  What survives: `Kill` keeps
`db`, `saved`, `alarms` and `intents`; `Reboot` keeps `db` and `saved` only and
makes `BOOT_COMPLETED` pending.  `refs` says which event objects on screen hold
an `AlarmManager` (`mAlarmManager != null`), for `cancelAlarm` does nothing
without it.  `intents` keeps the extras of every live `PendingIntent`, for
`getBroadcast` with flag 0 returns a live one unchanged; `Collect` is its
garbage collection.  `LightEventManager` and `PowerEventManager` are the same
code over different rows, so they are one set of actions with a type.
`orphans` is auxiliary: ids whose cancel a kill has cut off.  Clock time is
abstracted to a day number and an order within the day (`tod`), which is what
the two orderings in the code compare; `Orders` leaves the order of rows with
equal times open, as `ORDER BY timemillis` does.

### LightRequests

`UpdateLights`, `SelectLight`, `HandleDone` and `HandleRemote` are handlers of
the main thread and atomic, because only that thread touches what they
change; `DoRequest` is the common part of the first and third.  `Run` creates
the listener and issues all updates: no answer can complete the batch while the
loop still runs, since the count includes the unissued updates.  Each update is
an SDK thread `<<batch, light>>` that follows
`sent -> cached -> report -> add -> response -> write -> test -> (send) -> done`:
change of the cache, `onCacheUpdated`, `onStateUpdate` (read size, write slot),
`onResponse` (read and write of `mRequests--`, second read, `sendMessage`).  An
error goes from `sent` to `response`; a change of names skips `onStateUpdate`.
That order and the thread per update are those of the SDK the repository
bundles (`src/libs`), which is external code.
The color of a lamp is the one in the SDK's cache, which is what the code reads.
A "selected" request holds the fragment's own list, so its lights are those
selected when it runs.  `wanted`, `newest` and `overlapped` are auxiliary.

`LatestCommand` is what the screen is entitled to: `waiting`, `active`, and
`stuck` for the batch that has nothing to do.  `ImplementsLatestCommand` maps
`request` to the first, the batch in progress to the second; the lights of a
selected request are left out of a wish, because they are settled when it runs.

### PowerControl and PowerDevice

`PowerDevice` translates `addToken`, `addStatus` and `setStatus` with Java's
byte casts as `% 256`; `StripStatus` and `Switched` are the strip's side, which
is not in the repository, taken to be the inverse.  `PowerControl` keeps the real
state of the strip in `plugs`, so that what the screen shows can be compared
with it.  One action per blocking call of a session:

| code | actions |
|---|---|
| `doRun`: connect; `doGetStatus`: HELLO, first read | `ReadToken` (an end of stream leaves the zero buffer as the token) |
| token response, second read, `addStatus` | `ReadStatus`, `ReadStatusEnd` (the buffer still holds the challenge), `ReadStatusThrows` |
| `doSetStatus`: command, read, `addStatus` | `WriteCommand`, `ReadConfirmation` |
| BYE, the message; any other exception | `Bye`, `Throw` |
| `requestPlugSwitch`, `connect`, `onStartCommand`, a task of the WeMo system | `RequestPlugSwitch`, `Connect`, `StartCommand`, `PushOther` |
| `handleMessage`, `updateStatus` and `requestResponse` | `Handle`, `HandleGone` for a former activity's |
| `loadContent`, `onCreateView`, `mTabListener` | `Leave`, `Return`, `SelectTab` |
| `onCreate`, anew or from a saved state | `Reopen`, `Restore` |

A task carries the settings it was pushed with.  The auxiliary variables say when a
property is excused and no more: `touched` are the plugs a button or an unheard timer
has switched since the last snapshot for the screen, `garbled` records that a short
read was decoded, `last` what was asked last of each plug, `unsafe` that an activity
was replaced or its screen left while an answer was awaited, or that one was restored.
The list selects the power system when an activity is created, so its screen is shown
from the start, and its view is kept: coming back to it is `Return`.  The timers' tab
is left out, because a change of status turns it like the control tab.  `gone[a]` is
the status of activity `a`'s system when it was replaced: an answer that does not
change it does no harm.  Only whole buffers or the end of the stream are read; a read
of one to three bytes mixes the two.

### WemoControl

`service[a]` and `finder[a]` belong to the service of activity `a`: its copy of
the preferences and `mDevice`, its thread, timeout and the URL found.  The
thread and the main thread interleave: `StartFinder` and `PostTimeout` are the
two statements of `start`, and `Bind`, `Receive`, `Report`, `RemoveTimeout` the
steps of `run`.  A second start of the thread is `HandleConnect`'s crash.
`port` is the bound socket, which the code never closes and the garbage
collector may.  `SetState` and `SetAnswered` are two steps, so that an answer
may be lost after the plug has switched; `Retry` counts the tries down.
`OnStartCommand` is the widget's command.  `WemoFragment` builds its view anew whenever
its screen is selected (`CreateView`), and that view shows the host of the saved plug:
without one it throws.  The preferences hold a plug at the start or not (`FirstSaved`).
`Leave`, `SelectTab`, `Reopen` and `Restore` are as in `PowerControl`; what a system
waits for includes here the search and its timeout.  `NewNames` are the names that the
user may enter with Apply.

### LightConnection

`sdk` is the external `PHHueSDK`: connected bridge objects, heartbeats, selected
bridge, registered listeners (a list, for a listener may be in it twice), threads of
`connect` under way.  What it promises was read off the bundled library's behaviour as
the code uses it: `connect` throws if another object is connected, an answer to a
second `connect` is an error, a failed heartbeat is reported as an error before
`onConnectionLost`, every listener hears every event.  `service[s]` has the fields of
one `LightService`; the activity binds one, and an alarm (or the widget) that finds
none bound gets one of its own, which outlives its `stopSelf` as long as the SDK holds
its listener.  `crash` names what killed the process.  The view asks the service for
the lights when it is created and is kept after that (`CreateView`, `Leave`);
`ShowFails` adds to `TurnFails` the text that asks for the bridge's button, which a
fragment without an activity cannot fetch.  There is one activity, stopped and
restarted; it is restored only once, for that ends the process.  `silent`, `asked` and
`cut` are auxiliary: a `connect` that told no one, the alarms that wait, and why
nobody was told that the bridge went.

## 3. Runs

| Run | Bounds | Shows |
|---|---|---|
| `cm_race` | 3 tasks, all interleavings | `TypeOK`, `SerialSafe`, `SerialKeepsTasks`, `SerialWakeup` |
| `cm_serial` | 4 tasks, one may hang | `ImplementsTaskQueue`, `EveryRequestRuns` without overlap |
| `cm_max` | 3 tasks | counterexample to `MAX_CONNECTIONS` |
| `cm_lost` | 3 tasks, fair | counterexample: a request silently lost |
| `events` | 2 insertions of 3 kinds of event, 1 change of day, 2 faults, fair | the invariants of the timers; `BootRearms` |
| `events_off` | 1 fault | counterexample: timers fire with the switch off |
| `lights_race` | 2 lights, 2 commands of 5 kinds, all interleavings | the invariants of the pump |
| `lights_serial` | 2 lights, 3 commands of 3 kinds, no interference, fair | newest request last; no request stuck unless an empty batch came first; `ImplementsLatestCommand` |
| `lights_wedge` | 2 lights, 2 commands, no interference, fair | counterexample: an empty batch wedges the pump |
| `power` | one plug in use of four, 2 requests, a timer, a right and a wrong password, 1 press, 2 activities, screens left and selected again | screen and strip agree, the last command wins, only the plug asked for switches, the status is about the settings in force, loading ends |
| `wemo` | a plug saved or not, 2 addresses, 2 names of which one is entered, 1 tap, 1 rename, 1 of press, move or widget, 2 activities, screens left and selected again | screen and plug agree, a plug found is not reported missing, no lost update unless both copies write, loading ends |
| `light_connection` | 1 alarm, 2 events from outside (tap, command, stop, demand for the button, heartbeat), the screen left and selected again | online means a bridge, alarms let go of it, loading ends, an alarm gets an answer, what may crash |

Why the bounds are enough.  *Tasks*: an overlap needs a running task, one in the queue
and one being pushed, that is three; the fourth in `cm_serial` lets the queue hold two
while another task hangs or completes, so that order can go wrong.  *Events*: two
events of one system at different times of the day show order, and one of each system
shows the type filter; ids are reused, if at all, by the second insertion; two faults
are a kill during the recovery from another.  *Lights*: two threads suffice for each
race on the listener, two commands for an overtaking batch, and three for a request
that replaces a waiting one.  *Power*: two requests are what can overtake each other
(a tap and a timer, a tap and changed settings, an old and a new activity); one plug
in use suffices, because the other three, one of which is on, show any switching or
reversing of plugs; the token is chosen so that the sums of the cipher overflow a
byte.  *WeMo*: one failed request, one search and one tap are a whole life of the
service, and one event from outside makes any of them stale; an unsaved plug starts
with the search.  *Light connection*: an alarm gives a second handler, listener and
service; two events are a loss after a stop, a tap during a search, or a button during
an alarm.  The constants bound what comes from outside only; threads, retries and
callbacks are not cut short.

Deadlock is not checked in the runs of the manager and the pump: when all tasks
are done, the pump is idle and the bound is reached, or the process has died, the
system stops; the same holds for `power`, `wemo` and `light_connection` once
nobody acts any more.

## 4. Fairness

`ConnectionManager`: weak fairness of each thread's steps inside the manager (a
runnable thread is scheduled, nothing blocks there) and of `Finish` for tasks outside
`MayHang`, because the power task has a socket timeout of four seconds and the read of
a WeMo state one of six; `MayHang` stands for `Device.setState`, which has none.  No
fairness for `Push`: users need not act. `DomoEvents`: weak fairness of the steps of a
running handler, and strong fairness of `BootCompleted`, because the broadcast waits
in the FIFO queue of a main thread that returns to it after each handler, while other
handlers may run first and make the action disabled in between.  `LightRequests`: weak
fairness of the main looper and of each SDK thread; the SDK answers each update or
times out.  The `Serial` specifications use the same fairness on the steps that do not
overlap. `PowerControl`: binding, the looper and the manager run, and each session
goes on, because its reads time out after four seconds; a WeMo task gets none when
`MayHang`.  `WemoControl`: weak fairness of `Program`, which is what the looper, the
posted timeout and the threads do.  One condition for all of them is enough and
promises less than one for each: every wish of a user takes them finitely many steps,
so if one of them always runs each gets its turn.  Nothing promises that a plug turns
up (`Receive` is not in `Program`, the timeout must end the wait), and a request that
has been sent may wait for ever, as `setState` sets no timeout.  `LightConnection`:
binding, the looper and the SDK's threads, each of which the library ends with an
answer or an error; no fairness for heartbeats, users or the opening of the activity.

## 5. Proofs

`ConnectionManagerProofs` proves, for every set of tasks and every `MayHang`:

* `TypeCorrect`: `Spec => []TypeOK`;
* `SerialSafety`: `Spec => []SerialSafe`;
* `SerialNoLoss`: `Spec => []SerialKeepsTasks`;
* `SerialNoLostWakeup`: `Spec => []SerialWakeup`;
* `ServesInOrder`: `SerialSpec` implies `TaskQueue`'s initial condition and
  `[][Next]`, the safety part of `ImplementsTaskQueue`: while calls do not overlap,
  every step of the manager is a step of the first-come-first-served queue or a
  stutter.

`TypeOK` is not inductive: `QueueShift` makes the size one less than the size
read, so `ShiftSeesTask` (a thread about to shift has read a positive size) is
added.  The `Serial...` invariants need much more, collected in `Coherent`:
at most one thread is inside the manager (`OneInside`); the queue lists pushed,
unstarted tasks, each once (`QueueCoherent`); `active` holds exactly the task
that runs or is about to (`ActiveCoherent`); what the thread inside remembers,
the size it read and the task it took, is still so (`LocalsFresh`); each pushed
unstarted task is queued or in hand (`NothingLost`); and with nobody inside, a
non-empty queue means an active task (`Awake`).  `SerialInv` is
`~overlapped => Coherent`, and `IInv` its conjunction with typing.  `NextIInv`
has one lemma per action; a step that sets `overlapped` makes `SerialInv` hold
trivially, and `overlapped` is never reset (`OverlapStays`).  `ServesInOrder` has
one lemma per statement, under the same invariant: most statements stutter, the
writes of `queue` and `active` map to the queue's three actions.  The only
assumption is `TasksAssumption`: the main thread and null are no tasks.

`DomoEventsProofs` proves, for any templates and any bounds,

* `Faithful`: `Spec => []PayloadFaithful`.

`PayloadFaithful` is not inductive: `AddEvent` would break it if a live
`PendingIntent`, a broadcast in flight or the last command already had the new
event's id.  `UsedIdsOnly` excludes that: every id in the table, the intents, the
broadcasts, the last command, the lists and the pending steps is below `nextId`;
the lists and steps are there because the ids of later arms come from them.
`AlarmsHaveIntents` is there for `Fire`, which sends the stored extras.

`LightRequestsProofs` proves, for any lights, colors and number of commands,

* `LightsTypeCorrect`, `NewestLast`: `[]TypeOK` and `[]NewestRunsLast`, in every
  interleaving;
* `OneBatchSafety`, `CompletesOnceSafety`, `LatestEffect`: `[]OneBatchAtATime`,
  `[]CompletesOnce` and `[]LatestTakesEffect`, which speak of the time until
  callbacks interfere;
* `ImplementsLatest`: `Init /\ [][Serial(Next)]_vars` implies `LatestCommand`'s
  initial condition and `[][Next]`; its fairness stays with the run
  `lights_serial`.

The inductive invariant is `IInv == TInv /\ (~overlapped => SInv /\ EInv)`.
`TInv` holds in every interleaving: typing, `Budget` (batches never exceed the
commands given), `Jobs` and `Sizes` (what was recorded about batches that exist),
`Waits` and `NewestIsLast` (a request waits only while the pump runs, and the
newest command is the one that waits or the last that ran).  `SInv` is the
countdown: `OneBatch` (callbacks of the running batch only are active), `Counted`
(`count` is the number of callbacks that have not decremented it),
`OneCounts`, `OneSends` and `OneMessage` (one thread at a time is between its read
and its write, one sends, one completion is on its way).  `EInv` relates lamps,
list of updated lights and screen to `wanted` through the stages of a callback.
Only what the steps of one thread at a time need is in it, which is why
interference is excluded by the flag and not by an assumption.  `Counted` is a
statement about a cardinality, so its steps cite the facts of
`FiniteSetTheorems` on adding and removing one element.

`TimerProofs` builds on that invariant and proves, under the same assumption
(`EventsAssumption`: the bounds are numbers and each template is an event),

* `TypesHold`: `Spec => []TypeOK`;
* `NoneMissed`: `Spec => []NoMissedTimer`, an enabled timer without an alarm
  has one coming, from the handler under way or the boot broadcast;
* `NoGhosts`: `Spec => []NoGhostTimer`, an alarm without a row is that of an event
  whose cancel was cut off by a kill or is about to run;
* `CancelIsPossible`: `Spec => []CancelReaches`;
* `ListsMatch`: `Spec => []ListMatchesTable`;
* `ListsSorted`: `Spec => []SortedWithinOneDay`.

Those after `TypesHold` are not inductive: each speaks of a moment when no handler
runs, and says nothing of the middle of one.  `TInv` adds `Timers`, which says of each
pending step of `todo` what it will still put right: `StepsMakeSense` (what is to be
armed is enabled, what is to be cancelled or dropped is not, and a `place` is the last
step of its handler), `Mirrored` (list and table agree but for rows still to be loaded
or placed and entries still to be dropped), `OneList` (no event is in both lists),
`Armed` (on screen an enabled event is held, or has its `arm`, `place` or `load`
pending), `Accounted` (any other alarm has its `cancel` pending or is among
`orphans`), `Ordered` (on the first day each list is in order), `NothingClosed`
(without a screen there are no lists and only the boot's steps) and `RowsTyped`.
`Remaining` is what typing needs beyond that.  There is one lemma per action for what
it does to `Timers`; what they need about sequences, the insertion into a list and the
removal from it, is in `ListFacts`.


`WemoControlProofs` proves, for any addresses, names, and numbers of taps, renames,
presses and activities (`WemoAssumption`),

* `WemoTypeCorrect`: `Spec => []TypeOK`;
* `NoOtherCrash`: `Spec => []CrashesOnlyIfUnsafe`;
* `NoLostUpdate`: `Spec => []SavedUnlessBothWrote`;
* `FoundIsShown`: `Spec => []FoundBeatsTimeout`;
* `PlugIsShown`: `Spec => []ScreenMatchesPlug`.

Its `IInv` has a part for each.  A finder starts once because there is one token per
service (`ConnectsOnce`: its connection is in the queue, in the session or among the
messages, once), which is gone when the search starts (`BoundFirst`); `Owned` says
that what is awaited, the current activity awaits, and `LeftAlone` that a system whose
screen was left awaits nothing, until an activity was replaced or a screen left
unsafely; so no message is left that could turn a screen without an activity.
`CopiesFresh` says which copy of the preferences is still the newest where it may be
written next: a service's name until a user writes, the screen's URL until a finder
does.  `Searches` and `ReportLast` follow a plug that was found: its report is the
last word among the messages, so that a timeout's message is never read after it.
`Moved`, `Turn` and `Frame` classify the steps by what they do to queue, session and
messages, to one finder, and to the rest, so that each part is proved by a few cases
and not by all actions.

`PlugIsShown` has an invariant of its own on top of that, `ScreenInv`.
`ScreenMatchesPlug` speaks of quiet states only; in between, what holds is
`Agrees`: a good answer that is no longer true, and a state on screen that is not,
are each followed by another state in the main thread's queue, unless a task of the
current activity runs.  That needs the order of things: `OldFirst` (the tasks of the
activity before run first, and until they have, the new screen knows nothing and no
state is on its way to it, so that their writes contradict nothing), `Alone` (a
service that has not connected yet has no other task and no other message, so that
the answer which is forwarded to the end of the queue overtakes none), `Sent`
(between the request to switch and the plug's answer, the plug is as the task wants
it unless its button or the widget was used) and `KnownActivities` (nothing is on
behalf of an activity to come).

`PowerControlProofs` proves, for any settings, strips, numbers of requests, timers,
presses and activities (`PowerAssumption`),

* `StatusRoundTrip`, `CommandRoundTrip`: what the screen decodes is the status the
  strip encoded, and what the strip decodes is the command that was written, for
  every token and every password that both have;
* `PowerTypeCorrect`: `Spec => []TypeOK`;
* `PowerSurvives`: `Spec => []CrashesOnlyIfUnsafe`;
* `StatusOfTheSettings`: `Spec => []StatusIsOfTheSettings`;

and, if `WrongPasswordsRefused`,

* `ScreenMatches`: `Spec => []ScreenMatchesStrip`;
* `LastCommand`: `Spec => []LastCommandWins`;
* `OnlyAskedSwitches`: `Spec => OnlyAskedPlugSwitches`.

`WrongPasswordsRefused` says that the strip tells apart any two passwords of
`Settings` by every token: its check compares 32 bits computed from at most eight
bytes, so two passwords may pass for each other, and then the strip would run a
command that the application had enciphered with another key.  The code cannot
exclude that, so it is a hypothesis of the theorems that need it;
`MCPowerControl` states it of the run's passwords and TLC evaluates it.

The cipher's `Xor` is described by nine bits (`WordBits`, `WrittenWord`): the sum
of two bytes reaches the ninth, and the code casts to a byte only after the last
step, so the proof has to show that the ninth bit never comes back.  A first
attempt failed on `SetStatus`: as a `CASE` whose guards overlap it left open which
branch is taken where the code's `if` takes the first; it is a nested `IF` now.

The invariant has a part for each thing that is under way.  `SessionInv`: what the
session knows at each of its steps, and that a status was decoded with the strip's
key if a command follows.  `Addressed`: tasks and answers are of activities that
exist, and an answer without an error carries a status.  `Safe`: until an activity was
replaced or its screen left while an answer was awaited, nothing for a former one is
under way, nor for a screen that was left.
`InForce`: whether the task or the answer on its way is of the settings in force;
`OldFirst`: the queue and the messages have what former settings asked before what
the present ones did, so that the last answer is of the present ones.  `LastAsked(p)`
follows the last command for plug `p` through queue, session and strip, and `Shown`
says what the screen will show once the answers under way are read.  `Shown`
holds until a short read was decoded (`garbled`).

`LightConnectionProofs` proves, for any numbers of alarms and of other events, and
so for any number of services, handlers and registered listeners
(`LightConnectionAssumption`),

* `ConnectionTypeCorrect`: `Spec => []TypeOK`;
* `CrashesAreKnown`: `Spec => []CrashesOnlyIfUnsafe`;
* `OnlineHasABridge`: `Spec => []OnlineIsConnected`;
* `AlarmsDisconnect`: `Spec => []AlarmsLetGo`.

None of the last three is inductive.  `Bridges` says that the newest bridge is the one
selected, that a heartbeat which has not failed is of a connected bridge, and, as
`Heeded`, that before the first bridge somebody listens whenever a connection or a
search is under way, so that a bridge never arrives unheard at first.  `Created` ties
the services to the alarms.  `Waiting` says that a system which is loading has its
settings tab selected: so a failure does not turn the tab of a screen that was left
before the bridge ever answered.  `Handlers` says that a service has a handler before it
listens (a callback of the SDK would fail on a null `mHandler`), a listener for its
completions before the screen's handler, and a bridge while a request runs.  `Reached`
says where an online screen and good news come from: some service has the bridge.
`Answers` is why a completed request finds someone to tell: an alarm's service has no
listener until the alarm hears of the bridge, and that message is in the queue ahead
of any completion (`HeadedBy`), because the request it makes is the first.  `Untold`
says that unless the cause is noted, bad news for the screen follows the good in the
queue; `NoActivity` that without an activity nothing is sent to the screen and an
answer or a running request is left, after which the service disconnects.  The proof
first puts each step into one of fifteen shapes (`Step`: `Summoning`, `Arriving`,
`Losing`, ...) that say what it does to the fields the invariant speaks of; each part
is then proved by the shapes, and `CrashSteps` by the actions themselves.
The model lists the posts of a callback by the places of the listeners (`HeardAt`),
not by a filter defined recursively over the list, which the provers cannot follow.

Only model-checked: what includes liveness (`EveryRequestRuns`,
`ImplementsTaskQueue`, `RequestRunsUnlessWedged`, the fairness part of
`ImplementsLatestCommand`, `BootRearms`, `LoadingEnds`, `AlarmAnswered`), which is
out of the prover's reach.  Every invariant of the passing runs has a theorem.

## 6. Findings

1. `cm_max`: two tasks run at a time although `ConnectionManager.java:7` sets
   `MAX_CONNECTIONS = 1`: `push` reads `active.size()` between the removal and
   the addition made by `didComplete` on another thread.
2. `cm_lost`: a pushed request is never sent (`PowerService.java:70` promises
   it): `queue.add` and `queue.remove(0)` race on an `ArrayList`.
3. `events_off`: the switch says `DISABLED` and the timers fire: the process died
   between `exportSettings()` and `enableAlarms(false)`
   (`PowerFragment.java:441-443`), and nothing cancels the alarms later.
4. `lights_wedge`: "Apply" without a new name runs a batch of no updates, whose
   completion never comes; every later light command is ignored.

Beside these, no line of the repository is contradicted by what the properties
excuse, but a maintainer will want to know it.  The process dies when

* another system is selected while one is loading, and its answer comes
  (`PowerFragment` 280, `WemoFragment` 189, `LightFragment` 342 and 233);
* the device is turned, or the activity restored for another reason, once a system's
  fragment is shown (`PowerFragment` 61, `WemoFragment` 41, `LightFragment` 87);
* an activity is opened again while an answer for the former one is under way
  (`DomoSystem` 96);
* the WeMo screen is opened before a plug was saved (`WemoFragment` 69).

Each `CrashesOnlyIfUnsafe` excuses these and says that nothing else does it.  Likewise
`overlapped`, `raced`, `excused`, `garbled`, `orphans`, `cut` and `silent` mark a hazard
that has struck; the properties speak of the executions where it has not, and so show
how far its effect goes, not that it cannot happen.

## 7. Plan

Done: all components of section 1 whose state changes in ways worth checking,
with the abstract specifications `TaskQueue` and `LatestCommand`.  What would come
next, in this order:

1. Composition of `LightConnection` with the statement-level pump of
   `LightRequests` (a disconnection in the middle of a batch).
2. Reads of one to three bytes in `PowerControl`, and `addEvent` across midnight
   in `DomoEvents`.
3. An abstract `Timers` (armed iff present and enabled, eventually) refined by
   `DomoEvents`.

## 8. Not modelled

Drawing and touch code, resources, texts and XML, color arithmetic, the padding
of scene states, the preference helpers and the native crypto (bytes through
OpenSSL, no control), OpenSSL itself and the jars.  The Java memory model beyond
sequential consistency, and the growth of backing arrays.  Wall clock effects:
daylight saving, midnight during a comparison, drift.

Nearly all the C of the repository is the vendored OpenSSL under `src/jni/openssl`
(the only C++ of the application is `src/jni/DomoControl/DomoControl.cpp`, which
derives a key from the device's serial number and `/proc/cpuinfo` and encrypts and
decrypts the saved password of the power strip with it, through OpenSSL's EVP
calls): third-party code that no component of
section 1 consists of.  The application is Java, so a measure of the
lines of C covered by the `map` of `PROJECT.json` says nothing about it; the map
covers the Java sources named in section 1.
