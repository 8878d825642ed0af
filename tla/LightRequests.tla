--------------------------- MODULE LightRequests ---------------------------
(***************************************************************************)
(* The request pump of the light system: LightService.updateLights keeps at  *)
(* most one request waiting (the newest) and one batch of bridge updates     *)
(* outstanding, and LightListener counts the answers of the batch down.      *)
(*                                                                           *)
(* The pump and the user interface run on the main thread.  The Hue SDK      *)
(* answers each update of a batch on a thread of its own, so the steps of    *)
(* the listener's callbacks interleave, with each other and with the main    *)
(* thread; mRequests-- is a read and a write, ArrayList.add a read of the    *)
(* size and a write of the slot and the size.  Memory is sequentially        *)
(* consistent.                                                               *)
(***************************************************************************)
EXTENDS Integers, SequencesExt

CONSTANTS
    Lights,      \* the lights of the bridge
    Colors,      \* the states a light can be given
    Commands,    \* what a user may ask: [kind, lights, color]
    NoCommand,   \* Java's null
    MaxCommands, \* bound on the commands given
    First        \* the state of every light at the start

Kinds == {"selected", "fixed", "names"}

Command == [kind : Kinds, lights : SUBSET Lights, color : [Lights -> Colors]]

Batches == 1 .. MaxCommands

Threads == Batches \X Lights

ASSUME LightsAssumption ==
    /\ IsFiniteSet(Lights)
    /\ MaxCommands \in Nat
    /\ First \in Colors
    /\ Commands \subseteq Command
    /\ NoCommand \notin Command \cup [kind : Kinds, color : [Lights -> Colors]]

VARIABLES
    selection,  \* mLightIdList, which a "selected" request holds by reference
    request,    \* mRequest: the newest request not yet run
    running,    \* the flag of the same name
    batches,    \* the number of LightListeners made so far
    job,        \* job[b] : what batch b sends, with its lights resolved
    count,      \* count[b] : mRequests of its listener
    updated,    \* updated[b] : mLightIds of its listener, an ArrayList
    pc,         \* pc[<<b, l>>] : the SDK thread that updates light l in batch b
    seen,       \* seen[<<b, l>>] : the counter or size that thread has read, 0 between uses
    messages,   \* the messages posted to the main thread, oldest first
    cache,      \* the state of each light in the SDK's resource cache
    shown,      \* the state of each light on screen
    given,      \* the number of commands given
    newest,     \* auxiliary: the last of them
    wanted,     \* auxiliary: the state last asked for, or kept by a failure
    overlapped  \* auxiliary: callbacks have interfered with each other

vars == <<selection, request, running, batches, job, count, updated, pc, seen,
          messages, cache, shown, given, newest, wanted, overlapped>>

Init ==
    /\ selection = {}
    /\ request = NoCommand
    /\ running = FALSE
    /\ batches = 0
    /\ job = [b \in Batches |-> NoCommand]
    /\ count = [b \in Batches |-> 0]
    /\ updated = [b \in Batches |-> [size |-> 0, slot |-> << >>]]
    /\ pc = [th \in Threads |-> "none"]
    /\ seen = [th \in Threads |-> 0]
    /\ messages = << >>
    /\ cache = [l \in Lights |-> First]
    /\ shown = cache
    /\ given = 0
    /\ newest = NoCommand
    /\ wanted = cache
    /\ overlapped = FALSE

----------------------------------------------------------------------------
(* The pump, on the main thread *)

\* The lights a request updates when it runs.
Targets(r) == IF r.kind = "selected" THEN selection ELSE r.lights

\* The request with the lights it means at that time.
Resolved(r) == [kind |-> r.kind, lights |-> Targets(r), color |-> r.color]

\* run: a listener that expects one answer per light, and one update per light.
\* No answer is handled before the loop ends, for the count is still positive.
Run(r) ==
    LET b == batches + 1
    IN  /\ batches' = b
        /\ job' = [job EXCEPT ![b] = Resolved(r)]
        /\ count' = [count EXCEPT ![b] = Cardinality(Targets(r))]
        /\ pc' = [th \in Threads |->
                     IF th[1] = b /\ th[2] \in Targets(r) THEN "sent" ELSE pc[th]]
        /\ wanted' = [l \in Lights |->
                         IF l \in Targets(r) /\ r.kind # "names" THEN r.color[l]
                         ELSE wanted[l]]

\* Mutants: get instead of getAndSet(null); and running is not tested.
DoRequestKeeping(busy, r) ==
    \/ /\ busy \/ r = NoCommand
       /\ running' = busy
       /\ request' = r
       /\ UNCHANGED <<batches, job, count, pc, wanted>>
    \/ /\ ~busy /\ r # NoCommand
       /\ running' = TRUE
       /\ request' = r
       /\ Run(r)

DoRequestAnyway(busy, r) ==
    \/ /\ r = NoCommand
       /\ running' = busy
       /\ request' = r
       /\ UNCHANGED <<batches, job, count, pc, wanted>>
    \/ /\ r # NoCommand
       /\ running' = TRUE
       /\ request' = NoCommand
       /\ Run(r)

\* doRequest, when running is busy and mRequest holds r.
DoRequest(busy, r) ==
    \/ /\ busy \/ r = NoCommand
       /\ running' = busy
       /\ request' = r
       /\ UNCHANGED <<batches, job, count, pc, wanted>>
    \/ /\ ~busy /\ r # NoCommand
       /\ running' = TRUE
       /\ request' = NoCommand
       /\ Run(r)

\* Mutant: a request that waits already is kept.
UpdateLightsOldest(r) ==
    /\ given < MaxCommands
    /\ r.kind = "selected" => selection # {}
    /\ given' = given + 1
    /\ newest' = r
    /\ DoRequest(running, IF request = NoCommand THEN r ELSE request)
    /\ UNCHANGED <<selection, updated, seen, messages, cache, shown, overlapped>>

\* updateLights, from the fragment's listeners, which refuse an empty selection.
UpdateLights(r) ==
    /\ given < MaxCommands
    /\ r.kind = "selected" => selection # {}
    /\ given' = given + 1
    /\ newest' = r
    /\ DoRequest(running, r)
    /\ UNCHANGED <<selection, updated, seen, messages, cache, shown,
                   overlapped>>

\* onLightSelected adds or removes a light, also while a request waits.  (Once
\* no request can come any more the selection means nothing.)
SelectLight(l) ==
    /\ given < MaxCommands \/ request # NoCommand
    /\ selection' = IF l \in selection THEN selection \ {l} ELSE selection \cup {l}
    /\ UNCHANGED <<request, running, batches, job, count, updated, pc, seen,
                   messages, cache, shown, given, newest, wanted, overlapped>>

\* The lights updateContent redraws: the reported ones, or all for the names.
Redrawn(b) ==
    IF job[b].kind = "names" THEN Lights
    ELSE {updated[b].slot[i] : i \in 1 .. updated[b].size}

\* Mutant: the handler does not call doRequest.
HandleDoneOnly ==
    /\ messages # << >>
    /\ Head(messages).to = "pump"
    /\ messages' = Tail(messages)
    /\ running' = FALSE
    /\ shown' = [l \in Lights |->
                    IF l \in Redrawn(Head(messages).batch) THEN cache[l] ELSE shown[l]]
    /\ UNCHANGED <<selection, request, batches, job, count, updated, pc, seen, cache,
                   given, newest, wanted, overlapped>>

\* mLightRequestsHandler: running = false, doRequest, onLightRequestDone.  What
\* the next batch changes meanwhile is redrawn when it completes.
HandleDone ==
    /\ messages # << >>
    /\ Head(messages).to = "pump"
    /\ messages' = Tail(messages)
    /\ DoRequest(FALSE, request)
    /\ shown' = [l \in Lights |->
                    IF l \in Redrawn(Head(messages).batch) THEN cache[l] ELSE shown[l]]
    /\ UNCHANGED <<selection, updated, seen, cache, given, newest, overlapped>>

\* The message of onCacheUpdated redraws everything from the cache.
HandleRemote ==
    /\ messages # << >>
    /\ Head(messages).to = "fragment"
    /\ messages' = Tail(messages)
    /\ shown' = cache
    /\ UNCHANGED <<selection, request, running, batches, job, count, updated,
                   pc, seen, cache, given, newest, wanted, overlapped>>

----------------------------------------------------------------------------
(* The SDK thread that carries out one update *)

At(th, label) == pc[th] = label

Goto(th, label) == pc' = [pc EXCEPT ![th] = label]

Names(th) == job[th[1]].kind = "names"

\* Another callback of the same listener is between two of these steps.
Others(th, labels) ==
    \E l \in Lights \ {th[2]} : pc[<<th[1], l>>] \in labels

\* The bridge has accepted the update: the SDK changes its cache.
Accepted(th) ==
    /\ At(th, "sent")
    /\ cache' = IF Names(th) THEN cache
                ELSE [cache EXCEPT ![th[2]] = job[th[1]].color[th[2]]]
    /\ Goto(th, "cached")
    /\ UNCHANGED <<selection, request, running, batches, job, count, updated,
                   seen, messages, shown, given, newest, wanted, overlapped>>

\* No answer, or an error: onError goes straight to onResponse.
Refused(th) ==
    /\ At(th, "sent")
    /\ wanted' = [wanted EXCEPT ![th[2]] = cache[th[2]]]
    /\ Goto(th, "response")
    /\ UNCHANGED <<selection, request, running, batches, job, count, updated,
                   seen, messages, cache, shown, given, newest, overlapped>>

\* onCacheUpdated tells the fragment of the change unless the pump is busy.
OnCacheUpdated(th) ==
    /\ At(th, "cached")
    /\ messages' = IF running THEN messages
                   ELSE Append(messages, [to |-> "fragment", batch |-> 0])
    /\ Goto(th, IF Names(th) THEN "response" ELSE "report")
    /\ UNCHANGED <<selection, request, running, batches, job, count, updated,
                   seen, cache, shown, given, newest, wanted, overlapped>>

\* onStateUpdate: mLightIds.add reads the size of the list ...
OnStateUpdate(th) ==
    /\ At(th, "report")
    /\ seen' = [seen EXCEPT ![th] = updated[th[1]].size]
    /\ overlapped' = (overlapped \/ Others(th, {"add"}))
    /\ Goto(th, "add")
    /\ UNCHANGED <<selection, request, running, batches, job, count, updated,
                   messages, cache, shown, given, newest, wanted>>

\* Mutant: each update replaces the list.
AddLightAlone(th) ==
    /\ At(th, "add")
    /\ updated' = [updated EXCEPT ![th[1]] = [size |-> 1, slot |-> <<th[2]>>]]
    /\ seen' = [seen EXCEPT ![th] = 0]
    /\ Goto(th, "response")
    /\ UNCHANGED <<selection, request, running, batches, job, count, messages, cache,
                   shown, given, newest, wanted, overlapped>>

\* What writing a light at slot n, which was the size once, leaves of a list.
Stored(list, n, l) ==
    [size |-> n + 1,
     slot |-> IF n < Len(list.slot) THEN [list.slot EXCEPT ![n + 1] = l]
              ELSE Append(list.slot, l)]

\* ... and writes the light to the slot at that size.
AddLight(th) ==
    /\ At(th, "add")
    /\ updated' = [updated EXCEPT ![th[1]] = Stored(@, seen[th], th[2])]
    /\ seen' = [seen EXCEPT ![th] = 0]
    /\ Goto(th, "response")
    /\ UNCHANGED <<selection, request, running, batches, job, count, messages,
                   cache, shown, given, newest, wanted, overlapped>>

\* onSuccess or onError: onResponse reads mRequests ...
OnResponse(th) ==
    /\ At(th, "response")
    /\ seen' = [seen EXCEPT ![th] = count[th[1]]]
    /\ overlapped' = (overlapped \/ Others(th, {"write", "test"}))
    /\ Goto(th, "write")
    /\ UNCHANGED <<selection, request, running, batches, job, count, updated,
                   messages, cache, shown, given, newest, wanted>>

\* ... writes it back less one ...
Decrement(th) ==
    /\ At(th, "write")
    /\ count' = [count EXCEPT ![th[1]] = seen[th] - 1]
    /\ seen' = [seen EXCEPT ![th] = 0]
    /\ Goto(th, "test")
    /\ UNCHANGED <<selection, request, running, batches, job, updated, messages,
                   cache, shown, given, newest, wanted, overlapped>>

\* Mutant: the batch is complete one answer early.
ExpectsMore(b) == count[b] > 1

\* ... and reads it once more to see whether the batch is complete.
Expects(b) == count[b] > 0

TestCount(th) ==
    /\ At(th, "test")
    /\ Goto(th, IF Expects(th[1]) THEN "done" ELSE "send")
    /\ UNCHANGED <<selection, request, running, batches, job, count, updated,
                   seen, messages, cache, shown, given, newest, wanted,
                   overlapped>>

SendDone(th) ==
    /\ At(th, "send")
    /\ messages' = Append(messages, [to |-> "pump", batch |-> th[1]])
    /\ Goto(th, "done")
    /\ UNCHANGED <<selection, request, running, batches, job, count, updated,
                   seen, cache, shown, given, newest, wanted, overlapped>>

----------------------------------------------------------------------------
Callback(th) ==
    \/ Accepted(th) \/ Refused(th) \/ OnCacheUpdated(th) \/ OnStateUpdate(th)
    \/ AddLight(th) \/ OnResponse(th) \/ Decrement(th) \/ TestCount(th)
    \/ SendDone(th)

Handle == HandleDone \/ HandleRemote

Next ==
    \/ \E r \in Commands : UpdateLights(r)
    \/ \E l \in Lights : SelectLight(l)
    \/ Handle
    \/ \E th \in Threads : Callback(th)

Spec == Init /\ [][Next]_vars

\* The main looper runs, and an update is answered or times out in the SDK.
FairSpec ==
    /\ Spec
    /\ WF_vars(Handle)
    /\ \A th \in Threads : WF_vars(Callback(th))

\* The executions in which no two callbacks of a listener happen to interfere.
Serial(A) == A /\ ~overlapped'

SerialSpec ==
    /\ Init
    /\ [][Serial(Next)]_vars
    /\ WF_vars(Serial(Handle))
    /\ \A th \in Threads : WF_vars(Serial(Callback(th)))

----------------------------------------------------------------------------
Labels == {"none", "sent", "cached", "report", "add", "response", "write",
           "test", "send", "done"}

Message == [to : {"pump", "fragment"}, batch : 0 .. MaxCommands]

TypeOK ==
    /\ selection \subseteq Lights
    /\ request \in Commands \cup {NoCommand}
    /\ running \in BOOLEAN
    /\ batches \in 0 .. MaxCommands
    /\ job \in [Batches -> Command \cup {NoCommand}]
    /\ count \in [Batches -> Int]
    /\ updated \in [Batches -> [size : Nat, slot : Seq(Lights)]]
    /\ pc \in [Threads -> Labels]
    /\ seen \in [Threads -> Int]
    /\ messages \in Seq(Message)
    /\ cache \in [Lights -> Colors]
    /\ shown \in [Lights -> Colors]
    /\ given \in 0 .. MaxCommands
    /\ newest \in Commands \cup {NoCommand}
    /\ wanted \in [Lights -> Colors]
    /\ overlapped \in BOOLEAN

Active(th) == pc[th] \notin {"none", "done"}

\* doRequest's guard: unless callbacks interfere, the updates in progress are
\* those of the newest batch, and running holds while there are any.
OneBatchAtATime ==
    ~overlapped => \A th \in Threads : Active(th) => th[1] = batches /\ running

\* LightListener: unless callbacks interfere, a batch reports its completion
\* once, after its last answer, and onCacheUpdated never reports its effects.
CompletesOnce ==
    ~overlapped /\ messages # << >> =>
        /\ running
        /\ messages = <<[to |-> "pump", batch |-> batches]>>
        /\ \A l \in job[batches].lights : pc[<<batches, l>>] = "done"

\* The pump: unless callbacks interfere, an idle pump has left each light in the
\* state last asked for it, or in its old one if that update failed, and the
\* screen shows it: no older batch overtakes a newer one.
LatestTakesEffect ==
    ~overlapped /\ ~running => cache = wanted /\ shown = cache

\* The pump keeps the newest request only: an idle pump has run the command
\* given last, and no older one after it.
NewestRunsLast ==
    ~running /\ given > 0 =>
        /\ job[batches].kind = newest.kind
        /\ job[batches].color = newest.color

\* A batch without lights: nothing will ever answer it.
EmptyBatch == running /\ job[batches].lights = {}

\* A waiting request, or a newer one, is run, unless a batch without lights
\* came before it or callbacks interfered.
RequestRunsUnlessWedged ==
    request # NoCommand ~> request = NoCommand \/ EmptyBatch \/ overlapped

\* What a request asks for, whatever lights it means.
Wish(r) == IF r = NoCommand THEN NoCommand ELSE [kind |-> r.kind, color |-> r.color]

Latest ==
    INSTANCE LatestCommand WITH
        Wishes <- {Wish(r) : r \in Commands},
        NoWish <- NoCommand,
        waiting <- Wish(request),
        active <- IF running THEN Wish(job[batches]) ELSE NoCommand,
        stuck <- EmptyBatch

\* Unless callbacks interfere, the pump carries out one command at a time, keeps
\* the newest of those that come meanwhile, starts it as the other ends, and
\* ends every command that has lights.
ImplementsLatestCommand == Latest!Spec

\* A request given by the user is always run, or replaced by a newer one.
RequestRuns == request # NoCommand ~> request = NoCommand
=============================================================================
