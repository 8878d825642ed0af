------------------------ MODULE LightRequestsProofs ------------------------
(***************************************************************************)
(* Proofs about the request pump, for any lights, colors and commands.       *)
(***************************************************************************)
EXTENDS LightRequests, TLAPS, FiniteSetTheorems, SequenceTheorems

(* The part of the inductive invariant that holds whatever interferes. *)

\* Each batch comes from a command given, and so does a request that waits.
Budget == batches + (IF request = NoCommand THEN 0 ELSE 1) <= given

\* A batch made has a job and threads for its lights; the others are untouched.
Jobs ==
    \A b \in Batches :
        IF b <= batches
        THEN /\ job[b] \in Command
             /\ \A l \in Lights : pc[<<b, l>>] # "none" <=> l \in job[b].lights
        ELSE /\ updated[b] = [size |-> 0, slot |-> << >>]
             /\ \A l \in Lights : pc[<<b, l>>] = "none"

Sizes == \A th \in Threads : pc[th] = "add" => seen[th] \in Nat

\* A request waits only while a batch runs.
Waits == request # NoCommand => running

\* The newest command is the one that waits, or else the newest batch.
NewestIsLast ==
    /\ running => batches > 0
    /\ given > 0 =>
          /\ newest \in Commands
          /\ request # NoCommand => request = newest
          /\ request = NoCommand => /\ batches > 0
                                    /\ job[batches].kind = newest.kind
                                    /\ job[batches].color = newest.color

TInv == TypeOK /\ Budget /\ Jobs /\ Sizes /\ Waits /\ NewestIsLast

(* The part that holds until callbacks interfere. *)

Quiet == \A th \in Threads : ~Active(th)

Pending == {"sent", "cached", "report", "add", "response", "write"}

\* The lights of the newest batch whose answer has not been counted.
Left == {l \in Lights : pc[<<batches, l>>] \in Pending}

OneBatch == \A th \in Threads : Active(th) => th[1] = batches /\ running

Counted == batches > 0 => count[batches] = Cardinality(Left)

\* One callback at most is between the read of the counter and its test.
OneCounts ==
    \A th, other \in Threads :
        /\ pc[th] = "write" => seen[th] = count[th[1]]
        /\ pc[th] \in {"write", "test"} /\ pc[other] \in {"write", "test"} => th = other

\* A callback that completes the batch is the last one active.
OneSends ==
    \A th, other \in Threads :
        pc[th] = "send" /\ th # other => ~Active(other)

OneMessage ==
    messages # << >> =>
        /\ running
        /\ messages = <<[to |-> "pump", batch |-> batches]>>
        /\ Quiet
        /\ job[batches].lights # {}

SInv == OneBatch /\ Counted /\ OneCounts /\ OneSends /\ OneMessage

\* One callback at most is in mLightIds.add, and its list has no gaps.
OneAdds ==
    /\ \A b \in Batches : Len(updated[b].slot) = updated[b].size
    /\ \A th \in Threads : pc[th] = "add" => seen[th] = updated[th[1]].size
    /\ \A th, other \in Threads :
           pc[th] = "add" /\ pc[other] = "add" => th = other

Changing(l) ==
    batches > 0 /\ pc[<<batches, l>>] = "sent" /\ job[batches].kind # "names"

Wanted ==
    \A l \in Lights :
        wanted[l] = IF Changing(l) THEN job[batches].color[l] ELSE cache[l]

\* A light whose change is not on screen will be redrawn by the batch.
Shown ==
    \A l \in Lights :
        \/ shown[l] = cache[l]
        \/ /\ running /\ job[batches].kind # "names"
           /\ \/ pc[<<batches, l>>] \in {"cached", "report", "add"}
              \/ \E i \in 1 .. updated[batches].size : updated[batches].slot[i] = l

EInv == OneAdds /\ Wanted /\ Shown

IInv == TInv /\ (~overlapped => SInv /\ EInv)
----------------------------------------------------------------------------
(* The steps of the pump and of the callbacks keep TInv. *)

LEMMA CommandFields ==
    ASSUME NEW r \in Command
    PROVE  /\ r.kind \in Kinds /\ r.lights \subseteq Lights /\ r.color \in [Lights -> Colors]
           /\ r # NoCommand
           /\ \A S \in SUBSET Lights : [kind |-> r.kind, lights |-> S, color |-> r.color] \in Command
BY LightsAssumption DEF Command

LEMMA TargetsAreLights ==
    ASSUME TypeOK, NEW r \in Command
    PROVE  /\ Targets(r) \in SUBSET Lights
           /\ IsFiniteSet(Targets(r))
           /\ Cardinality(Targets(r)) \in Nat
<1>1. Targets(r) \in SUBSET Lights
  BY CommandFields DEF Targets, TypeOK
<1>2. IsFiniteSet(Targets(r))
  BY <1>1, FS_Subset, LightsAssumption
<1> QED BY <1>1, <1>2, FS_CardinalityType

LEMMA ThreadPairs ==
    /\ \A b \in Batches, l \in Lights :
           <<b, l>> \in Threads /\ <<b, l>>[1] = b /\ <<b, l>>[2] = l
    /\ \A th \in Threads : th[1] \in Batches /\ th[2] \in Lights /\ th = <<th[1], th[2]>>
BY DEF Threads

(* A new batch has its job, a thread for each of its lights, and a count. *)
LEMMA RunTyped ==
    ASSUME TypeOK, Jobs, NEW r \in Command, batches < MaxCommands, Run(r)
    PROVE  /\ batches' = batches + 1 /\ batches' \in Batches
           /\ job' \in [Batches -> Command \cup {NoCommand}]
           /\ count' \in [Batches -> Int]
           /\ pc' \in [Threads -> Labels]
           /\ wanted' \in [Lights -> Colors]
           /\ job'[batches'] = Resolved(r)
           /\ count'[batches'] = Cardinality(Targets(r))
           /\ \A b \in Batches : b # batches' => job'[b] = job[b]
           /\ \A l \in Lights : pc'[<<batches', l>>] = IF l \in Targets(r) THEN "sent"
                                                       ELSE "none"
           /\ \A th \in Threads : th[1] # batches' => pc'[th] = pc[th]
<1> DEFINE T == Targets(r)
<1>1. batches' = batches + 1 /\ batches' \in Batches
  BY LightsAssumption DEF Run, TypeOK, Batches
<1>2. Resolved(r) \in Command
  BY CommandFields, TargetsAreLights DEF Resolved
<1>3. job' = [job EXCEPT ![batches'] = Resolved(r)]
  BY <1>1 DEF Run
<1>4. job' \in [Batches -> Command \cup {NoCommand}]
      /\ job'[batches'] = Resolved(r)
      /\ \A b \in Batches : b # batches' => job'[b] = job[b]
  <2> HIDE DEF T
  <2> QED BY <1>1, <1>2, <1>3 DEF TypeOK
<1>5. count' = [count EXCEPT ![batches'] = Cardinality(T)]
  BY <1>1 DEF Run
<1>6. count' \in [Batches -> Int] /\ count'[batches'] = Cardinality(T)
  <2>1. Cardinality(T) \in Int
    BY TargetsAreLights
  <2> HIDE DEF T
  <2> QED BY <1>1, <1>5, <2>1 DEF TypeOK
<1>7. pc' = [th \in Threads |-> IF th[1] = batches' /\ th[2] \in T THEN "sent" ELSE pc[th]]
  BY <1>1 DEF Run
<1>8. /\ pc' \in [Threads -> Labels]
      /\ \A th \in Threads : th[1] # batches' => pc'[th] = pc[th]
  BY <1>7 DEF TypeOK, Labels
<1>9. \A l \in Lights : pc'[<<batches', l>>] = IF l \in T THEN "sent" ELSE "none"
  <2>1. \A l \in Lights : pc[<<batches', l>>] = "none"
    BY <1>1 DEF Jobs, TypeOK
  <2> QED BY <1>1, <1>7, <2>1, ThreadPairs
<1>10. wanted' \in [Lights -> Colors]
  <2>1. r.color \in [Lights -> Colors]
    BY CommandFields
  <2>2. wanted' = [l \in Lights |-> IF l \in T /\ r.kind # "names" THEN r.color[l]
                                   ELSE wanted[l]]
    BY DEF Run
  <2> QED BY <2>1, <2>2 DEF TypeOK
<1> QED BY <1>1, <1>4, <1>6, <1>8, <1>9, <1>10

(* What one step of a callback leaves in order. *)
LEMMA GotoKeeps ==
    ASSUME TInv, NEW th \in Threads, NEW label \in Labels \ {"none"},
           pc[th] # "none", Goto(th, label),
           UNCHANGED <<request, running, batches, job, given, newest>>,
           \A b \in Batches : b # th[1] => updated'[b] = updated[b]
    PROVE  /\ pc' \in [Threads -> Labels]
           /\ \A other \in Threads : pc'[other] = IF other = th THEN label ELSE pc[other]
           /\ Budget' /\ Jobs' /\ Waits' /\ NewestIsLast'
<1>1. pc' \in [Threads -> Labels]
  BY DEF Goto, TInv, TypeOK
<1>2. \A other \in Threads : pc'[other] = IF other = th THEN label ELSE pc[other]
  BY DEF Goto, TInv, TypeOK
<1>3. \A b \in Batches, l \in Lights : (pc'[<<b, l>>] = "none") <=> (pc[<<b, l>>] = "none")
  BY <1>2, ThreadPairs
<1>4. th[1] \in Batches /\ th[1] <= batches
  BY ThreadPairs DEF TInv, Jobs
<1>5. Jobs'
  BY <1>3, <1>4 DEF TInv, Jobs
<1> QED BY <1>1, <1>2, <1>5 DEF TInv, Budget, Waits, NewestIsLast

(* doRequest, given what it is told of the request that waits. *)
LEMMA DoRequestKeeps ==
    ASSUME TypeOK, Jobs, Sizes, running => batches > 0,
           NEW busy \in BOOLEAN, NEW r \in Commands \cup {NoCommand},
           busy => running,
           r # NoCommand => batches < MaxCommands,
           DoRequest(busy, r), UNCHANGED <<updated, seen>>
    PROVE  /\ request' \in Commands \cup {NoCommand} /\ running' \in BOOLEAN
           /\ batches' \in 0 .. MaxCommands
           /\ \/ batches' = batches /\ request' = r
              \/ r # NoCommand /\ batches' = batches + 1 /\ request' = NoCommand
           /\ job' \in [Batches -> Command \cup {NoCommand}]
           /\ count' \in [Batches -> Int] /\ pc' \in [Threads -> Labels]
           /\ wanted' \in [Lights -> Colors]
           /\ Jobs' /\ Sizes' /\ Waits'
           /\ running' => batches' > 0
           /\ request' # NoCommand => request' = r
           /\ r # NoCommand /\ request' = NoCommand =>
                 /\ batches' > 0
                 /\ job'[batches'].kind = r.kind /\ job'[batches'].color = r.color
           /\ r = NoCommand => batches' = batches /\ job' = job
<1>1. CASE /\ busy \/ r = NoCommand
           /\ running' = busy
           /\ request' = r
           /\ UNCHANGED <<batches, job, count, pc, wanted>>
  BY <1>1 DEF TypeOK, Jobs, Sizes, Waits
<1>2. CASE /\ ~busy /\ r # NoCommand
           /\ running' = TRUE
           /\ request' = NoCommand
           /\ Run(r)
  <2>1. r \in Command
    BY <1>2, LightsAssumption
  <2> DEFINE new == Resolved(r)
  <2>2. /\ batches' = batches + 1 /\ batches' \in Batches
        /\ job' \in [Batches -> Command \cup {NoCommand}]
        /\ count' \in [Batches -> Int]
        /\ pc' \in [Threads -> Labels]
        /\ wanted' \in [Lights -> Colors]
        /\ job'[batches'] = new
        /\ \A b \in Batches : b # batches' => job'[b] = job[b]
        /\ \A l \in Lights : pc'[<<batches', l>>] = IF l \in Targets(r) THEN "sent"
                                                    ELSE "none"
        /\ \A th \in Threads : th[1] # batches' => pc'[th] = pc[th]
    BY <1>2, <2>1, RunTyped
  <2>3. new \in Command /\ new.kind = r.kind /\ new.color = r.color
        /\ new.lights = Targets(r)
    BY <2>1, CommandFields, TargetsAreLights DEF Resolved
  <2>4. batches \in Nat
    BY DEF TypeOK
  <2>5. Jobs'
    <3> SUFFICES ASSUME NEW b \in Batches
                 PROVE  IF b <= batches'
                        THEN /\ job'[b] \in Command
                             /\ \A l \in Lights : pc'[<<b, l>>] # "none" <=> l \in job'[b].lights
                        ELSE /\ updated[b] = [size |-> 0, slot |-> << >>]
                             /\ \A l \in Lights : pc'[<<b, l>>] = "none"
      BY DEF Jobs
    <3>1. CASE b = batches'
      <4> HIDE DEF new
      <4> QED BY <2>2, <2>3, <3>1
    <3>2. CASE b # batches'
      <4>1. job'[b] = job[b] /\ \A l \in Lights : pc'[<<b, l>>] = pc[<<b, l>>]
        <5> HIDE DEF new
        <5> QED BY <2>2, <3>2, ThreadPairs
      <4>2. b <= batches' <=> b <= batches
        BY <2>2, <2>4, <3>2 DEF Batches
      <4> QED BY <4>1, <4>2 DEF Jobs
    <3> QED BY <3>1, <3>2
  <2>6. Sizes'
    <3> SUFFICES ASSUME NEW th \in Threads, pc'[th] = "add"
                 PROVE  seen[th] \in Nat
      BY DEF Sizes
    <3>1. th[1] # batches'
      <4> HIDE DEF new
      <4> QED BY <2>2, ThreadPairs
    <3> QED BY <2>2, <3>1 DEF Sizes
  <2>7. Waits'
    BY <1>2 DEF Waits
  <2> HIDE DEF new
  <2> QED BY <1>2, <2>2, <2>3, <2>4, <2>5, <2>6, <2>7 DEF Batches
<1> QED BY <1>1, <1>2 DEF DoRequest
(* Writing a light into the list leaves a list. *)
LEMMA StoredTyped ==
    ASSUME NEW list \in [size : Nat, slot : Seq(Lights)], NEW n \in Nat, NEW l \in Lights
    PROVE  /\ Stored(list, n, l) \in [size : Nat, slot : Seq(Lights)]
           /\ Len(list.slot) = n =>
                 Stored(list, n, l) = [size |-> n + 1, slot |-> Append(list.slot, l)]
<1>1. list.slot \in Seq(Lights)
  OBVIOUS
<1>2. [list.slot EXCEPT ![n + 1] = l] \in Seq(Lights)
  <2>1. Len(list.slot) \in Nat /\ list.slot \in [1 .. Len(list.slot) -> Lights]
    BY <1>1
  <2>2. [list.slot EXCEPT ![n + 1] = l] \in [1 .. Len(list.slot) -> Lights]
    BY <2>1
  <2> QED BY <2>1, <2>2, SeqDef
<1>3. Append(list.slot, l) \in Seq(Lights)
  BY <1>1
<1> QED BY <1>1, <1>2, <1>3 DEF Stored

LEMMA TInvInit == Init => TInv
<1> SUFFICES ASSUME Init PROVE TInv
  OBVIOUS
<1>1. TypeOK
  <2>1. /\ selection \subseteq Lights /\ request \in Commands \cup {NoCommand}
        /\ running \in BOOLEAN /\ newest \in Commands \cup {NoCommand}
        /\ overlapped \in BOOLEAN
    BY DEF Init
  <2>2. 0 \in 0 .. MaxCommands
    BY LightsAssumption
  <2>3. batches \in 0 .. MaxCommands /\ given \in 0 .. MaxCommands
    BY <2>2 DEF Init
  <2>4. [size |-> 0, slot |-> << >>] \in [size : Nat, slot : Seq(Lights)]
    OBVIOUS
  <2>5. /\ job \in [Batches -> Command \cup {NoCommand}] /\ count \in [Batches -> Int]
        /\ updated \in [Batches -> [size : Nat, slot : Seq(Lights)]]
    BY <2>4 DEF Init
  <2>6. /\ pc \in [Threads -> Labels] /\ seen \in [Threads -> Int]
        /\ messages \in Seq(Message)
    BY DEF Init, Labels
  <2>7. /\ cache \in [Lights -> Colors] /\ shown \in [Lights -> Colors]
        /\ wanted \in [Lights -> Colors]
    BY LightsAssumption DEF Init
  <2> QED BY <2>1, <2>3, <2>5, <2>6, <2>7 DEF TypeOK
<1>2. Jobs
  BY ThreadPairs DEF Init, Jobs, Batches
<1> QED BY <1>1, <1>2 DEF Init, TInv, Budget, Sizes, Waits, NewestIsLast

LEMMA UpdateLightsTyped ==
    ASSUME TInv, NEW r \in Commands, UpdateLights(r)
    PROVE  TInv'
<1>1. /\ given < MaxCommands /\ given' = given + 1 /\ newest' = r
      /\ DoRequest(running, r)
      /\ UNCHANGED <<selection, updated, seen, messages, cache, shown, overlapped>>
  BY DEF UpdateLights
<1>2. batches < MaxCommands /\ batches + 1 <= given'
  BY <1>1, LightsAssumption DEF TInv, TypeOK, Budget
<1>3. r # NoCommand
  BY LightsAssumption
<1>4. /\ request' \in Commands \cup {NoCommand} /\ running' \in BOOLEAN
      /\ batches' \in 0 .. MaxCommands
      /\ \/ batches' = batches /\ request' = r
         \/ batches' = batches + 1 /\ request' = NoCommand
      /\ job' \in [Batches -> Command \cup {NoCommand}]
      /\ count' \in [Batches -> Int] /\ pc' \in [Threads -> Labels]
      /\ wanted' \in [Lights -> Colors]
      /\ Jobs' /\ Sizes' /\ Waits'
      /\ running' => batches' > 0
      /\ request' # NoCommand => request' = r
      /\ request' = NoCommand =>
            /\ batches' > 0
            /\ job'[batches'].kind = r.kind /\ job'[batches'].color = r.color
  BY <1>1, <1>2, <1>3, DoRequestKeeps DEF TInv, TypeOK, NewestIsLast
<1>5. TypeOK'
  BY <1>1, <1>4, LightsAssumption DEF TInv, TypeOK
<1>6. Budget'
  <2>1. batches \in Nat /\ batches + 1 <= given'
    BY <1>2 DEF TInv, TypeOK
  <2>2. CASE batches' = batches /\ request' = r
    BY <1>3, <2>1, <2>2 DEF Budget
  <2>3. CASE batches' = batches + 1 /\ request' = NoCommand
    BY <2>1, <2>3 DEF Budget
  <2> QED BY <1>4, <2>2, <2>3
<1>7. NewestIsLast'
  BY <1>1, <1>4 DEF NewestIsLast
<1> QED BY <1>4, <1>5, <1>6, <1>7 DEF TInv

LEMMA SelectLightTyped ==
    ASSUME TInv, NEW l \in Lights, SelectLight(l)
    PROVE  TInv'
BY DEF TInv, SelectLight, TypeOK, Budget, Jobs, Sizes, Waits, NewestIsLast

LEMMA HandleDoneTyped ==
    ASSUME TInv, HandleDone
    PROVE  TInv'
<1>1. /\ messages # << >> /\ messages' = Tail(messages)
      /\ DoRequest(FALSE, request)
      /\ UNCHANGED <<selection, updated, seen, cache, given, newest, overlapped>>
  BY DEF HandleDone
<1>2. request # NoCommand => batches < MaxCommands
  BY LightsAssumption DEF TInv, TypeOK, Budget
<1>3. /\ request' \in Commands \cup {NoCommand} /\ running' \in BOOLEAN
      /\ batches' \in 0 .. MaxCommands
      /\ \/ batches' = batches /\ request' = request
         \/ request # NoCommand /\ batches' = batches + 1 /\ request' = NoCommand
      /\ job' \in [Batches -> Command \cup {NoCommand}]
      /\ count' \in [Batches -> Int] /\ pc' \in [Threads -> Labels]
      /\ wanted' \in [Lights -> Colors]
      /\ Jobs' /\ Sizes' /\ Waits'
      /\ running' => batches' > 0
      /\ request' # NoCommand => request' = request
      /\ request # NoCommand /\ request' = NoCommand =>
            /\ batches' > 0
            /\ job'[batches'].kind = request.kind /\ job'[batches'].color = request.color
      /\ request = NoCommand => batches' = batches /\ job' = job
  BY <1>1, <1>2, DoRequestKeeps DEF TInv, TypeOK, NewestIsLast
<1>4. shown' \in [Lights -> Colors]
  <2>1. shown' = [l \in Lights |-> IF l \in Redrawn(Head(messages).batch) THEN cache[l]
                                  ELSE shown[l]]
    BY DEF HandleDone
  <2> QED BY <2>1 DEF TInv, TypeOK
<1>5. messages' \in Seq(Message)
  BY <1>1 DEF TInv, TypeOK
<1>6. TypeOK'
  BY <1>1, <1>3, <1>4, <1>5 DEF TInv, TypeOK
<1>7. Budget'
  <2>1. batches \in Nat /\ given' = given
    BY <1>1 DEF TInv, TypeOK
  <2>2. CASE batches' = batches /\ request' = request
    BY <2>1, <2>2 DEF TInv, Budget
  <2>3. CASE request # NoCommand /\ batches' = batches + 1 /\ request' = NoCommand
    BY <2>1, <2>3 DEF TInv, Budget
  <2> QED BY <1>3, <2>2, <2>3
<1>8. NewestIsLast'
  BY <1>1, <1>3 DEF TInv, NewestIsLast
<1> QED BY <1>3, <1>6, <1>7, <1>8 DEF TInv

LEMMA HandleRemoteTyped ==
    ASSUME TInv, HandleRemote
    PROVE  TInv'
<1>1. messages' \in Seq(Message)
  BY DEF TInv, TypeOK, HandleRemote
<1> QED BY <1>1 DEF TInv, HandleRemote, TypeOK, Budget, Jobs, Sizes, Waits, NewestIsLast

(* Callbacks. *)

LEMMA MessageTyped ==
    ASSUME TypeOK, NEW b \in 0 .. MaxCommands, NEW to \in {"pump", "fragment"}
    PROVE  Append(messages, [to |-> to, batch |-> b]) \in Seq(Message)
BY DEF TypeOK, Message

LEMMA CallbackTyped ==
    ASSUME TInv, NEW th \in Threads, Callback(th)
    PROVE  TInv'
<1>1. PICK label \in Labels \ {"none"} :
         Goto(th, label) /\ pc[th] # "none" /\ (label = "add" => OnStateUpdate(th))
  BY DEF Callback, Accepted, Refused, OnCacheUpdated, OnStateUpdate, AddLight, OnResponse,
         Decrement, TestCount, SendDone, At, Labels
<1>2. UNCHANGED <<selection, request, running, batches, job, given, newest>>
  BY DEF Callback, Accepted, Refused, OnCacheUpdated, OnStateUpdate, AddLight, OnResponse,
         Decrement, TestCount, SendDone
<1>3. /\ updated' \in [Batches -> [size : Nat, slot : Seq(Lights)]]
      /\ \A b \in Batches : b # th[1] => updated'[b] = updated[b]
  <2>1. CASE AddLight(th)
    <3>1. seen[th] \in Nat /\ th[1] \in Batches /\ th[2] \in Lights
      BY <2>1, ThreadPairs DEF AddLight, At, TInv, Sizes
    <3>2. Stored(updated[th[1]], seen[th], th[2]) \in [size : Nat, slot : Seq(Lights)]
      BY <3>1, StoredTyped DEF TInv, TypeOK
    <3>3. updated' = [updated EXCEPT ![th[1]] = Stored(updated[th[1]], seen[th], th[2])]
      BY <2>1 DEF AddLight
    <3> QED BY <3>1, <3>2, <3>3 DEF TInv, TypeOK
  <2>2. CASE ~AddLight(th)
    <3>1. updated' = updated
      BY <2>2 DEF Callback, Accepted, Refused, OnCacheUpdated, OnStateUpdate, OnResponse,
                  Decrement, TestCount, SendDone
    <3> QED BY <3>1 DEF TInv, TypeOK
  <2> QED BY <2>1, <2>2
<1>4. /\ pc' \in [Threads -> Labels]
      /\ \A other \in Threads : pc'[other] = IF other = th THEN label ELSE pc[other]
      /\ Budget' /\ Jobs' /\ Waits' /\ NewestIsLast'
  BY <1>1, <1>2, <1>3, GotoKeeps
<1>5. count' \in [Batches -> Int] /\ seen' \in [Threads -> Int]
  <2>1. th[1] \in Batches
    BY ThreadPairs
  <2>2. updated[th[1]].size \in Int /\ count[th[1]] \in Int /\ seen[th] - 1 \in Int
    BY <2>1 DEF TInv, TypeOK
  <2> QED BY <2>2 DEF Callback, Accepted, Refused, OnCacheUpdated, OnStateUpdate, AddLight,
                      OnResponse, Decrement, TestCount, SendDone, TInv, TypeOK
<1>6. messages' \in Seq(Message)
  <2>1. th[1] \in 0 .. MaxCommands /\ 0 \in 0 .. MaxCommands
    BY ThreadPairs, LightsAssumption DEF Batches
  <2>2. /\ Append(messages, [to |-> "pump", batch |-> th[1]]) \in Seq(Message)
        /\ Append(messages, [to |-> "fragment", batch |-> 0]) \in Seq(Message)
    BY <2>1, MessageTyped DEF TInv
  <2>3. messages' \in {messages, Append(messages, [to |-> "pump", batch |-> th[1]]),
                       Append(messages, [to |-> "fragment", batch |-> 0])}
    BY DEF Callback, Accepted, Refused, OnCacheUpdated, OnStateUpdate, AddLight, OnResponse,
           Decrement, TestCount, SendDone
  <2> QED BY <2>2, <2>3 DEF TInv, TypeOK
<1>7. cache' \in [Lights -> Colors] /\ shown' = shown
  <2>1. CASE Accepted(th)
    <3>1. job[th[1]] \in Command /\ th[2] \in Lights
      BY <1>1, ThreadPairs DEF TInv, Jobs
    <3>2. job[th[1]].color[th[2]] \in Colors
      BY <3>1, CommandFields
    <3> QED BY <2>1, <3>2 DEF Accepted, TInv, TypeOK
  <2>2. CASE ~Accepted(th)
    BY <2>2 DEF Callback, Refused, OnCacheUpdated, OnStateUpdate, AddLight, OnResponse,
                Decrement, TestCount, SendDone, TInv, TypeOK
  <2> QED BY <2>1, <2>2
<1>8. wanted' \in [Lights -> Colors]
  <2>1. th[2] \in Lights
    BY ThreadPairs
  <2>2. cache[th[2]] \in Colors
    BY <2>1 DEF TInv, TypeOK
  <2> QED BY <2>2 DEF Callback, Accepted, Refused, OnCacheUpdated, OnStateUpdate, AddLight,
                      OnResponse, Decrement, TestCount, SendDone, TInv, TypeOK
<1>9. overlapped' \in BOOLEAN
  BY DEF Callback, Accepted, Refused, OnCacheUpdated, OnStateUpdate, AddLight, OnResponse,
         Decrement, TestCount, SendDone, TInv, TypeOK
<1>10. TypeOK'
  BY <1>2, <1>3, <1>4, <1>5, <1>6, <1>7, <1>8, <1>9 DEF TInv, TypeOK
<1>11. Sizes'
  <2> SUFFICES ASSUME NEW other \in Threads, pc'[other] = "add"
               PROVE  seen'[other] \in Nat
    BY DEF Sizes
  <2>1. CASE other = th
    <3>1. OnStateUpdate(th)
      BY <1>1, <1>4, <2>1
    <3>2. updated[th[1]].size \in Nat
      BY ThreadPairs DEF TInv, TypeOK
    <3> QED BY <2>1, <3>1, <3>2 DEF OnStateUpdate, TInv, TypeOK
  <2>2. CASE other # th
    <3>1. pc[other] = "add"
      BY <1>4, <2>2
    <3>2. seen'[other] = seen[other]
      BY <2>2 DEF Callback, Accepted, Refused, OnCacheUpdated, OnStateUpdate, AddLight,
                  OnResponse, Decrement, TestCount, SendDone, TInv, TypeOK
    <3> QED BY <3>1, <3>2 DEF TInv, Sizes
  <2> QED BY <2>1, <2>2
<1> QED BY <1>4, <1>10, <1>11 DEF TInv

LEMMA TInvNext == TInv /\ [Next]_vars => TInv'
<1> SUFFICES ASSUME TInv, [Next]_vars PROVE TInv'
  OBVIOUS
<1>1. CASE \E r \in Commands : UpdateLights(r)
  BY <1>1, UpdateLightsTyped
<1>2. CASE \E l \in Lights : SelectLight(l)
  BY <1>2, SelectLightTyped
<1>3. CASE HandleDone
  BY <1>3, HandleDoneTyped
<1>4. CASE HandleRemote
  BY <1>4, HandleRemoteTyped
<1>5. CASE \E th \in Threads : Callback(th)
  BY <1>5, CallbackTyped
<1>6. CASE UNCHANGED vars
  BY <1>6 DEF vars, TInv, TypeOK, Budget, Jobs, Sizes, Waits, NewestIsLast
<1> QED BY <1>1, <1>2, <1>3, <1>4, <1>5, <1>6 DEF Next, Handle

(* The state of the pump has its type, for any lights, colors and commands. *)
THEOREM LightsTypeCorrect == Spec => []TypeOK
<1>1. TInv => TypeOK
  BY DEF TInv
<1> QED BY <1>1, TInvInit, TInvNext, PTL DEF Spec

(* doRequest and updateLights: an idle pump has run the command given last. *)
THEOREM NewestLast == Spec => []NewestRunsLast
<1>1. TInv => NewestRunsLast
  BY DEF TInv, TypeOK, Waits, NewestIsLast, NewestRunsLast
<1> QED BY <1>1, TInvInit, TInvNext, PTL DEF Spec
----------------------------------------------------------------------------
(* SInv: one batch at a time, counted down by one callback at a time. *)

LEMMA LeftIsFinite ==
    /\ IsFiniteSet(Left) /\ Cardinality(Left) \in Nat
    /\ Cardinality(Left) = 0 => Left = {}
<1>1. Left \in SUBSET Lights
  BY DEF Left
<1>2. IsFiniteSet(Left)
  BY <1>1, FS_Subset, LightsAssumption
<1> QED BY <1>2, FS_CardinalityType, FS_EmptySet

(* A pump at rest that starts a batch has this one batch. *)
LEMMA RunIsAlone ==
    ASSUME TInv, Quiet, NEW r \in Command, batches < MaxCommands, Run(r), running',
           messages' = << >>
    PROVE  SInv'
<1> DEFINE T == Targets(r)
<1>1. /\ batches' = batches + 1 /\ batches' \in Batches
      /\ count'[batches'] = Cardinality(T)
      /\ \A l \in Lights : pc'[<<batches', l>>] = IF l \in T THEN "sent" ELSE "none"
      /\ \A th \in Threads : th[1] # batches' => pc'[th] = pc[th]
  BY RunTyped DEF TInv
<1>2. \A th \in Threads :
         pc'[th] \in IF th[1] = batches' THEN {"sent", "none"} ELSE {"none", "done"}
  <2> HIDE DEF T
  <2> QED BY <1>1, ThreadPairs DEF Quiet, Active
<1>3. OneBatch' /\ OneCounts' /\ OneSends'
  <2>1. \A th \in Threads :
           (Active(th)' => th[1] = batches') /\ pc'[th] \notin {"write", "test", "send"}
    BY <1>2 DEF Active
  <2>2. OneBatch'
    BY <2>1 DEF OneBatch
  <2>3. OneCounts' /\ OneSends'
    BY <2>1 DEF OneCounts, OneSends
  <2> QED BY <2>2, <2>3
<1>4. Counted'
  <2>1. T \subseteq Lights
    BY TargetsAreLights DEF TInv
  <2>2. Left' = T
    <3> HIDE DEF T
    <3> QED BY <1>1, <2>1 DEF Left, Pending
  <2> QED BY <1>1, <2>2 DEF Counted
<1>5. OneMessage'
  BY DEF OneMessage
<1> QED BY <1>3, <1>4, <1>5 DEF SInv

LEMMA UpdateLightsAlone ==
    ASSUME TInv, SInv, NEW r \in Commands, UpdateLights(r)
    PROVE  SInv'
<1>1. r \in Command /\ batches < MaxCommands
  BY LightsAssumption DEF UpdateLights, TInv, TypeOK, Budget
<1>2. CASE running
  <2>1. UNCHANGED <<batches, job, count, pc, seen, messages, running>>
    BY <1>2 DEF UpdateLights, DoRequest, TInv, TypeOK
  <2> QED BY <2>1 DEF SInv, OneBatch, Counted, Left, OneCounts, OneSends, OneMessage, Quiet,
                      Active
<1>3. CASE ~running
  <2>1. Quiet /\ messages = << >>
    BY <1>3 DEF SInv, OneBatch, OneMessage, Quiet
  <2>2. Run(r) /\ running' /\ messages' = << >>
    BY <1>1, <1>3, <2>1, CommandFields DEF UpdateLights, DoRequest
  <2> QED BY <1>1, <2>1, <2>2, RunIsAlone
<1> QED BY <1>2, <1>3

LEMMA HandleDoneAlone ==
    ASSUME TInv, SInv, HandleDone
    PROVE  SInv'
<1>1. running /\ Quiet /\ messages' = << >>
  <2>1. messages = <<[to |-> "pump", batch |-> batches]>> /\ running /\ Quiet
    BY DEF HandleDone, SInv, OneMessage
  <2> QED BY <2>1 DEF HandleDone
<1>2. CASE request = NoCommand
  <2>1. UNCHANGED <<batches, job, count, pc, seen>>
    BY <1>2 DEF HandleDone, DoRequest
  <2>2. Quiet' /\ \A th \in Threads : ~Active(th)'
    BY <1>1, <2>1 DEF Quiet, Active
  <2>3. OneBatch' /\ OneSends' /\ OneMessage'
    BY <1>1, <2>2 DEF OneBatch, OneSends, OneMessage
  <2>4. Counted' /\ OneCounts'
    BY <2>1 DEF SInv, Counted, Left, OneCounts
  <2> QED BY <2>3, <2>4 DEF SInv
<1>3. CASE request # NoCommand
  <2>1. request \in Command /\ batches < MaxCommands
    BY <1>3, LightsAssumption DEF TInv, TypeOK, Budget
  <2>2. Run(request) /\ running'
    BY <1>3 DEF HandleDone, DoRequest
  <2> QED BY <1>1, <2>1, <2>2, RunIsAlone
<1> QED BY <1>2, <1>3

LEMMA HandleRemoteAlone ==
    ASSUME TInv, SInv, HandleRemote
    PROVE  FALSE
<1>1. messages = <<[to |-> "pump", batch |-> batches]>>
  BY DEF HandleRemote, SInv, OneMessage
<1>2. Head(messages) = [to |-> "pump", batch |-> batches]
  BY <1>1
<1> QED BY <1>2 DEF HandleRemote

(* A step of a callback that counts nothing. *)
LEMMA PendingStep ==
    ASSUME TInv, SInv, NEW th \in Threads, NEW label \in Pending,
           pc[th] \in Pending \ {"write"}, Goto(th, label),
           UNCHANGED <<running, batches, job, count, messages>>,
           \A other \in Threads : other # th => seen'[other] = seen[other],
           label = "write" =>
               /\ seen'[th] = count[th[1]]
               /\ ~Others(th, {"write", "test"})
    PROVE  SInv'
<1>1. \A other \in Threads : pc'[other] = IF other = th THEN label ELSE pc[other]
  BY DEF Goto, TInv, TypeOK
<1>2. Active(th) /\ \A other \in Threads : Active(other)' => Active(other)
  BY <1>1 DEF Active, Pending
<1>3. OneBatch'
  BY <1>2 DEF SInv, OneBatch
<1>4. Left' = Left
  <2>1. \A l \in Lights : pc'[<<batches, l>>] \in Pending <=> pc[<<batches, l>>] \in Pending
    <3> SUFFICES ASSUME NEW l \in Lights
                 PROVE  pc'[<<batches, l>>] \in Pending <=> pc[<<batches, l>>] \in Pending
      OBVIOUS
    <3>1. <<batches, l>> \in Threads
      BY <1>2, ThreadPairs DEF SInv, OneBatch
    <3> QED BY <1>1, <3>1
  <2> QED BY <2>1 DEF Left
<1>5. Counted'
  BY <1>4 DEF SInv, Counted
<1>6. OneCounts'
  <2> SUFFICES ASSUME NEW one \in Threads, NEW other \in Threads
               PROVE  /\ pc'[one] = "write" => seen'[one] = count[one[1]]
                      /\ pc'[one] \in {"write", "test"} /\ pc'[other] \in {"write", "test"}
                            => one = other
    BY DEF OneCounts
  <2>1. \A t \in Threads : label = "write" /\ pc[t] \in {"write", "test"} => t = th
    <3> SUFFICES ASSUME NEW t \in Threads, label = "write", pc[t] \in {"write", "test"}, t # th
                 PROVE  FALSE
      OBVIOUS
    <3>1. t[1] = th[1]
      BY <1>2 DEF SInv, OneBatch, Active
    <3>2. t[2] \in Lights \ {th[2]} /\ t = <<th[1], t[2]>>
      BY <3>1, ThreadPairs
    <3> QED BY <3>2 DEF Others
  <2> QED BY <1>1, <2>1 DEF SInv, OneCounts, Pending
<1>7. OneSends'
  BY <1>1, <1>2 DEF SInv, OneSends, Pending
<1>8. messages = << >>
  BY <1>2 DEF SInv, OneMessage, Quiet
<1>9. OneMessage'
  BY <1>8 DEF OneMessage
<1> QED BY <1>3, <1>5, <1>6, <1>7, <1>9 DEF SInv

LEMMA DecrementAlone ==
    ASSUME TInv, SInv, NEW th \in Threads, Decrement(th)
    PROVE  SInv'
<1>1. /\ pc[th] = "write" /\ Goto(th, "test")
      /\ count' = [count EXCEPT ![th[1]] = seen[th] - 1]
      /\ seen' = [seen EXCEPT ![th] = 0]
      /\ UNCHANGED <<running, batches, job, messages>>
  BY DEF Decrement, At
<1>2. \A other \in Threads : pc'[other] = IF other = th THEN "test" ELSE pc[other]
  BY <1>1 DEF Goto, TInv, TypeOK
<1>3. Active(th) /\ \A other \in Threads : Active(other)' => Active(other)
  BY <1>1, <1>2 DEF Active
<1>4. th[1] = batches /\ batches \in Batches /\ th[2] \in Lights /\ th = <<batches, th[2]>>
  BY <1>3, ThreadPairs DEF SInv, OneBatch
<1>5. Left' = Left \ {th[2]} /\ th[2] \in Left
  <2>1. \A l \in Lights : pc'[<<batches, l>>] = IF l = th[2] THEN "test" ELSE pc[<<batches, l>>]
    BY <1>2, <1>4, ThreadPairs
  <2> QED BY <1>1, <1>4, <2>1 DEF Left, Pending
<1>6. Counted'
  <2>1. Cardinality(Left') = Cardinality(Left) - 1
    BY <1>5, LeftIsFinite, FS_RemoveElement
  <2>2. seen[th] = Cardinality(Left)
    BY <1>1, <1>4 DEF SInv, Counted, OneCounts, TInv, TypeOK, Batches
  <2>3. count'[batches'] = seen[th] - 1
    BY <1>1, <1>4 DEF TInv, TypeOK
  <2> QED BY <2>1, <2>2, <2>3 DEF Counted
<1>7. OneBatch'
  BY <1>1, <1>3 DEF SInv, OneBatch
<1>8. OneCounts'
  BY <1>1, <1>2 DEF SInv, OneCounts
<1>9. OneSends'
  BY <1>2, <1>3 DEF SInv, OneSends
<1>10. messages = << >>
  BY <1>3 DEF SInv, OneMessage, Quiet
<1>11. OneMessage'
  BY <1>1, <1>10 DEF OneMessage
<1> QED BY <1>6, <1>7, <1>8, <1>9, <1>11 DEF SInv

LEMMA TestCountAlone ==
    ASSUME TInv, SInv, NEW th \in Threads, TestCount(th)
    PROVE  SInv'
<1> DEFINE label == IF Expects(th[1]) THEN "done" ELSE "send"
<1>1. /\ pc[th] = "test" /\ Goto(th, label)
      /\ UNCHANGED <<running, batches, job, count, seen, messages>>
  BY DEF TestCount, At
<1>2. \A other \in Threads : pc'[other] = IF other = th THEN label ELSE pc[other]
  BY <1>1 DEF Goto, TInv, TypeOK
<1>3. Active(th) /\ \A other \in Threads : Active(other)' => Active(other)
  BY <1>1, <1>2 DEF Active
<1>4. th[1] = batches /\ batches \in Batches
  BY <1>3, ThreadPairs DEF SInv, OneBatch
<1>5. Left' = Left
  <2>1. \A l \in Lights : pc'[<<batches, l>>] \in Pending <=> pc[<<batches, l>>] \in Pending
    BY <1>1, <1>2, <1>4, ThreadPairs DEF Pending
  <2> QED BY <1>1, <2>1 DEF Left
<1>6. label = "send" => \A other \in Threads : other # th => ~Active(other)
  <2> SUFFICES ASSUME ~Expects(th[1]), NEW other \in Threads, other # th, Active(other)
               PROVE  FALSE
    OBVIOUS
  <2>1. count[batches] = Cardinality(Left) /\ count[batches] <= 0
    BY <1>4, LightsAssumption DEF SInv, Counted, Expects, Batches, TInv, TypeOK
  <2>2. Left = {}
    BY <2>1, LeftIsFinite
  <2>3. other[1] = batches /\ other = <<batches, other[2]>> /\ other[2] \in Lights
    BY ThreadPairs DEF SInv, OneBatch
  <2>4. pc[other] \notin Pending
    BY <2>2, <2>3 DEF Left
  <2>5. pc[other] \in {"test", "send"}
    BY <2>4 DEF Active, Pending, TInv, TypeOK, Labels
  <2>6. pc[other] # "test"
    BY <1>1 DEF SInv, OneCounts
  <2>7. pc[other] # "send"
    BY <1>3 DEF SInv, OneSends
  <2> QED BY <2>5, <2>6, <2>7
<1>7. OneBatch'
  BY <1>1, <1>3 DEF SInv, OneBatch
<1>8. Counted'
  BY <1>1, <1>5 DEF SInv, Counted
<1>9. OneCounts'
  BY <1>1, <1>2 DEF SInv, OneCounts
<1>10. OneSends'
  BY <1>2, <1>3, <1>6 DEF SInv, OneSends
<1>11. messages = << >>
  BY <1>3 DEF SInv, OneMessage, Quiet
<1>12. OneMessage'
  BY <1>1, <1>11 DEF OneMessage
<1> QED BY <1>7, <1>8, <1>9, <1>10, <1>12 DEF SInv

LEMMA SendDoneAlone ==
    ASSUME TInv, SInv, NEW th \in Threads, SendDone(th)
    PROVE  SInv'
<1>1. /\ pc[th] = "send" /\ Goto(th, "done")
      /\ messages' = Append(messages, [to |-> "pump", batch |-> th[1]])
      /\ UNCHANGED <<running, batches, job, count, seen>>
  BY DEF SendDone, At
<1>2. \A other \in Threads : pc'[other] = IF other = th THEN "done" ELSE pc[other]
  BY <1>1 DEF Goto, TInv, TypeOK
<1>3. Active(th) /\ \A other \in Threads : other # th => ~Active(other)
  BY <1>1 DEF Active, SInv, OneSends
<1>4. Quiet' /\ \A other \in Threads : ~Active(other)'
  BY <1>2, <1>3 DEF Quiet, Active
<1>5. th[1] = batches /\ batches \in Batches /\ running
  BY <1>3, ThreadPairs DEF SInv, OneBatch
<1>6. OneBatch' /\ OneSends'
  BY <1>4 DEF OneBatch, OneSends
<1>7. Left' = Left
  <2>1. \A l \in Lights : pc'[<<batches, l>>] \in Pending <=> pc[<<batches, l>>] \in Pending
    BY <1>1, <1>2, <1>5, ThreadPairs DEF Pending
  <2> QED BY <1>1, <2>1 DEF Left
<1>8. Counted'
  BY <1>1, <1>7 DEF SInv, Counted
<1>9. OneCounts'
  BY <1>1, <1>2 DEF SInv, OneCounts
<1>10. messages = << >>
  BY <1>3 DEF SInv, OneMessage, Quiet
<1>11. messages' = <<[to |-> "pump", batch |-> batches']>>
  BY <1>1, <1>5, <1>10
<1>12. job[batches].lights # {}
  <2>1. th[2] \in Lights /\ th = <<batches, th[2]>>
    BY <1>5, ThreadPairs
  <2>2. pc[<<batches, th[2]>>] # "none"
    BY <1>1, <2>1
  <2>3. batches <= batches
    BY DEF TInv, TypeOK
  <2> QED BY <1>5, <2>1, <2>2, <2>3 DEF TInv, Jobs
<1>13. OneMessage'
  BY <1>1, <1>4, <1>5, <1>11, <1>12 DEF OneMessage
<1> QED BY <1>6, <1>8, <1>9, <1>13 DEF SInv

LEMMA CallbackAlone ==
    ASSUME TInv, SInv, NEW th \in Threads, Callback(th), ~overlapped'
    PROVE  SInv'
<1>1. CASE Accepted(th) \/ Refused(th)
  BY <1>1, PendingStep DEF Accepted, Refused, At, Pending
<1>2. CASE OnCacheUpdated(th)
  <2>1. running
    BY <1>2 DEF OnCacheUpdated, At, SInv, OneBatch, Active
  <2>2. /\ pc[th] = "cached" /\ UNCHANGED <<running, batches, job, count, seen>>
        /\ Goto(th, IF Names(th) THEN "response" ELSE "report")
        /\ messages' = messages
    BY <1>2, <2>1 DEF OnCacheUpdated, At
  <2> QED BY <2>2, PendingStep DEF Pending
<1>3. CASE OnStateUpdate(th) \/ AddLight(th)
  <2>1. \A other \in Threads : other # th => seen'[other] = seen[other]
    BY <1>3 DEF OnStateUpdate, AddLight, TInv, TypeOK
  <2>2. pc[th] \in {"report", "add"} /\ UNCHANGED <<running, batches, job, count, messages>>
        /\ (Goto(th, "add") \/ Goto(th, "response"))
    BY <1>3 DEF OnStateUpdate, AddLight, At
  <2> QED BY <2>1, <2>2, PendingStep DEF Pending
<1>4. CASE OnResponse(th)
  <2>1. /\ \A other \in Threads : other # th => seen'[other] = seen[other]
        /\ seen'[th] = count[th[1]]
    BY <1>4 DEF OnResponse, TInv, TypeOK
  <2>2. /\ pc[th] = "response" /\ UNCHANGED <<running, batches, job, count, messages>>
        /\ Goto(th, "write") /\ ~Others(th, {"write", "test"})
    BY <1>4 DEF OnResponse, At
  <2> QED BY <2>1, <2>2, PendingStep DEF Pending
<1>5. CASE Decrement(th)
  BY <1>5, DecrementAlone
<1>6. CASE TestCount(th)
  BY <1>6, TestCountAlone
<1>7. CASE SendDone(th)
  BY <1>7, SendDoneAlone
<1> QED BY <1>1, <1>2, <1>3, <1>4, <1>5, <1>6, <1>7 DEF Callback
----------------------------------------------------------------------------
(* EInv: what the lamps, the cache and the screen show of a batch. *)

LEMMA RunShows ==
    ASSUME TInv, Quiet, EInv, NEW r \in Command, batches < MaxCommands, Run(r),
           UNCHANGED <<updated, seen, cache>>,
           \A l \in Lights : shown'[l] = cache'[l]
    PROVE  EInv'
<1> DEFINE T == Targets(r)
<1>1. /\ batches' = batches + 1 /\ batches' \in Batches
      /\ job'[batches'] = Resolved(r)
      /\ \A l \in Lights : pc'[<<batches', l>>] = IF l \in T THEN "sent" ELSE "none"
      /\ \A th \in Threads : th[1] # batches' => pc'[th] = pc[th]
  BY RunTyped DEF TInv
<1>2. \A th \in Threads : pc'[th] # "add"
  <2> HIDE DEF T
  <2> QED BY <1>1, ThreadPairs DEF Quiet, Active
<1>3. OneAdds'
  BY <1>2 DEF OneAdds, EInv
<1>4. Wanted'
  <2> SUFFICES ASSUME NEW l \in Lights
               PROVE  wanted'[l] = IF Changing(l)' THEN job'[batches'].color[l] ELSE cache'[l]
    BY DEF Wanted
  <2>1. wanted'[l] = IF l \in T /\ r.kind # "names" THEN r.color[l] ELSE wanted[l]
    BY DEF Run
  <2>2. Changing(l)' <=> l \in T /\ r.kind # "names"
    <3>1. batches' > 0 /\ (pc'[<<batches', l>>] = "sent" <=> l \in T)
      <4> HIDE DEF T
      <4> QED BY <1>1, LightsAssumption DEF Batches
    <3> QED BY <1>1, <3>1 DEF Changing, Resolved
  <2>3. wanted[l] = cache[l]
    <3>1. ~Changing(l)
      <4>1. batches > 0 => <<batches, l>> \in Threads
        BY LightsAssumption, SMTT(20) DEF Threads, Batches, TInv, TypeOK
      <4> QED BY <4>1 DEF Changing, Quiet, Active
    <3> QED BY <3>1 DEF EInv, Wanted
  <2> HIDE DEF T
  <2> QED BY <1>1, <2>1, <2>2, <2>3 DEF Resolved
<1>5. Shown'
  BY DEF Shown
<1> QED BY <1>3, <1>4, <1>5 DEF EInv

\* At rest the screen shows the cache.
LEMMA RestIsShown ==
    ASSUME EInv, ~running
    PROVE  \A l \in Lights : shown[l] = cache[l]
BY DEF EInv, Shown

LEMMA UpdateLightsShows ==
    ASSUME TInv, SInv, EInv, NEW r \in Commands, UpdateLights(r)
    PROVE  EInv'
<1>1. r \in Command /\ batches < MaxCommands
  BY LightsAssumption DEF UpdateLights, TInv, TypeOK, Budget
<1>2. UNCHANGED <<updated, seen, cache, shown>>
  BY DEF UpdateLights
<1>3. CASE running
  <2>1. UNCHANGED <<batches, job, pc, wanted, running>>
    BY <1>3 DEF UpdateLights, DoRequest
  <2> QED BY <1>2, <2>1 DEF EInv, OneAdds, Wanted, Changing, Shown
<1>4. CASE ~running
  <2>1. Quiet
    BY <1>4 DEF SInv, OneBatch, Quiet
  <2>2. Run(r)
    BY <1>1, <1>4, CommandFields DEF UpdateLights, DoRequest
  <2>3. \A l \in Lights : shown'[l] = cache'[l]
    BY <1>2, <1>4, RestIsShown
  <2> QED BY <1>1, <1>2, <2>1, <2>2, <2>3, RunShows
<1> QED BY <1>3, <1>4

LEMMA HandleDoneShows ==
    ASSUME TInv, SInv, EInv, HandleDone
    PROVE  EInv'
<1>1. /\ running /\ Quiet /\ Head(messages).batch = batches
      /\ UNCHANGED <<updated, seen, cache>>
  <2>1. messages = <<[to |-> "pump", batch |-> batches]>> /\ running /\ Quiet
    BY DEF HandleDone, SInv, OneMessage
  <2>2. Head(messages) = [to |-> "pump", batch |-> batches]
    BY <2>1
  <2> QED BY <2>1, <2>2 DEF HandleDone
<1>2. batches \in Batches
  BY <1>1, LightsAssumption DEF TInv, TypeOK, NewestIsLast, Batches
<1>3. \A l \in Lights : shown'[l] = cache'[l]
  <2> SUFFICES ASSUME NEW l \in Lights, l \notin Redrawn(batches) PROVE shown[l] = cache[l]
    BY <1>1 DEF HandleDone
  <2>1. job[batches].kind # "names"
    BY DEF Redrawn
  <2>2. ~\E i \in 1 .. updated[batches].size : updated[batches].slot[i] = l
    BY <2>1 DEF Redrawn
  <2>3. pc[<<batches, l>>] \in {"none", "done"}
    BY <1>1, <1>2, ThreadPairs DEF Quiet, Active
  <2> QED BY <2>2, <2>3 DEF EInv, Shown
<1>4. CASE request = NoCommand
  <2>1. UNCHANGED <<batches, job, pc, wanted>>
    BY <1>4 DEF HandleDone, DoRequest
  <2>2. OneAdds' /\ Wanted'
    BY <1>1, <2>1 DEF EInv, OneAdds, Wanted, Changing
  <2>3. Shown'
    BY <1>3 DEF Shown
  <2> QED BY <2>2, <2>3 DEF EInv
<1>5. CASE request # NoCommand
  <2>1. request \in Command /\ batches < MaxCommands
    BY <1>5, LightsAssumption DEF TInv, TypeOK, Budget
  <2>2. Run(request)
    BY <1>5 DEF HandleDone, DoRequest
  <2> QED BY <1>1, <1>3, <2>1, <2>2, RunShows
<1> QED BY <1>4, <1>5

(* What is common to the callbacks of the newest batch. *)
LEMMA ActiveThread ==
    ASSUME TInv, SInv, NEW th \in Threads, Active(th)
    PROVE  /\ th[1] = batches /\ batches \in Batches /\ batches > 0 /\ running
           /\ th[2] \in Lights /\ th = <<batches, th[2]>>
           /\ job[batches] \in Command
           /\ \A l \in Lights : <<batches, l>> = th <=> l = th[2]
           /\ \A other \in Threads : Active(other) => other = <<th[1], other[2]>>
<1>1. th[1] = batches /\ batches \in Batches /\ running /\ th[2] \in Lights
      /\ th = <<batches, th[2]>>
  BY ThreadPairs DEF SInv, OneBatch
<1>2. batches > 0 /\ batches <= batches
  BY <1>1, LightsAssumption DEF Batches
<1>3. job[batches] \in Command
  BY <1>1, <1>2 DEF TInv, Jobs
<1>4. \A l \in Lights : <<batches, l>> = th <=> l = th[2]
  BY <1>1
<1>5. \A other \in Threads : Active(other) => other = <<th[1], other[2]>>
  BY <1>1, ThreadPairs DEF SInv, OneBatch
<1> QED BY <1>1, <1>2, <1>3, <1>4, <1>5

(* A callback that touches neither the list nor a lamp. *)
LEMMA CountingShows ==
    ASSUME TInv, SInv, EInv, NEW th \in Threads, NEW label \in Labels \ {"sent", "add"},
           Active(th), pc[th] \notin {"sent", "report", "add"}, Goto(th, label),
           pc[th] = "cached" /\ label # "report" => job[batches].kind = "names",
           UNCHANGED <<running, batches, job, updated, cache, shown, wanted>>,
           \A other \in Threads : other # th => seen'[other] = seen[other]
    PROVE  EInv'
<1>1. \A other \in Threads : pc'[other] = IF other = th THEN label ELSE pc[other]
  BY DEF Goto, TInv, TypeOK
<1>2. /\ batches \in Batches
      /\ \A l \in Lights : <<batches, l>> \in Threads
      /\ \A l \in Lights : <<batches, l>> = th <=> l = th[2]
  BY ActiveThread, ThreadPairs
<1>3. OneAdds'
  BY <1>1 DEF EInv, OneAdds
<1>4. Wanted'
  <2>1. \A l \in Lights : Changing(l)' <=> Changing(l)
    BY <1>1, <1>2 DEF Changing
  <2> QED BY <2>1 DEF EInv, Wanted
<1>5. Shown'
  <2> SUFFICES ASSUME NEW l \in Lights, shown[l] # cache[l],
                      pc[<<batches, l>>] \in {"cached", "report", "add"},
                      job[batches].kind # "names"
               PROVE  pc'[<<batches, l>>] \in {"cached", "report", "add"}
    BY DEF EInv, Shown
  <2> QED BY <1>1, <1>2
<1> QED BY <1>3, <1>4, <1>5 DEF EInv

LEMMA AcceptedShows ==
    ASSUME TInv, SInv, EInv, NEW th \in Threads, Accepted(th) \/ Refused(th)
    PROVE  EInv'
<1> DEFINE label == IF Accepted(th) THEN "cached" ELSE "response"
<1>1. /\ pc[th] = "sent" /\ Active(th) /\ Goto(th, label)
      /\ UNCHANGED <<running, batches, job, updated, seen, shown>>
  BY DEF Accepted, Refused, At, Active
<1>2. \A other \in Threads : pc'[other] = IF other = th THEN label ELSE pc[other]
  BY <1>1 DEF Goto, TInv, TypeOK
<1>3. /\ th[1] = batches /\ batches \in Batches /\ batches > 0 /\ running
      /\ th[2] \in Lights /\ th = <<batches, th[2]>>
      /\ \A l \in Lights : <<batches, l>> \in Threads
      /\ \A l \in Lights : <<batches, l>> = th <=> l = th[2]
  BY <1>1, ActiveThread, ThreadPairs
<1>4. OneAdds'
  BY <1>1, <1>2 DEF EInv, OneAdds
<1>5. \A l \in Lights : Changing(l)' <=> l # th[2] /\ Changing(l)
  BY <1>1, <1>2, <1>3 DEF Changing
<1>6. CASE Accepted(th)
  <2>1. wanted' = wanted /\ cache' = IF job[batches].kind = "names" THEN cache
                                    ELSE [cache EXCEPT ![th[2]] = job[batches].color[th[2]]]
    BY <1>3, <1>6 DEF Accepted, Names
  <2>2. \A l \in Lights : cache'[l] = IF l = th[2] /\ job[batches].kind # "names"
                                      THEN job[batches].color[l] ELSE cache[l]
    BY <2>1 DEF TInv, TypeOK
  <2>3. Changing(th[2]) <=> job[batches].kind # "names"
    BY <1>1, <1>3 DEF Changing
  <2>4. Wanted'
    BY <1>1, <1>3, <1>5, <2>1, <2>2, <2>3 DEF EInv, Wanted
  <2>5. Shown'
    <3> SUFFICES ASSUME NEW l \in Lights
                 PROVE  \/ shown'[l] = cache'[l]
                        \/ /\ running' /\ job'[batches'].kind # "names"
                           /\ \/ pc'[<<batches', l>>] \in {"cached", "report", "add"}
                              \/ \E i \in 1 .. updated'[batches'].size :
                                    updated'[batches'].slot[i] = l
      BY DEF Shown
    <3>1. CASE l = th[2] /\ job[batches].kind # "names"
      BY <1>1, <1>2, <1>3, <1>6, <3>1
    <3>2. CASE ~(l = th[2] /\ job[batches].kind # "names")
      <4>1. cache'[l] = cache[l]
        BY <2>2, <3>2
      <4>2. job[batches].kind # "names" => pc'[<<batches, l>>] = pc[<<batches, l>>]
        BY <1>2, <1>3, <3>2
      <4> QED BY <1>1, <4>1, <4>2 DEF EInv, Shown
    <3> QED BY <3>1, <3>2
  <2> QED BY <1>4, <2>4, <2>5 DEF EInv
<1>7. CASE ~Accepted(th)
  <2>1. cache' = cache /\ wanted' = [wanted EXCEPT ![th[2]] = cache[th[2]]]
    BY <1>7 DEF Refused
  <2>2. Wanted'
    BY <1>1, <1>3, <1>5, <2>1 DEF EInv, Wanted, TInv, TypeOK
  <2>3. Shown'
    <3>1. \A l \in Lights : pc[<<batches, l>>] \in {"cached", "report", "add"} =>
              pc'[<<batches, l>>] = pc[<<batches, l>>]
      BY <1>1, <1>2, <1>3
    <3> QED BY <1>1, <2>1, <3>1 DEF EInv, Shown
  <2> QED BY <1>4, <2>2, <2>3 DEF EInv
<1> QED BY <1>6, <1>7

LEMMA OnStateUpdateShows ==
    ASSUME TInv, SInv, EInv, NEW th \in Threads, OnStateUpdate(th), ~overlapped'
    PROVE  EInv'
<1>1. /\ pc[th] = "report" /\ Active(th) /\ Goto(th, "add") /\ ~Others(th, {"add"})
      /\ seen' = [seen EXCEPT ![th] = updated[th[1]].size]
      /\ UNCHANGED <<running, batches, job, updated, cache, shown, wanted>>
  BY DEF OnStateUpdate, At, Active
<1>2. \A other \in Threads : pc'[other] = IF other = th THEN "add" ELSE pc[other]
  BY <1>1 DEF Goto, TInv, TypeOK
<1>3. \A l \in Lights : <<batches, l>> \in Threads
  BY <1>1, ActiveThread, ThreadPairs
<1>4. \A other \in Threads : pc[other] # "add"
  <2> SUFFICES ASSUME NEW other \in Threads, pc[other] = "add" PROVE FALSE
    OBVIOUS
  <2>1. other = <<th[1], other[2]>> /\ other # th /\ other[2] \in Lights
    BY <1>1, ActiveThread, ThreadPairs DEF Active
  <2>2. other[2] # th[2]
    BY <2>1, ThreadPairs
  <2> QED BY <1>1, <2>1, <2>2 DEF Others
<1>5. OneAdds'
  <2>1. seen'[th] = updated[th[1]].size
    BY <1>1 DEF TInv, TypeOK
  <2> QED BY <1>1, <1>2, <1>4, <2>1 DEF EInv, OneAdds
<1>6. Wanted'
  <2>1. \A l \in Lights : Changing(l)' <=> Changing(l)
    BY <1>1, <1>2, <1>3 DEF Changing
  <2> QED BY <1>1, <2>1 DEF EInv, Wanted
<1>7. Shown'
  <2>1. \A l \in Lights : pc[<<batches, l>>] \in {"cached", "report", "add"} =>
            pc'[<<batches, l>>] \in {"cached", "report", "add"}
    BY <1>2, <1>3
  <2> QED BY <1>1, <2>1 DEF EInv, Shown
<1> QED BY <1>5, <1>6, <1>7 DEF EInv

LEMMA AddLightShows ==
    ASSUME TInv, SInv, EInv, NEW th \in Threads, AddLight(th)
    PROVE  EInv'
<1> DEFINE list == updated[th[1]]
<1>1. /\ pc[th] = "add" /\ Active(th) /\ Goto(th, "response")
      /\ updated' = [updated EXCEPT ![th[1]] = Stored(list, seen[th], th[2])]
      /\ seen' = [seen EXCEPT ![th] = 0]
      /\ UNCHANGED <<running, batches, job, cache, shown, wanted>>
  BY DEF AddLight, At, Active
<1>2. \A other \in Threads : pc'[other] = IF other = th THEN "response" ELSE pc[other]
  BY <1>1 DEF Goto, TInv, TypeOK
<1>3. /\ th[1] = batches /\ batches \in Batches /\ running /\ th[2] \in Lights
      /\ th = <<batches, th[2]>>
      /\ \A l \in Lights : <<batches, l>> \in Threads
      /\ \A l \in Lights : <<batches, l>> = th <=> l = th[2]
  BY <1>1, ActiveThread, ThreadPairs
<1>4. /\ list \in [size : Nat, slot : Seq(Lights)] /\ list.slot \in Seq(Lights)
      /\ seen[th] = Len(list.slot) /\ list.size = Len(list.slot) /\ seen[th] \in Nat
  BY <1>1, <1>3 DEF EInv, OneAdds, TInv, TypeOK
<1>5. Stored(list, seen[th], th[2]) = [size |-> Len(list.slot) + 1,
                                       slot |-> Append(list.slot, th[2])]
  BY <1>3, <1>4, StoredTyped
<1>6. /\ updated'[th[1]] = [size |-> Len(list.slot) + 1, slot |-> Append(list.slot, th[2])]
      /\ \A b \in Batches : b # th[1] => updated'[b] = updated[b]
  <2> HIDE DEF list
  <2> QED BY <1>1, <1>3, <1>5 DEF TInv, TypeOK
<1>7. \A other \in Threads : pc'[other] # "add"
  BY <1>1, <1>2 DEF EInv, OneAdds
<1>8. OneAdds'
  <2>1. Len(Append(list.slot, th[2])) = Len(list.slot) + 1
    BY <1>3, <1>4
  <2>2. \A b \in Batches : Len(updated'[b].slot) = updated'[b].size
    BY <1>6, <2>1 DEF EInv, OneAdds
  <2> QED BY <1>7, <2>2 DEF OneAdds
<1>9. Wanted'
  <2>1. \A l \in Lights : Changing(l)' <=> Changing(l)
    BY <1>1, <1>2, <1>3 DEF Changing
  <2> QED BY <1>1, <2>1 DEF EInv, Wanted
<1>10. Shown'
  <2> SUFFICES ASSUME NEW l \in Lights, shown[l] # cache[l]
               PROVE  /\ running' /\ job'[batches'].kind # "names"
                      /\ \/ pc'[<<batches', l>>] \in {"cached", "report", "add"}
                         \/ \E i \in 1 .. updated'[batches'].size :
                               updated'[batches'].slot[i] = l
    BY <1>1 DEF Shown
  <2>1. /\ running' /\ job'[batches'].kind # "names"
        /\ \/ pc[<<batches, l>>] \in {"cached", "report", "add"}
           \/ \E i \in 1 .. list.size : list.slot[i] = l
    BY <1>1, <1>3 DEF EInv, Shown
  <2>2. CASE l = th[2]
    <3>1. Append(list.slot, th[2])[Len(list.slot) + 1] = l
          /\ Len(list.slot) + 1 \in 1 .. Len(list.slot) + 1
      BY <1>3, <1>4, <2>2
    <3>2. \E i \in 1 .. updated'[batches'].size : updated'[batches'].slot[i] = l
      <4> HIDE DEF list
      <4> QED BY <1>1, <1>3, <1>6, <3>1, SMTT(20)
    <3> QED BY <2>1, <3>2
  <2>3. CASE l # th[2] /\ pc[<<batches, l>>] \in {"cached", "report", "add"}
    BY <1>1, <1>2, <1>3, <2>1, <2>3
  <2>4. ASSUME NEW i \in 1 .. list.size, list.slot[i] = l
        PROVE  \E j \in 1 .. updated'[batches'].size : updated'[batches'].slot[j] = l
    <3>1. Append(list.slot, th[2])[i] = l /\ i \in 1 .. Len(list.slot) + 1
      BY <1>3, <1>4, <2>4
    <3> HIDE DEF list
    <3> QED BY <1>1, <1>3, <1>6, <3>1
  <2> QED BY <2>1, <2>2, <2>3, <2>4
<1> QED BY <1>8, <1>9, <1>10 DEF EInv

LEMMA CallbackShows ==
    ASSUME TInv, SInv, EInv, NEW th \in Threads, Callback(th), ~overlapped'
    PROVE  EInv'
<1>1. CASE Accepted(th) \/ Refused(th)
  BY <1>1, AcceptedShows
<1>2. CASE OnStateUpdate(th)
  BY <1>2, OnStateUpdateShows
<1>3. CASE AddLight(th)
  BY <1>3, AddLightShows
<1>4. CASE OnCacheUpdated(th)
  <2>1. /\ pc[th] = "cached" /\ Active(th)
        /\ Goto(th, IF Names(th) THEN "response" ELSE "report")
        /\ UNCHANGED <<running, batches, job, updated, cache, shown, wanted, seen>>
    BY <1>4 DEF OnCacheUpdated, At, Active
  <2>2. th[1] = batches
    BY <2>1, ActiveThread
  <2> QED BY <2>1, <2>2, CountingShows DEF Names, Labels
<1>5. CASE OnResponse(th) \/ Decrement(th) \/ TestCount(th) \/ SendDone(th)
  <2>1. /\ pc[th] \in {"response", "write", "test", "send"} /\ Active(th)
        /\ \E label \in {"write", "test", "send", "done"} : Goto(th, label)
        /\ UNCHANGED <<running, batches, job, updated, cache, shown, wanted>>
    BY <1>5 DEF OnResponse, Decrement, TestCount, SendDone, At, Active
  <2>2. \A other \in Threads : other # th => seen'[other] = seen[other]
    BY <1>5 DEF OnResponse, Decrement, TestCount, SendDone, TInv, TypeOK
  <2> QED BY <2>1, <2>2, CountingShows DEF Labels
<1> QED BY <1>1, <1>2, <1>3, <1>4, <1>5 DEF Callback
----------------------------------------------------------------------------
(* The theorems *)

LEMMA IInvInit == Init => IInv
<1> SUFFICES ASSUME Init PROVE IInv
  OBVIOUS
<1>1. TInv
  BY TInvInit
<1>2. Quiet /\ batches = 0 /\ messages = << >>
  BY DEF Init, Quiet, Active
<1>3. SInv
  BY <1>2 DEF Init, SInv, OneBatch, Counted, OneCounts, OneSends, OneMessage, Quiet, Active
<1>4. OneAdds
  BY DEF Init, OneAdds
<1>5. Wanted /\ Shown
  BY <1>2 DEF Init, Wanted, Changing, Shown
<1> QED BY <1>1, <1>3, <1>4, <1>5 DEF IInv, EInv

LEMMA IInvNext == IInv /\ [Next]_vars => IInv'
<1> SUFFICES ASSUME IInv, [Next]_vars PROVE IInv'
  OBVIOUS
<1>1. TInv /\ TInv'
  BY TInvNext DEF IInv
<1>2. ASSUME ~overlapped' PROVE (SInv /\ EInv)'
  <2>1. ~overlapped
    BY <1>2 DEF Next, UpdateLights, SelectLight, Handle, HandleDone, HandleRemote, Callback,
                Accepted, Refused, OnCacheUpdated, OnStateUpdate, AddLight, OnResponse,
                Decrement, TestCount, SendDone, vars
  <2>2. SInv /\ EInv
    BY <2>1 DEF IInv
  <2>3. CASE \E r \in Commands : UpdateLights(r)
    BY <1>1, <2>2, <2>3, UpdateLightsAlone, UpdateLightsShows
  <2>4. CASE (\E l \in Lights : SelectLight(l)) \/ UNCHANGED vars
    <3>1. UNCHANGED <<running, batches, job, count, updated, pc, seen, messages, cache,
                      shown, wanted>>
      BY <2>4 DEF SelectLight, vars
    <3>2. SInv'
      BY <2>2, <3>1 DEF SInv, OneBatch, Counted, Left, OneCounts, OneSends, OneMessage, Quiet,
                        Active
    <3>3. EInv'
      BY <2>2, <3>1 DEF EInv, OneAdds, Wanted, Changing, Shown
    <3> QED BY <3>2, <3>3
  <2>5. CASE HandleDone
    BY <1>1, <2>2, <2>5, HandleDoneAlone, HandleDoneShows
  <2>6. CASE HandleRemote
    BY <1>1, <2>2, <2>6, HandleRemoteAlone
  <2>7. CASE \E th \in Threads : Callback(th)
    BY <1>1, <1>2, <2>2, <2>7, CallbackAlone, CallbackShows
  <2> QED BY <2>3, <2>4, <2>5, <2>6, <2>7 DEF Next, Handle
<1> QED BY <1>1, <1>2 DEF IInv

(* doRequest's guard: unless callbacks interfere, the updates in progress are   *)
(* those of one batch, and running holds while there are any.                   *)
THEOREM OneBatchSafety == Spec => []OneBatchAtATime
<1>1. IInv => OneBatchAtATime
  BY DEF IInv, SInv, OneBatch, OneBatchAtATime
<1> QED BY <1>1, IInvInit, IInvNext, PTL DEF Spec

(* LightListener.onResponse: unless callbacks interfere, a batch of any size    *)
(* reports its completion once, after the last of its answers.                  *)
THEOREM CompletesOnceSafety == Spec => []CompletesOnce
<1>1. IInv => CompletesOnce
  <2> SUFFICES ASSUME IInv, ~overlapped, messages # << >>,
                      NEW l \in job[batches].lights
               PROVE  pc[<<batches, l>>] = "done"
    BY DEF CompletesOnce, IInv, SInv, OneMessage
  <2>1. running /\ Quiet
    BY DEF IInv, SInv, OneMessage
  <2>2. batches \in Batches /\ batches <= batches
    BY <2>1, LightsAssumption DEF IInv, TInv, TypeOK, NewestIsLast, Batches
  <2>3. job[batches] \in Command
    BY <2>2 DEF IInv, TInv, Jobs
  <2>4. l \in Lights
    BY <2>3, CommandFields
  <2>5. pc[<<batches, l>>] # "none"
    BY <2>2, <2>4 DEF IInv, TInv, Jobs
  <2>6. <<batches, l>> \in Threads
    BY <2>2, <2>4, ThreadPairs
  <2> QED BY <2>1, <2>5, <2>6 DEF Quiet, Active
<1> QED BY <1>1, IInvInit, IInvNext, PTL DEF Spec

(* The pump as a whole: unless callbacks interfere, an idle pump has left every *)
(* light as last wanted, and the screen shows it.                               *)
THEOREM LatestEffect == Spec => []LatestTakesEffect
<1>1. IInv => LatestTakesEffect
  <2> SUFFICES ASSUME IInv, ~overlapped, ~running
               PROVE  cache = wanted /\ shown = cache
    BY DEF LatestTakesEffect
  <2>1. TypeOK /\ SInv /\ EInv
    BY DEF IInv, TInv
  <2>2. \A l \in Lights : shown[l] = cache[l]
    BY <2>1, RestIsShown
  <2>3. \A l \in Lights : ~Changing(l)
    <3>1. \A l \in Lights : batches > 0 => <<batches, l>> \in Threads
      BY <2>1, LightsAssumption DEF Threads, Batches, TypeOK
    <3> QED BY <2>1, <3>1 DEF Changing, SInv, OneBatch, Active
  <2>4. \A l \in Lights : cache[l] = wanted[l]
    BY <2>1, <2>3 DEF EInv, Wanted
  <2> QED BY <2>1, <2>2, <2>4 DEF TypeOK
<1> QED BY <1>1, IInvInit, IInvNext, PTL DEF Spec

----------------------------------------------------------------------------
(* The refinement: what the pump does is what LatestCommand allows. *)

LEMMA WishesAreNoNull ==
    ASSUME NEW r \in Command
    PROVE  Wish(r) # NoCommand /\ r # NoCommand
<1>1. /\ r # NoCommand
      /\ [kind |-> r.kind, color |-> r.color] \in [kind : Kinds, color : [Lights -> Colors]]
  BY CommandFields
<1> QED BY <1>1, LightsAssumption DEF Wish

(* To run a request is to begin it. *)
LEMMA RunBegins ==
    ASSUME TInv, NEW r \in Command, batches < MaxCommands, Run(r), request' = NoCommand,
           running' = TRUE
    PROVE  Latest!Begin(Wish(r))
<1>1. job'[batches'] = Resolved(r)
  BY RunTyped DEF TInv
<1>2. Resolved(r) \in Command
  BY CommandFields, TargetsAreLights DEF Resolved, TInv
<1>3. Wish(Resolved(r)) = Wish(r)
  BY <1>2, WishesAreNoNull DEF Wish, Resolved
<1>4. Wish(job[batches])' = Wish(r)
  BY <1>1, <1>3 DEF Wish
<1> QED BY <1>4 DEF Latest!Begin, Wish, EmptyBatch

LEMMA JobIsCommand ==
    ASSUME TInv, running
    PROVE  job[batches] \in Command
<1>1. batches \in Batches /\ batches <= batches
  BY LightsAssumption DEF TInv, TypeOK, NewestIsLast, Batches
<1> QED BY <1>1 DEF TInv, Jobs

LEMMA UpdateLightsGives ==
    ASSUME TInv, NEW r \in Commands, UpdateLights(r)
    PROVE  Latest!Give(Wish(r))
<1>1. r \in Command /\ batches < MaxCommands
  BY LightsAssumption DEF UpdateLights, TInv, TypeOK, Budget
<1>2. CASE running
  <2>1. Wish(job[batches]) # NoCommand
    BY <1>2, JobIsCommand, WishesAreNoNull
  <2>2. request' = r /\ UNCHANGED <<running, batches, job>>
    BY <1>2 DEF UpdateLights, DoRequest, TInv, TypeOK
  <2> QED BY <1>2, <2>1, <2>2 DEF Latest!Give, Wish, EmptyBatch
<1>3. CASE ~running
  <2>1. Run(r) /\ request' = NoCommand /\ running' = TRUE
    BY <1>1, <1>3, CommandFields DEF UpdateLights, DoRequest
  <2>2. Latest!Begin(Wish(r))
    BY <1>1, <2>1, RunBegins
  <2> QED BY <1>3, <2>2 DEF Latest!Give
<1> QED BY <1>2, <1>3

LEMMA HandleDoneEnds ==
    ASSUME TInv, SInv, HandleDone
    PROVE  Latest!End
<1>1. running /\ job[batches].lights # {}
  BY DEF HandleDone, SInv, OneMessage
<1>2. Wish(job[batches]) # NoCommand
  BY <1>1, JobIsCommand, WishesAreNoNull
<1>3. CASE request = NoCommand
  <2>1. request' = NoCommand /\ running' = FALSE /\ UNCHANGED <<batches, job>>
    BY <1>3 DEF HandleDone, DoRequest
  <2> QED BY <1>1, <1>2, <1>3, <2>1 DEF Latest!End, Wish, EmptyBatch
<1>4. CASE request # NoCommand
  <2>1. request \in Command /\ batches < MaxCommands
    BY <1>4, LightsAssumption DEF TInv, TypeOK, Budget
  <2>2. Run(request) /\ request' = NoCommand /\ running' = TRUE
    BY <1>4 DEF HandleDone, DoRequest
  <2>3. Latest!Begin(Wish(request)) /\ Wish(request) # NoCommand
    BY <2>1, <2>2, RunBegins, WishesAreNoNull
  <2> QED BY <1>1, <1>2, <2>3 DEF Latest!End, EmptyBatch
<1> QED BY <1>3, <1>4

LEMMA StepImplements ==
    ASSUME IInv, ~overlapped, [Serial(Next)]_vars
    PROVE  [Latest!Next]_(Latest!wishVars)
<1>1. TInv /\ SInv
  BY DEF IInv
<1>2. CASE \E r \in Commands : UpdateLights(r)
  BY <1>1, <1>2, UpdateLightsGives DEF Latest!Next
<1>3. CASE HandleDone
  BY <1>1, <1>3, HandleDoneEnds DEF Latest!Next
<1>4. CASE HandleRemote
  BY <1>1, <1>4, HandleRemoteAlone
<1>5. CASE \/ \E l \in Lights : SelectLight(l)
           \/ \E th \in Threads : Callback(th)
           \/ UNCHANGED vars
  <2>1. UNCHANGED <<request, running, batches, job>>
    BY <1>5 DEF SelectLight, vars, Callback, Accepted, Refused, OnCacheUpdated, OnStateUpdate,
                AddLight, OnResponse, Decrement, TestCount, SendDone
  <2> QED BY <2>1 DEF Latest!wishVars, Wish, EmptyBatch
<1> QED BY <1>2, <1>3, <1>4, <1>5 DEF Serial, Next, Handle

(* The pump implements LatestCommand, but for its fairness: unless callbacks    *)
(* interfere, one command is carried out at a time, the newest of those that    *)
(* come meanwhile waits, and it starts as the other ends.                       *)
THEOREM ImplementsLatest ==
    Init /\ [][Serial(Next)]_vars => Latest!Init /\ [][Latest!Next]_(Latest!wishVars)
<1>1. Init => IInv /\ ~overlapped /\ Latest!Init
  BY IInvInit DEF Init, Latest!Init, Wish, EmptyBatch
<1>2. IInv /\ ~overlapped /\ [Serial(Next)]_vars => IInv' /\ ~overlapped'
  BY IInvNext DEF Serial, vars
<1> QED BY <1>1, <1>2, StepImplements, PTL
=============================================================================
