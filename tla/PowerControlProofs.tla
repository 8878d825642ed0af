------------------------- MODULE PowerControlProofs -------------------------
(* The power system: what its screen shows is what the strip is, the last      *)
(* command wins, and only the plug that was asked for switches.                *)
EXTENDS PowerControl, ListFacts

(***************************************************************************)
(* The cipher: Xor by its bits.                                                *)
(***************************************************************************)
\* The sum of two bytes, at most.
Word == 0 .. 511

Digit == 0 .. 1

Weights == {1, 2, 4, 8, 16, 32, 64, 128, 256}

\* The number that nine digits write.
Written(d) ==
    d[1] + 2 * d[2] + 4 * d[4] + 8 * d[8] + 16 * d[16] + 32 * d[32] + 64 * d[64]
        + 128 * d[128] + 256 * d[256]

Bits(n) == [w \in Weights |-> Bit(n, w)]

(* A word is what its nine bits write. *)
LEMMA WordBits ==
    ASSUME NEW n \in Word
    PROVE  /\ Bits(n) \in [Weights -> Digit]
           /\ Written(Bits(n)) = n
           /\ \A w \in {512, 1024, 2048, 4096, 8192, 16384, 32768} : Bit(n, w) = 0
<1>1. \A w \in Weights : Bit(n, w) \in Digit
  BY SMTT(60) DEF Word, Weights, Bit, Digit
<1>2. \A w \in {512, 1024, 2048, 4096, 8192, 16384, 32768} : Bit(n, w) = 0
  BY SMTT(60) DEF Word, Bit
<1>3. n = Bit(n, 1) + 2 * Bit(n, 2) + 4 * Bit(n, 4) + 8 * Bit(n, 8) + 16 * Bit(n, 16)
          + 32 * Bit(n, 32) + 64 * Bit(n, 64) + 128 * Bit(n, 128) + 256 * Bit(n, 256)
  BY SMTT(60) DEF Word, Bit
<1> QED BY <1>1, <1>2, <1>3 DEF Bits, Written, Weights

(* Nine digits are the bits of the word they write; the last is beyond a byte. *)
LEMMA WrittenWord ==
    ASSUME NEW d \in [Weights -> Digit]
    PROVE  /\ Written(d) \in Word
           /\ Bits(Written(d)) = d
           /\ Written(d) % 256 = Written([d EXCEPT ![256] = 0])
<1> DEFINE n == Written(d)
<1>1. \A w \in Weights : d[w] \in 0 .. 1
  BY DEF Digit
<1>2. /\ d[1] \in 0 .. 1 /\ d[2] \in 0 .. 1 /\ d[4] \in 0 .. 1 /\ d[8] \in 0 .. 1
      /\ d[16] \in 0 .. 1 /\ d[32] \in 0 .. 1 /\ d[64] \in 0 .. 1 /\ d[128] \in 0 .. 1
      /\ d[256] \in 0 .. 1
  BY <1>1 DEF Weights
<1>3. PICK a \in 0 .. 1, b \in 0 .. 1, c \in 0 .. 1, e \in 0 .. 1, f \in 0 .. 1,
           g \in 0 .. 1, h \in 0 .. 1, i \in 0 .. 1, j \in 0 .. 1 :
         /\ d[1] = a /\ d[2] = b /\ d[4] = c /\ d[8] = e /\ d[16] = f /\ d[32] = g
         /\ d[64] = h /\ d[128] = i /\ d[256] = j
  BY <1>2
<1>4. n = a + 2 * b + 4 * c + 8 * e + 16 * f + 32 * g + 64 * h + 128 * i + 256 * j
  BY <1>3 DEF Written
<1> HIDE DEF n
<1>5. /\ n \in 0 .. 511
      /\ Bit(n, 1) = a /\ Bit(n, 2) = b /\ Bit(n, 4) = c /\ Bit(n, 8) = e
      /\ Bit(n, 16) = f /\ Bit(n, 32) = g /\ Bit(n, 64) = h /\ Bit(n, 128) = i
      /\ Bit(n, 256) = j
      /\ n % 256 = a + 2 * b + 4 * c + 8 * e + 16 * f + 32 * g + 64 * h + 128 * i
  BY <1>4, SMTT(60) DEF Bit
<1>6. /\ n \in 0 .. 511
      /\ Bit(n, 1) = d[1] /\ Bit(n, 2) = d[2] /\ Bit(n, 4) = d[4] /\ Bit(n, 8) = d[8]
      /\ Bit(n, 16) = d[16] /\ Bit(n, 32) = d[32] /\ Bit(n, 64) = d[64]
      /\ Bit(n, 128) = d[128] /\ Bit(n, 256) = d[256]
      /\ n % 256 = d[1] + 2 * d[2] + 4 * d[4] + 8 * d[8] + 16 * d[16] + 32 * d[32]
                   + 64 * d[64] + 128 * d[128]
  BY <1>3, <1>5
<1>7. \A w \in Weights : Bit(n, w) = d[w]
  BY <1>6 DEF Weights
<1>8. Bits(n) = d
  BY <1>7 DEF Bits
<1>9. n % 256 = Written([d EXCEPT ![256] = 0])
  BY <1>2, <1>6 DEF Written, Weights
<1> QED BY <1>6, <1>8, <1>9 DEF n, Word

\* The digits of Xor(x, y).
Parity(d, e) == [w \in Weights |-> (d[w] + e[w]) % 2]

(* Sums of digits without carry, and their inverse. *)
LEMMA Parities ==
    ASSUME NEW d \in [Weights -> Digit], NEW e \in [Weights -> Digit]
    PROVE  /\ Parity(d, e) \in [Weights -> Digit]
           /\ Parity(Parity(d, e), e) = d
<1>1. \A w \in Weights : d[w] \in Digit /\ e[w] \in Digit
  OBVIOUS
<1>2. \A w \in Weights : Parity(d, e)[w] = (d[w] + e[w]) % 2
  BY DEF Parity
<1>3. \A a, b \in Digit : (a + b) % 2 \in Digit /\ (((a + b) % 2) + b) % 2 = a
  BY DEF Digit
<1>4. Parity(d, e) \in [Weights -> Digit]
  BY <1>1, <1>3 DEF Parity
<1>5. Parity(Parity(d, e), e) = [w \in Weights |-> d[w]]
  BY <1>1, <1>2, <1>3 DEF Parity
<1> QED BY <1>4, <1>5

(* Xor(x, y) is what the parities of the bits write. *)
LEMMA XorIsWritten ==
    ASSUME NEW x \in Word, NEW y \in Word
    PROVE  Xor(x, y) = Written(Parity(Bits(x), Bits(y)))
<1> DEFINE p == Parity(Bits(x), Bits(y))
<1>1. \A w \in Weights : p[w] = (Bit(x, w) + Bit(y, w)) % 2
  BY DEF Parity, Bits
<1>2. \A w \in Weights : Differ(x, y, w) = w * p[w]
  BY <1>1 DEF Differ
<1>3. p \in [Weights -> Digit]
  BY WordBits, Parities
<1>4. \A w \in {512, 1024, 2048, 4096, 8192, 16384, 32768} :
         Bit(x, w) = 0 /\ Bit(y, w) = 0
  BY WordBits
<1>5. \A w \in {512, 1024, 2048, 4096, 8192, 16384, 32768} : Differ(x, y, w) = 0
  BY <1>4 DEF Differ
<1> HIDE DEF p
<1>6. \A w \in Weights : p[w] \in Int
  BY <1>3 DEF Digit
<1>7. /\ Differ(x, y, 1) = p[1] /\ Differ(x, y, 2) = 2 * p[2]
      /\ Differ(x, y, 4) = 4 * p[4] /\ Differ(x, y, 8) = 8 * p[8]
      /\ Differ(x, y, 16) = 16 * p[16] /\ Differ(x, y, 32) = 32 * p[32]
      /\ Differ(x, y, 64) = 64 * p[64] /\ Differ(x, y, 128) = 128 * p[128]
      /\ Differ(x, y, 256) = 256 * p[256]
  BY <1>2, <1>6 DEF Weights
<1>8. /\ p[1] \in Int /\ p[2] \in Int /\ p[4] \in Int /\ p[8] \in Int /\ p[16] \in Int
      /\ p[32] \in Int /\ p[64] \in Int /\ p[128] \in Int /\ p[256] \in Int
  BY <1>6 DEF Weights
<1>9. /\ Differ(x, y, 512) = 0 /\ Differ(x, y, 1024) = 0 /\ Differ(x, y, 2048) = 0
      /\ Differ(x, y, 4096) = 0 /\ Differ(x, y, 8192) = 0 /\ Differ(x, y, 16384) = 0
      /\ Differ(x, y, 32768) = 0
  BY <1>5
<1>10. Xor(x, y) =
            p[1] + 2 * p[2] + 4 * p[4] + 8 * p[8] + 16 * p[16] + 32 * p[32] + 64 * p[64]
          + 128 * p[128] + 256 * p[256] + 0 + 0 + 0 + 0 + 0 + 0 + 0
  BY <1>7, <1>9 DEF Xor
<1>11. Xor(x, y) = Written(p)
  BY <1>8, <1>10, SMTT(20) DEF Written
<1> QED BY <1>11 DEF p

(* Encoding twice with the same word is the identity. *)
LEMMA XorTwice ==
    ASSUME NEW x \in Word, NEW y \in Word
    PROVE  Xor(x, y) \in Word /\ Xor(Xor(x, y), y) = x
<1> DEFINE d == Bits(x)
           e == Bits(y)
<1>1. d \in [Weights -> Digit] /\ e \in [Weights -> Digit] /\ Written(d) = x
  BY WordBits
<1>2. Xor(x, y) = Written(Parity(d, e))
  BY XorIsWritten
<1> HIDE DEF d, e
<1>3. Xor(x, y) \in Word /\ Bits(Xor(x, y)) = Parity(d, e)
  <2> DEFINE q == Parity(d, e)
  <2>1. q \in [Weights -> Digit]
    BY <1>1, Parities
  <2> HIDE DEF q
  <2>2. Written(q) \in Word /\ Bits(Written(q)) = q
    BY <2>1, WrittenWord
  <2>3. Xor(x, y) = Written(q)
    BY <1>2 DEF q
  <2>4. Xor(x, y) \in Word /\ Bits(Xor(x, y)) = q
    BY <2>2, <2>3
  <2> QED BY <2>4 DEF q
<1>4. Xor(Xor(x, y), y) = Written(Parity(Parity(d, e), e))
  BY <1>3, XorIsWritten DEF e
<1>5. Parity(Parity(d, e), e) = d
  BY <1>1, Parities
<1> QED BY <1>1, <1>3, <1>4, <1>5

(* Remainders modulo 256. *)
LEMMA Remainders ==
    /\ \A p \in Int : p % 256 \in Byte
    /\ \A p, q \in Byte : p + q \in Word
    /\ \A p \in Word, q \in Byte : (((p + q) % 256) - q) % 256 = p % 256
    /\ \A p, q \in Byte : (((p + q) % 256) - q) % 256 = p
    /\ \A p \in Byte : p \in Word /\ p \in Int
    /\ \A p \in Word : p \in Int
<1>1. \A p \in Int : p % 256 \in Byte
  BY DEF Byte
<1>2. \A p, q \in Byte : p + q \in Word
  BY DEF Byte, Word
<1>3. \A p \in Word, q \in Byte : (((p + q) % 256) - q) % 256 = p % 256
  BY DEF Byte, Word
<1>4. \A p, q \in Byte : (((p + q) % 256) - q) % 256 = p
  BY DEF Byte
<1>5. \A p \in Byte : p \in Word /\ p \in Int
  BY DEF Byte, Word
<1>6. \A p \in Word : p \in Int
  BY DEF Word
<1> QED BY <1>1, <1>2, <1>3, <1>4, <1>5, <1>6, Zenon

(* A byte never reaches beyond the eighth bit. *)
LEMMA XorOfBytes ==
    ASSUME NEW x \in Word, NEW y \in Byte
    PROVE  /\ Xor(x, y) % 256 = Xor(x % 256, y)
           /\ Xor(x, y) % 256 \in Byte
           /\ x \in Byte => Xor(x, y) \in Byte
<1> DEFINE d == Bits(x)
           e == Bits(y)
           low(f) == [f EXCEPT ![256] = 0]
<1>1. y \in Word /\ x % 256 \in Word /\ x % 256 \in Byte /\ Bit(y, 256) = 0
  BY DEF Byte, Bit, Word
<1>2. d \in [Weights -> Digit] /\ e \in [Weights -> Digit] /\ Written(d) = x
  BY <1>1, WordBits
<1>3. 256 \in Weights /\ e[256] = 0
  BY <1>1 DEF Weights, Bits
<1>4. Xor(x, y) = Written(Parity(d, e))
  BY <1>1, XorIsWritten
<1> HIDE DEF d, e
<1>0. 0 \in Digit
  BY DEF Digit
<1>5. low(d) \in [Weights -> Digit]
  BY <1>0, <1>2
<1>6. x % 256 = Written(low(d)) /\ Bits(x % 256) = low(d)
  BY <1>2, <1>5, WrittenWord, ZenonT(30)
<1>7. low(Parity(d, e)) = Parity(low(d), e)
  <2>1. \A w \in Weights : low(Parity(d, e))[w] = Parity(low(d), e)[w]
    BY <1>2, <1>3 DEF Parity
  <2> QED BY <2>1 DEF Parity
<1>8. Xor(x, y) % 256 = Written(low(Parity(d, e)))
  BY <1>2, <1>4, Parities, WrittenWord
<1>9. Xor(x % 256, y) = Written(Parity(low(d), e))
  BY <1>1, <1>6, XorIsWritten DEF e
<1>10. Xor(x, y) % 256 = Xor(x % 256, y)
  BY <1>7, <1>8, <1>9
<1>11. Xor(x, y) % 256 \in Byte
  <2>1. Xor(x, y) \in Word
    BY <1>1, XorTwice
  <2> QED BY <2>1, Remainders, ZenonT(30) DEF Word
<1>12. x \in Byte => x % 256 = x
  BY DEF Byte
<1> QED BY <1>10, <1>11, <1>12

(* The strip decodes what the application encodes, and the other way round. *)
LEMMA DecipherEnciphered ==
    ASSUME NEW key \in [0 .. 7 -> Byte], NEW token \in Buffer, NEW x \in Byte
    PROVE  /\ Decipher(key, token, Encipher(key, token, x)) = x
           /\ Encipher(key, token, x) \in Byte
<1> DEFINE a == Xor(x, token[2])
           s == a + token[3]
           b == Xor(s, key[0])
           y == (b + key[1]) % 256
<1>1. token[2] \in Byte /\ token[3] \in Byte /\ key[0] \in Byte /\ key[1] \in Byte
  BY DEF Buffer
<1>2. a \in Byte /\ Xor(a, token[2]) = x
  <2>1. x \in Word /\ token[2] \in Word
    BY <1>1, Remainders
  <2> QED BY <1>1, <2>1, XorTwice, XorOfBytes
<1> HIDE DEF a
<1>3. s \in Word /\ s % 256 \in Byte /\ ((s % 256) - token[3]) % 256 = a
  <2>1. s \in Word /\ s \in Int
    BY <1>1, <1>2, Remainders
  <2>2. s % 256 \in Byte
    BY <2>1, Remainders, ZenonT(30)
  <2>3. ((s % 256) - token[3]) % 256 = a
      <3> HIDE DEF s
    <3>1. ASSUME NEW p \in Byte, NEW q \in Byte, NEW r, r = p + q
          PROVE  ((r % 256) - q) % 256 = p
      BY <3>1 DEF Byte
    <3>2. s = a + token[3]
      BY DEF s
    <3> QED BY <1>1, <1>2, <3>1, <3>2
  <2> QED BY <2>1, <2>2, <2>3
<1> HIDE DEF s
<1>4. b \in Word /\ b % 256 = Xor(s % 256, key[0])
  <2>1. key[0] \in Word
    BY <1>1, Remainders
  <2> QED BY <1>1, <1>3, <2>1, XorTwice, XorOfBytes
<1>5. Xor(Xor(s % 256, key[0]), key[0]) = s % 256
  BY <1>1, <1>3, Remainders, XorTwice
<1> HIDE DEF b
<1>6. y \in Byte /\ (y - key[1]) % 256 = b % 256
  <2>1. b \in Int /\ key[1] \in Int
    BY <1>1, <1>4, Remainders
  <2>2. b + key[1] \in Int
    BY <2>1
  <2> QED BY <1>1, <1>4, <2>2, Remainders
<1>7. Encipher(key, token, x) = y
  BY DEF Encipher, a, b, s
<1> HIDE DEF y
<1>8. Decipher(key, token, y) = x
  BY <1>2, <1>3, <1>4, <1>5, <1>6 DEF Decipher
<1> QED BY <1>6, <1>7, <1>8

(***************************************************************************)
(* The invariant, by parts.                                                   *)
(***************************************************************************)
\* The password a task has is the strip's, as far as its answer tells.
Accepted ==
    TokenResponse(TaskKey, session.token) = TokenResponse(StripKey, session.token)

\* What a session has done so far.
SessionInv ==
    /\ session.pc = "idle" => session = Idle
    /\ session.pc \in {"connect", "status"} => session.status = NoStatus
    /\ session.pc \in {"set", "confirm"} =>
          session.status # NoStatus /\ session.task.kind = "set"
    /\ session.pc = "bye" /\ session.result = "none" => session.status # NoStatus
    /\ session.result # "none" => session.pc = "bye" /\ session.result = "password"
    /\ session.open => session.token \in Tokens
    /\ session.open /\ session.pc \in {"set", "confirm"} => Accepted
    /\ session.pc = "other" => session.task.kind = "other"

\* The requests and answers of the current activity, and of those before.
OwnTask == {t \in TaskRecords : t.for = activity}

OldTask == {t \in TaskRecords : t.for \notin {0, activity}}

OwnAnswer == {m \in Messages : m.to = activity}

OldAnswer == {m \in Messages : m.to # activity}

\* Whoever asks has been created, a WeMo task has no handler of the power
\* system, and an answer without an error carries a status.
WrongTask ==
    {t \in TaskRecords : t.for \notin 0 .. activity \/ (t.kind = "other" /\ t.for # 0)}

WrongAnswer ==
    {m \in Messages : m.to > activity \/ (m.what = "none" /\ m.sockets = NoStatus)}

Addressed ==
    /\ ~Occurs(queue, WrongTask)
    /\ session.task \notin WrongTask
    /\ ~Occurs(messages, WrongAnswer)

\* What can kill the process, and has not: an answer to a former activity, or to
\* a screen that was left.
Safe ==
    /\ crashed => unsafe
    /\ ~unsafe =>
          /\ ~Occurs(queue, OldTask)
          /\ session.task \notin OldTask
          /\ ~Occurs(messages, OldAnswer)
          /\ system.screen = "left" => system.bound /\ ~Awaited

\* The settings in force are those of the newest request of this activity.
FreshTask == {t \in TaskRecords : t.for = activity /\ t.settings = settings}

StaleTask == {t \in TaskRecords : t.for = activity /\ t.settings # settings}

FreshAnswer == {m \in Messages : m.to = activity /\ m.settings = settings}

StaleAnswer == {m \in Messages : m.to = activity /\ m.settings # settings}

FreshAsked == session.task \in FreshTask \/ Occurs(queue, FreshTask)

InForce ==
    /\ FollowedBy(queue, StaleTask, FreshTask)
    /\ session.task \in StaleTask => Occurs(queue, FreshTask)
    /\ FreshAsked \/ FollowedBy(messages, StaleAnswer, FreshAnswer)
    /\ system.status # "loading" /\ answered # settings =>
          FreshAsked \/ Occurs(messages, FreshAnswer)

\* Requests to set p to what was last asked of it, and to something else.
SetOf(p) == {t \in TaskRecords : t.kind = "set" /\ t.plug = p}

AsAsked(p) == {t \in SetOf(p) : t.value \in last[p]}

Outdated(p) == {t \in SetOf(p) : t.value \notin last[p]}

Underway(p) == session.task \in SetOf(p) /\ session.pc \in {"connect", "status", "set"}

LastAsked(p) ==
    /\ \A u, v \in last[p] : u = v
    /\ last[p] # {} =>
          /\ FollowedBy(queue, Outdated(p), AsAsked(p))
          /\ \/ Occurs(queue, AsAsked(p))
             \/ /\ Underway(p)
                /\ session.task.value \in last[p]
                /\ session.pc = "set" => session.open
             \/ ~Underway(p) /\ plugs[p] \in last[p]

\* The requests of a former activity come before those of the current one.
OldFirst ==
    /\ session.task \in OldTask \/ Occurs(queue, OldTask) =>
          ~Occurs(messages, OwnAnswer) /\ system.status = "loading"
    /\ Occurs(queue, OldTask) => session.task \notin OwnTask
    /\ AllBefore(queue, OldTask, OwnTask)

\* The newest snapshot of the strip made for the screen tells the plugs, but for
\* those touched since.
Matches(sockets) == \A p \in Plugs \ touched : sockets[p] = plugs[p]

Snapped == session.task.for = activity /\ session.status # NoStatus

Unlike == {m \in OwnAnswer : m.what = "none" /\ ~Matches(m.sockets)}

Shown ==
    /\ Snapped => Matches(session.status)
    /\ ~Snapped =>
          /\ FollowedBy(messages, Unlike, OwnAnswer)
          /\ system.status = "online" /\ ~Occurs(messages, OwnAnswer) =>
                Matches(system.sockets)

IInv ==
    /\ TypeOK
    /\ SessionInv
    /\ Addressed
    /\ Safe
    /\ InForce
    /\ OldFirst

\* What holds besides if no wrong password is taken for the right one.
Faithful ==
    /\ \A p \in Plugs : LastAsked(p)
    /\ garbled \/ Shown

(***************************************************************************)
(* Types.                                                                    *)
(***************************************************************************)
(* The status an error stands for. *)
LEMMA StatusOfIsStatus ==
    ASSUME NEW error \in Errors
    PROVE  StatusOf(error) \in Statuses
BY DEF Errors, StatusOf, Statuses

(* The tabs that a change of status turns to. *)
LEMMA TabsAreTabs ==
    ASSUME NEW s \in Systems, NEW status \in Statuses
    PROVE  FirstTab(status) \in Tabs /\ NextTab(s, status) \in Tabs
BY DEF FirstTab, NextTab, Tabs, Systems

(* Asking for a status, or for a plug to be switched. *)
LEMMA TaskRecord ==
    ASSUME TypeOK, NEW kind \in {"get", "set", "other"}, NEW for \in {0, activity},
           NEW plug \in Plugs, NEW value \in BOOLEAN
    PROVE  Task(kind, for, plug, value) \in TaskRecords
<1>1. activity \in 1 .. MaxActivities /\ MaxActivities \in Nat
  BY PowerAssumption DEF TypeOK, Activities
<1>2. for \in 0 .. MaxActivities
  BY <1>1
<1> QED BY <1>2 DEF Task, TaskRecords, TypeOK

(* Pushing a task keeps the types of the queue and of what was asked. *)
LEMMA PushKeepsTypes ==
    ASSUME TypeOK, NEW task \in TaskRecords, Push(task)
    PROVE  queue' \in Seq(TaskRecords) /\ last' \in [Plugs -> SUBSET BOOLEAN]
<1>1. task.plug \in Plugs /\ task.value \in BOOLEAN
  BY DEF TaskRecords
<1> QED BY <1>1 DEF Push, TypeOK

(* The idle session and the system of a new activity are of their types. *)
LEMMA FreshRecords == NoTask \in TaskRecords /\ Idle \in Sessions /\ NewSystem \in Systems
<1>1. 0 \in 0 .. MaxActivities /\ 0 \in Plugs /\ FirstSettings \in Settings
  BY PowerAssumption DEF Plugs
<1>2. NoTask \in TaskRecords
  BY <1>1 DEF NoTask, TaskRecords
<1>3. NewBuffer \in Buffer
  BY DEF NewBuffer, Buffer, Byte
<1>4. Idle \in Sessions
  BY <1>2, <1>3 DEF Idle, Sessions, StatusOrNull, Errors
<1>5. NewSystem \in Systems
  BY DEF NewSystem, Systems, Statuses, Errors, FirstTab, Tabs
<1> QED BY <1>2, <1>4, <1>5

(* What is decoded is a status. *)
LEMMA DecodedStatus ==
    ASSUME NEW key, NEW token, NEW buffer, NEW old \in [Plugs -> BOOLEAN]
    PROVE  /\ AddStatus(key, token, buffer) \in [Plugs -> BOOLEAN]
           /\ Switched(key, token, buffer, old) \in [Plugs -> BOOLEAN]
<1>1. AddStatus(key, token, buffer) \in [Plugs -> BOOLEAN]
  BY DEF AddStatus
<1>2. Switched(key, token, buffer, old) \in [Plugs -> BOOLEAN]
  BY DEF Switched
<1> QED BY <1>1, <1>2

(* A task that is put off leaves what was asked a set of values. *)
LEMMA ForgottenIsType ==
    ASSUME TypeOK
    PROVE  Forgotten \in [Plugs -> SUBSET BOOLEAN]
<1>1. session.task.plug \in Plugs
  BY DEF TypeOK, Sessions, TaskRecords
<1> QED BY <1>1 DEF Forgotten, TypeOK

(* An answer is of the type of the messages. *)
LEMMA AnswerKeepsTypes ==
    ASSUME TypeOK, NEW what \in Errors, NEW status \in StatusOrNull, Answer(what, status)
    PROVE  messages' \in Seq(Messages) /\ session' \in Sessions
<1> DEFINE message == [what |-> what, sockets |-> status, to |-> session.task.for,
                       settings |-> session.task.settings]
<1>1. session.task.for \in 0 .. MaxActivities /\ session.task.settings \in Settings
      /\ MaxActivities \in Nat
  BY PowerAssumption DEF TypeOK, Sessions, TaskRecords
<1>2. session.task.for # 0 => message \in Messages
  BY <1>1 DEF Messages, Activities
<1>3. messages \in Seq(Messages)
  BY DEF TypeOK
<1>4. messages' = IF session.task.for = 0 THEN messages ELSE Append(messages, message)
  BY DEF Answer
<1> HIDE DEF message
<1>5. messages' \in Seq(Messages)
  BY <1>2, <1>3, <1>4
<1>6. session' \in Sessions
  BY FreshRecords DEF Answer
<1> QED BY <1>5, <1>6

(* At the start every variable is of its type. *)
LEMMA TypeHolds == Init => TypeOK
<1> SUFFICES ASSUME Init PROVE TypeOK
  OBVIOUS
<1>1. /\ FirstPlugs \in [Plugs -> BOOLEAN] /\ FirstSettings \in Settings
      /\ MaxRequests \in Nat /\ MaxPresses \in Nat /\ 1 \in 1 .. MaxActivities
  BY PowerAssumption
<1>2. session \in Sessions /\ system \in Systems
  BY FreshRecords DEF Init
<1>3. last \in [Plugs -> SUBSET BOOLEAN]
  BY DEF Init
<1>4. queue \in Seq(TaskRecords) /\ messages \in Seq(Messages)
  BY DEF Init
<1>5. {crashed, garbled, unsafe} \subseteq BOOLEAN /\ touched \subseteq Plugs
  BY DEF Init
<1>6. gone \in [Activities -> Statuses] /\ activity \in Activities
      /\ answered \in Settings
  BY <1>1 DEF Init, Statuses, Activities
<1>7. /\ plugs \in [Plugs -> BOOLEAN] /\ settings \in Settings
      /\ given \in 0 .. MaxRequests /\ presses \in 0 .. MaxPresses
  BY <1>1 DEF Init
<1> QED BY <1>2, <1>3, <1>4, <1>5, <1>6, <1>7 DEF TypeOK

(* Each step keeps the types. *)
LEMMA TypeKept ==
    ASSUME TypeOK, [Next]_vars
    PROVE  TypeOK'
<1>0. /\ plugs \in [Plugs -> BOOLEAN] /\ settings \in Settings
      /\ queue \in Seq(TaskRecords) /\ session \in Sessions /\ messages \in Seq(Messages)
      /\ system \in Systems /\ activity \in Activities
      /\ gone \in [Activities -> Statuses]
      /\ given \in 0 .. MaxRequests /\ presses \in 0 .. MaxPresses
      /\ touched \subseteq Plugs /\ {crashed, garbled, unsafe} \subseteq BOOLEAN
      /\ last \in [Plugs -> SUBSET BOOLEAN] /\ answered \in Settings
  BY DEF TypeOK
<1>1. MaxRequests \in Nat /\ MaxPresses \in Nat /\ MaxActivities \in Nat
      /\ UsedPlugs \subseteq Plugs
      /\ Timers \subseteq [plug : Plugs, value : BOOLEAN]
  BY PowerAssumption
<1>2. 0 \in Plugs
  BY DEF Plugs
<1>3. ASSUME Given PROVE given' \in 0 .. MaxRequests
  BY <1>0, <1>1, <1>3 DEF Given
<1>4. CASE ServiceConnected
  <2>1. Task("get", activity, 0, FALSE) \in TaskRecords
    BY <1>2, TaskRecord
  <2>2. queue' \in Seq(TaskRecords) /\ last' \in [Plugs -> SUBSET BOOLEAN]
    BY <1>4, <2>1, PushKeepsTypes DEF ServiceConnected
  <2>3. system' \in Systems
    BY <1>0, <1>4 DEF ServiceConnected, Systems
  <2> QED BY <1>0, <1>4, <2>2, <2>3 DEF ServiceConnected, TypeOK
<1>5. CASE \/ Leave \/ Return
           \/ \E tab \in {"main", "setup"} : SelectTab(tab)
  <2>1. system' \in Systems
    BY <1>0, <1>5 DEF Leave, Return, SelectTab, Systems, Tabs
  <2>2. unsafe' \in BOOLEAN
    BY <1>0, <1>5 DEF Leave, Return, SelectTab, Awaited
  <2>3. ScreenUnchanged
    BY <1>5 DEF Leave, Return, SelectTab
  <2> QED BY <1>0, <2>1, <2>2, <2>3 DEF ScreenUnchanged, TypeOK
<1>6. CASE Handle
  <2>1. CASE Crash
    BY <1>0, <2>1 DEF Crash, TypeOK
  <2>2. CASE ~Crash
    <3>1. PICK message \in Messages : /\ messages' = Tail(messages)
                                      /\ system' = Responded(system, message)
                                      /\ answered' = message.settings
      <4>1. Head(messages) \in Messages
        BY <1>0, <1>6 DEF Handle
      <4> QED BY <1>6, <2>2, <4>1 DEF Handle
    <3>2. messages' \in Seq(Messages)
      BY <1>0, <1>6, <3>1 DEF Handle
    <3>3. system' \in Systems
      <4>1. /\ StatusOf(message.what) \in Statuses
            /\ NextTab(system, StatusOf(message.what)) \in Tabs
            /\ message.what \in Errors /\ message.sockets \in StatusOrNull
        BY <1>0, StatusOfIsStatus, TabsAreTabs DEF Messages
      <4>2. Told(system, message.what) \in Systems
        BY <1>0, <4>1 DEF Told, Systems
      <4> HIDE DEF Told
      <4>3. PICK s \in Systems : s = Told(system, message.what)
        BY <4>2
      <4> QED BY <3>1, <4>1, <4>3 DEF Responded, Systems, StatusOrNull
    <3>4. answered' \in Settings
      BY <3>1 DEF Messages
    <3> QED BY <1>0, <1>6, <2>2, <3>2, <3>3, <3>4 DEF Handle, TypeOK
  <2> QED BY <2>1, <2>2
<1>7. CASE HandleGone
  <2>1. messages' \in Seq(Messages) /\ crashed' \in BOOLEAN
    <3>1. CASE Crash
      BY <1>0, <3>1 DEF Crash
    <3>2. CASE ~Crash
      <4>1. messages # << >> /\ messages' = Tail(messages) /\ crashed' = crashed
        BY <1>7, <3>2 DEF HandleGone
      <4> QED BY <1>0, <4>1
    <3> QED BY <3>1, <3>2
  <2> QED BY <1>0, <1>7, <2>1 DEF HandleGone, Crash, TypeOK
<1>8. CASE PushOther
  <2>1. Task("other", 0, 0, FALSE) \in TaskRecords
    BY <1>2, TaskRecord
  <2>2. queue' \in Seq(TaskRecords) /\ last' \in [Plugs -> SUBSET BOOLEAN]
    BY <1>8, <2>1, PushKeepsTypes DEF PushOther
  <2> QED BY <1>0, <1>3, <1>8, <2>2 DEF PushOther, TypeOK
<1>9. ASSUME NEW plug \in UsedPlugs, RequestPlugSwitch(plug) PROVE TypeOK'
  <2>1. Task("set", activity, plug, ~system.sockets[plug]) \in TaskRecords
    <3>1. (~system.sockets[plug]) \in BOOLEAN /\ plug \in Plugs
      BY <1>1
    <3> QED BY <3>1, TaskRecord
  <2>2. queue' \in Seq(TaskRecords) /\ last' \in [Plugs -> SUBSET BOOLEAN]
    BY <1>9, <2>1, PushKeepsTypes DEF RequestPlugSwitch
  <2> QED BY <1>0, <1>3, <1>9, <2>2 DEF RequestPlugSwitch, TypeOK
<1>10. ASSUME NEW plug \in UsedPlugs, Press(plug) PROVE TypeOK'
  <2>1. plug \in Plugs /\ presses' \in 0 .. MaxPresses
    BY <1>0, <1>1, <1>10 DEF Press
  <2>2. plugs' \in [Plugs -> BOOLEAN]
    BY <1>0, <1>10, <2>1 DEF Press
  <2>3. last' \in [Plugs -> SUBSET BOOLEAN]
    BY <1>0, <1>10, <2>1 DEF Press
  <2> QED BY <1>0, <1>10, <2>1, <2>2, <2>3 DEF Press, TypeOK
<1>11. ASSUME NEW timer \in Timers, StartCommand(timer) PROVE TypeOK'
  <2>1. Task("set", 0, timer.plug, timer.value) \in TaskRecords
    BY <1>1, TaskRecord
  <2>2. queue' \in Seq(TaskRecords) /\ last' \in [Plugs -> SUBSET BOOLEAN]
    BY <1>11, <2>1, PushKeepsTypes DEF StartCommand
  <2> QED BY <1>0, <1>3, <1>11, <2>2 DEF StartCommand, TypeOK
<1>12. ASSUME NEW entered \in Settings, Connect(entered) PROVE TypeOK'
  <2>1. [Task("get", activity, 0, FALSE) EXCEPT !.settings = entered] \in TaskRecords
    <3>1. PICK task \in TaskRecords : task = Task("get", activity, 0, FALSE)
      BY <1>2, TaskRecord
    <3>2. [task EXCEPT !.settings = entered] \in TaskRecords
      BY DEF TaskRecords
    <3> QED BY <3>1, <3>2
  <2>2. queue' \in Seq(TaskRecords) /\ last' \in [Plugs -> SUBSET BOOLEAN]
    BY <1>12, <2>1, PushKeepsTypes DEF Connect
  <2> QED BY <1>0, <1>3, <1>12, <2>2 DEF Connect, TypeOK
<1>13. CASE Reopen
  <2>1. system' \in Systems
    BY <1>13, FreshRecords DEF Reopen
  <2>2. activity' \in Activities
    BY <1>0, <1>1, <1>13 DEF Reopen, Activities
  <2>3. gone' \in [Activities -> Statuses]
    BY <1>0, <1>13 DEF Reopen, Systems
  <2>4. unsafe' \in BOOLEAN
    BY <1>0, <1>13 DEF Reopen, Awaited
  <2> QED BY <1>0, <1>13, <2>1, <2>2, <2>3, <2>4 DEF Reopen, TypeOK
<1>25. CASE Restore
  BY <1>0, <1>25 DEF Restore, TypeOK
<1>14. CASE Start
  <2>1. Head(queue) \in TaskRecords /\ queue' \in Seq(TaskRecords)
    BY <1>0, <1>14 DEF Start
  <2>2. session' \in Sessions
    BY <1>14, <2>1, FreshRecords DEF Start, Sessions
  <2> QED BY <1>0, <1>14, <2>1, <2>2 DEF Start, MainUnchanged, TypeOK
<1>15. CASE EndOther
  <2>1. session' \in Sessions
    BY <1>15, FreshRecords DEF EndOther
  <2> QED BY <1>0, <1>15, <2>1 DEF EndOther, MainUnchanged, TypeOK
<1>16. CASE Throw
  <2>1. messages' \in Seq(Messages) /\ session' \in Sessions
    BY <1>16, AnswerKeepsTypes DEF Throw, Errors, StatusOrNull
  <2> QED BY <1>0, <1>16, <2>1, ForgottenIsType DEF Throw, AnswerUnchanged, TypeOK
<1>17. CASE ReadToken
  <2>1. Tokens \subseteq Buffer
    BY PowerAssumption
  <2>2. session' \in Sessions
    BY <1>0, <1>17, <2>1 DEF ReadToken, Sessions
  <2> QED BY <1>0, <1>17, <2>2 DEF ReadToken, MainUnchanged, TypeOK
<1>18. CASE ReadStatus
  <2>1. PICK status \in [Plugs -> BOOLEAN] :
           session' = [session EXCEPT !.pc = AfterStatus, !.status = status]
    BY <1>0, <1>18, DecodedStatus DEF ReadStatus
  <2>2. session' \in Sessions
    BY <1>0, <2>1 DEF AfterStatus, Sessions, StatusOrNull
  <2>3. touched' \subseteq Plugs
    BY <1>0, <1>18 DEF ReadStatus, Snapshot
  <2> QED BY <1>0, <1>18, <2>2, <2>3 DEF ReadStatus, MainUnchanged, TypeOK
<1>19. CASE ReadStatusEnd
  <2>1. PICK status \in [Plugs -> BOOLEAN] :
           session' = [session EXCEPT !.pc = AfterStatus, !.open = FALSE, !.status = status]
    BY <1>0, <1>19, DecodedStatus DEF ReadStatusEnd
  <2>2. session' \in Sessions
    BY <1>0, <2>1 DEF AfterStatus, Sessions, StatusOrNull
  <2> QED BY <1>0, <1>19, <2>2, ForgottenIsType DEF ReadStatusEnd, MainUnchanged, TypeOK
<1>20. CASE ReadStatusThrows
  <2>1. session' \in Sessions
    BY <1>0, <1>20 DEF ReadStatusThrows, Sessions, Errors
  <2> QED BY <1>0, <1>20, <2>1, ForgottenIsType DEF ReadStatusThrows, MainUnchanged, TypeOK
<1>21. CASE WriteCommand
  <2>1. session' \in Sessions
    BY <1>0, <1>21 DEF WriteCommand, Sessions
  <2>2. plugs' \in [Plugs -> BOOLEAN]
    BY <1>0, <1>21, DecodedStatus DEF WriteCommand
  <2>3. touched' \subseteq Plugs
    BY <1>0, <1>21 DEF WriteCommand
  <2> QED BY <1>0, <1>21, <2>1, <2>2, <2>3 DEF WriteCommand, MainUnchanged, TypeOK
<1>22. CASE ReadConfirmation
  <2>1. PICK status \in [Plugs -> BOOLEAN], open \in BOOLEAN :
           session' = [session EXCEPT !.pc = "bye", !.open = open, !.status = status]
    <3>1. session.open \in BOOLEAN /\ session = [session EXCEPT !.open = session.open]
      BY <1>0 DEF Sessions
    <3>2. CASE session' = [session EXCEPT
                !.pc = "bye",
                !.status = AddStatus(TaskKey, session.token,
                                     StripStatus(StripKey, session.token, plugs))]
      <4>1. session' = [session EXCEPT
                !.pc = "bye", !.open = session.open,
                !.status = AddStatus(TaskKey, session.token,
                                     StripStatus(StripKey, session.token, plugs))]
        BY <1>0, <3>1, <3>2 DEF Sessions
      <4> QED BY <1>0, <3>1, <4>1, DecodedStatus
    <3>3. CASE session' = [session EXCEPT
                !.pc = "bye", !.open = FALSE,
                !.status = AddStatus(TaskKey, session.token, NewBuffer)]
      BY <1>0, <3>3, DecodedStatus
    <3> QED BY <1>22, <3>2, <3>3 DEF ReadConfirmation
  <2>2. session' \in Sessions
    BY <1>0, <2>1 DEF Sessions, StatusOrNull
  <2>3. touched' \subseteq Plugs /\ garbled' \in BOOLEAN
        /\ last' \in [Plugs -> SUBSET BOOLEAN]
    BY <1>0, <1>22, ForgottenIsType DEF ReadConfirmation, Snapshot
  <2> QED BY <1>0, <1>22, <2>2, <2>3 DEF ReadConfirmation, MainUnchanged, TypeOK
<1>23. CASE Bye
  <2>1. session.result \in Errors /\ session.status \in StatusOrNull
        /\ NoStatus \in StatusOrNull
    BY <1>0 DEF Sessions, StatusOrNull
  <2>2. messages' \in Seq(Messages) /\ session' \in Sessions
    BY <1>23, <2>1, AnswerKeepsTypes DEF Bye
  <2> QED BY <1>0, <1>23, <2>2 DEF Bye, AnswerUnchanged, TypeOK
<1>24. CASE UNCHANGED vars
  BY <1>0, <1>24 DEF vars, TypeOK
<1> QED BY <1>4, <1>5, <1>6, <1>7, <1>8, <1>9, <1>10, <1>11, <1>12, <1>13, <1>14, <1>15,
           <1>16, <1>17, <1>18, <1>19, <1>20, <1>21, <1>22, <1>23, <1>24, <1>25
        DEF Next, Session

(***************************************************************************)
(* What a session has done.                                                  *)
(***************************************************************************)
\* The steps of the main thread and of the strip's buttons leave the session alone.
MainStep ==
    \/ ServiceConnected \/ Leave \/ Return \/ Handle \/ HandleGone \/ PushOther
    \/ \E plug \in UsedPlugs : RequestPlugSwitch(plug) \/ Press(plug)
    \/ \E timer \in Timers : StartCommand(timer)
    \/ \E entered \in Settings : Connect(entered)
    \/ \E tab \in {"main", "setup"} : SelectTab(tab)
    \/ Reopen \/ Restore
    \/ UNCHANGED vars

(* A step is one of the main thread, or of a task's thread. *)
LEMMA Steps == [Next]_vars => MainStep \/ Start \/ EndOther \/ Session
BY DEF Next, MainStep

(* The main thread leaves the session alone. *)
LEMMA MainKeepsSession == MainStep => UNCHANGED session
BY DEF MainStep, ServiceConnected, Leave, Return, SelectTab, ScreenUnchanged, Handle,
       HandleGone, PushOther, Crash, RequestPlugSwitch, Press, StartCommand, Connect,
       Reopen, Restore, vars

(* At the start no session has done anything. *)
LEMMA SessionInvHolds == Init => SessionInv
BY DEF Init, SessionInv, Idle, NoTask

(* What a session has done so far, after each step. *)
LEMMA SessionInvKept ==
    ASSUME TypeOK, SessionInv, [Next]_vars
    PROVE  SessionInv'
<1>0. session \in Sessions
  BY DEF TypeOK
<1>1. NoStatus \notin [Plugs -> BOOLEAN]
  BY PowerAssumption
<1>2. CASE MainStep
  BY <1>2, MainKeepsSession DEF SessionInv, Accepted, TaskKey
<1>3. ASSUME session' = Idle PROVE SessionInv'
  BY <1>3 DEF SessionInv, Idle, NoTask
<1>4. CASE Start
  <2>1. PICK task : /\ task \in TaskRecords
                    /\ session' = [Idle EXCEPT !.task = task,
                                               !.pc = IF task.kind = "other" THEN "other"
                                                      ELSE "connect"]
    <3>1. Head(queue) \in TaskRecords
      BY <1>4 DEF Start, TypeOK
    <3> QED BY <1>4, <3>1 DEF Start
  <2>2. /\ session'.pc \in {"other", "connect"}
        /\ session'.pc = "other" => session'.task.kind = "other"
        /\ session'.status = NoStatus /\ session'.result = "none" /\ ~session'.open
    BY <2>1 DEF Idle
  <2> QED BY <2>2 DEF SessionInv
<1>5. CASE EndOther
  BY <1>3, <1>5 DEF EndOther
<1>6. CASE Throw
  BY <1>3, <1>6 DEF Throw, Answer
<1>7. CASE ReadToken
  <2>1. /\ session'.pc = "status" /\ session'.status = NoStatus
        /\ session'.result = session.result
        /\ session'.open => session'.token \in Tokens
    BY <1>0, <1>7 DEF ReadToken, At, SessionInv, Sessions
  <2>2. session.result = "none"
    BY <1>7 DEF ReadToken, At, SessionInv
  <2> QED BY <2>1, <2>2 DEF SessionInv
<1>8. CASE ReadStatus
  <2>1. PICK status \in [Plugs -> BOOLEAN] :
           session' = [session EXCEPT !.pc = AfterStatus, !.status = status]
    BY <1>8, DecodedStatus DEF ReadStatus, TypeOK
  <2>2. /\ session'.pc = AfterStatus /\ session'.status # NoStatus
        /\ session'.result = session.result /\ session'.open = session.open
        /\ session'.token = session.token /\ session'.task = session.task
    BY <1>0, <1>1, <2>1 DEF Sessions
  <2>3. session.result = "none" /\ session.open /\ session.token \in Tokens
    BY <1>8 DEF ReadStatus, At, SessionInv
  <2>4. Accepted'
    BY <1>8, <2>2 DEF ReadStatus, Accepted, TaskKey
  <2> QED BY <2>2, <2>3, <2>4 DEF SessionInv, AfterStatus
<1>9. CASE ReadStatusEnd
  <2>1. PICK status \in [Plugs -> BOOLEAN] :
           session' = [session EXCEPT !.pc = AfterStatus, !.open = FALSE, !.status = status]
    BY <1>9, DecodedStatus DEF ReadStatusEnd, TypeOK
  <2>2. /\ session'.pc = AfterStatus /\ session'.status # NoStatus
        /\ session'.result = session.result /\ ~session'.open
        /\ session'.task = session.task
    BY <1>0, <1>1, <2>1 DEF Sessions
  <2>3. session.result = "none"
    BY <1>9 DEF ReadStatusEnd, At, SessionInv
  <2> QED BY <2>2, <2>3 DEF SessionInv, AfterStatus
<1>10. CASE ReadStatusThrows
  <2>1. /\ session'.pc = "bye" /\ session'.result = "password"
        /\ session'.open = session.open /\ session'.token = session.token
    BY <1>0, <1>10 DEF ReadStatusThrows, Sessions
  <2> QED BY <2>1 DEF SessionInv
<1>11. CASE WriteCommand
  <2>1. session.pc = "set" /\ session' = [session EXCEPT !.pc = "confirm"]
    BY <1>11 DEF WriteCommand, At
  <2>2. /\ session'.pc = "confirm" /\ session'.status = session.status
        /\ session'.task = session.task /\ session'.result = session.result
        /\ session'.open = session.open /\ session'.token = session.token
    BY <1>0, <2>1 DEF Sessions
  <2> QED BY <2>1, <2>2 DEF SessionInv, Accepted, TaskKey
<1>12. CASE ReadConfirmation
  <2>1. PICK status \in [Plugs -> BOOLEAN], open \in {session.open, FALSE} :
           session' = [session EXCEPT !.pc = "bye", !.open = open, !.status = status]
    <3>1. session = [session EXCEPT !.open = session.open]
      BY <1>0 DEF Sessions
    <3>2. CASE session' = [session EXCEPT
                !.pc = "bye",
                !.status = AddStatus(TaskKey, session.token,
                                     StripStatus(StripKey, session.token, plugs))]
      <4>1. session' = [session EXCEPT
                !.pc = "bye", !.open = session.open,
                !.status = AddStatus(TaskKey, session.token,
                                     StripStatus(StripKey, session.token, plugs))]
        BY <1>0, <3>1, <3>2 DEF Sessions
      <4> QED BY <4>1, DecodedStatus DEF TypeOK
    <3>3. CASE session' = [session EXCEPT
                !.pc = "bye", !.open = FALSE,
                !.status = AddStatus(TaskKey, session.token, NewBuffer)]
      BY <3>3, DecodedStatus DEF TypeOK
    <3> QED BY <1>12, <3>2, <3>3 DEF ReadConfirmation
  <2>2. /\ session'.pc = "bye" /\ session'.status # NoStatus
        /\ session'.result = session.result
        /\ session'.open => session.open /\ session'.token = session.token
    BY <1>0, <1>1, <2>1 DEF Sessions
  <2>3. session.result = "none"
    BY <1>12 DEF ReadConfirmation, At, SessionInv
  <2> QED BY <2>2, <2>3 DEF SessionInv
<1>13. CASE Bye
  BY <1>3, <1>13 DEF Bye, Answer
<1> QED BY <1>2, <1>4, <1>5, <1>6, <1>7, <1>8, <1>9, <1>10, <1>11, <1>12, <1>13, Steps
        DEF Session

(***************************************************************************)
(* What a step does to the queue and to the answers.                          *)
(***************************************************************************)
\* A task is pushed, with the settings then in force.
Asked(task) ==
    /\ Push(task)
    /\ task.for \in {0, activity}
    /\ task.kind = "other" => task.for = 0
    /\ task.for # 0 => system.screen = "shown" \/ ~system.bound
    /\ IF task.for = 0 THEN settings' = settings ELSE task.settings = settings'
    /\ system' \in {system, [system EXCEPT !.bound = TRUE]}
    /\ UNCHANGED <<plugs, session, messages, activity, crashed, touched, garbled,
                   answered, unsafe>>

\* A task has done its work: an answer without an error has what it has read.
Answered(what, status) ==
    /\ Answer(what, status)
    /\ what = "none" => status = session.status /\ status # NoStatus
    /\ AnswerUnchanged

\* The system changes in its screen and its tab at most.
SameSystem ==
    /\ system'.status = system.status
    /\ system'.bound = system.bound
    /\ system'.sockets = system.sockets

\* A step that leaves the queue, the answers and the system's status alone.
Apart ==
    /\ UNCHANGED <<settings, queue, messages, activity, answered>>
    /\ session'.task = session.task
    /\ SameSystem

\* Such a step neither crashes nor leaves the screen.
Quietly == UNCHANGED <<crashed, unsafe>> /\ system'.screen \in {system.screen, "shown"}

\* An answer arrives for a screen that was left, or for a former activity.
BadAnswer ==
    /\ messages # << >>
    /\ Head(messages).to # activity \/ system.screen = "left"

(* The requests of the main thread are pushed with the settings in force. *)
LEMMA Asking ==
    ASSUME TypeOK,
           \/ ServiceConnected
           \/ PushOther
           \/ \E plug \in UsedPlugs : RequestPlugSwitch(plug)
           \/ \E timer \in Timers : StartCommand(timer)
           \/ \E entered \in Settings : Connect(entered)
    PROVE  \E task \in TaskRecords : Asked(task)
<1>0. /\ activity \in Activities /\ system \in Systems /\ settings \in Settings
      /\ activity # 0
  BY PowerAssumption DEF TypeOK, Activities
<1>1. 0 \in Plugs /\ UsedPlugs \subseteq Plugs
      /\ Timers \subseteq [plug : Plugs, value : BOOLEAN]
  BY PowerAssumption DEF Plugs
<1>3. CASE ServiceConnected
  <2>1. Task("get", activity, 0, FALSE) \in TaskRecords
    BY <1>1, TaskRecord
  <2>2. Asked(Task("get", activity, 0, FALSE))
    BY <1>0, <1>3 DEF ServiceConnected, Asked, Task
  <2> QED BY <2>1, <2>2
<1>4. CASE PushOther
  <2>1. Task("other", 0, 0, FALSE) \in TaskRecords
    BY <1>1, TaskRecord
  <2>2. Asked(Task("other", 0, 0, FALSE))
    BY <1>4 DEF PushOther, Given, Asked, Task
  <2> QED BY <2>1, <2>2
<1>5. ASSUME NEW plug \in UsedPlugs, RequestPlugSwitch(plug)
      PROVE  \E task \in TaskRecords : Asked(task)
  <2>1. (~system.sockets[plug]) \in BOOLEAN /\ plug \in Plugs
    BY <1>1
  <2>2. Task("set", activity, plug, ~system.sockets[plug]) \in TaskRecords
    BY <2>1, TaskRecord
  <2>3. Asked(Task("set", activity, plug, ~system.sockets[plug]))
    BY <1>0, <1>5 DEF RequestPlugSwitch, Given, Asked, Task
  <2> QED BY <2>2, <2>3
<1>6. ASSUME NEW timer \in Timers, StartCommand(timer)
      PROVE  \E task \in TaskRecords : Asked(task)
  <2>1. Task("set", 0, timer.plug, timer.value) \in TaskRecords
    BY <1>1, TaskRecord
  <2>2. Asked(Task("set", 0, timer.plug, timer.value))
    BY <1>6 DEF StartCommand, Given, Asked, Task
  <2> QED BY <2>1, <2>2
<1>7. ASSUME NEW entered \in Settings, Connect(entered)
      PROVE  \E task \in TaskRecords : Asked(task)
  <2> DEFINE task == [Task("get", activity, 0, FALSE) EXCEPT !.settings = entered]
  <2>1. PICK t \in TaskRecords : t = Task("get", activity, 0, FALSE)
    BY <1>1, TaskRecord
  <2>2. task \in TaskRecords
    BY <2>1 DEF TaskRecords
  <2>3. task.for = activity /\ task.kind = "get" /\ task.settings = entered
    BY DEF Task
  <2>4. Push(task) /\ settings' = entered /\ system.screen = "shown"
        /\ UNCHANGED <<plugs, session, messages, system, activity, crashed, touched,
                       garbled, answered, unsafe>>
    BY <1>7 DEF Connect, Given, Entering
  <2> HIDE DEF task
  <2>5. Asked(task)
    BY <1>0, <2>3, <2>4 DEF Asked
  <2> QED BY <2>2, <2>5
<1> QED BY <1>3, <1>4, <1>5, <1>6, <1>7

(* What the main thread does besides hearing answers. *)
LEMMA MainSteps ==
    ASSUME TypeOK, MainStep
    PROVE  \/ \E task \in TaskRecords : Asked(task)
           \/ Handle /\ ~Crash
           \/ HandleGone /\ ~Crash
           \/ Reopen
           \/ Apart /\ (Leave \/ Restore \/ Quietly \/ (Crash /\ BadAnswer))
<1>0. system \in Systems
  BY DEF TypeOK
<1>1. ASSUME Crash PROVE Apart
  BY <1>1 DEF Crash, Apart, SameSystem
<1>2. ASSUME NEW plug \in UsedPlugs, Press(plug) PROVE Apart /\ Quietly
  BY <1>2 DEF Press, Apart, SameSystem, Quietly
<1>3. ASSUME Leave PROVE Apart
  <2>1. SameSystem
    BY <1>0, <1>3 DEF Leave, SameSystem, Systems
  <2> QED BY <1>3, <2>1 DEF Leave, ScreenUnchanged, Apart
<1>4. ASSUME Return \/ \E tab \in {"main", "setup"} : SelectTab(tab)
      PROVE  Apart /\ Quietly
  <2>1. SameSystem /\ system'.screen \in {system.screen, "shown"}
    BY <1>0, <1>4 DEF Return, SelectTab, SameSystem, Systems
  <2> QED BY <1>4, <2>1 DEF Return, SelectTab, ScreenUnchanged, Apart, Quietly
<1>5. ASSUME UNCHANGED vars PROVE Apart /\ Quietly
  BY <1>5 DEF vars, Apart, SameSystem, Quietly
<1>6. ASSUME Restore PROVE Apart
  BY <1>6 DEF Restore, Apart, SameSystem
<1>7. CASE Handle /\ Crash
  <2>1. messages # << >> /\ (TurnFails(system, Head(messages).what) \/ messages' # messages)
    <3>1. messages # << >> => Tail(messages) # messages
      <4>1. messages \in Seq(Messages)
        BY DEF TypeOK
      <4> QED BY <4>1
    <3> QED BY <1>7, <3>1 DEF Handle
  <2> QED BY <1>1, <1>7, <2>1 DEF Crash, TurnFails, BadAnswer
<1>8. CASE HandleGone /\ Crash
  BY <1>1, <1>8 DEF HandleGone, BadAnswer
<1> QED BY <1>2, <1>3, <1>4, <1>5, <1>6, <1>7, <1>8, Asking DEF MainStep

(* A task whose work is done is answered. *)
LEMMA Answering ==
    ASSUME TypeOK, SessionInv, Throw \/ Bye
    PROVE  \E what \in Errors, status \in StatusOrNull : Answered(what, status)
<1>0. session \in Sessions
  BY DEF TypeOK
<1>1. CASE Throw
  <2>1. Answered("network", NoStatus)
    BY <1>1 DEF Throw, Answered
  <2> QED BY <2>1 DEF Errors, StatusOrNull
<1>2. CASE Bye
  <2> DEFINE status == IF session.result = "none" THEN session.status ELSE NoStatus
  <2>1. session.result \in Errors /\ status \in StatusOrNull
    BY <1>0 DEF Sessions, StatusOrNull
  <2>2. session.result = "none" => session.status # NoStatus
    BY <1>2 DEF Bye, At, SessionInv
  <2>3. Answered(session.result, status)
    BY <1>2, <2>2 DEF Bye, Answered
  <2> QED BY <2>1, <2>3
<1> QED BY <1>1, <1>2

(* What a task's thread does. *)
LEMMA ThreadSteps ==
    ASSUME TypeOK, SessionInv, Session
    PROVE  \/ \E what \in Errors, status \in StatusOrNull : Answered(what, status)
           \/ Apart /\ Quietly
<1>0. session \in Sessions
  BY DEF TypeOK
<1>3. CASE ReadToken
  <2>1. session'.task = session.task
    BY <1>0, <1>3 DEF ReadToken, Sessions
  <2> QED BY <1>3, <2>1 DEF ReadToken, MainUnchanged, Apart, SameSystem, Quietly
<1>4. CASE ReadStatus
  <2>1. session'.task = session.task
    BY <1>0, <1>4 DEF ReadStatus, Sessions
  <2> QED BY <1>4, <2>1 DEF ReadStatus, MainUnchanged, Apart, SameSystem, Quietly
<1>5. CASE ReadStatusEnd
  <2>1. session'.task = session.task
    BY <1>0, <1>5 DEF ReadStatusEnd, Sessions
  <2> QED BY <1>5, <2>1 DEF ReadStatusEnd, MainUnchanged, Apart, SameSystem, Quietly
<1>6. CASE ReadStatusThrows
  <2>1. session'.task = session.task
    BY <1>0, <1>6 DEF ReadStatusThrows, Sessions
  <2> QED BY <1>6, <2>1 DEF ReadStatusThrows, MainUnchanged, Apart, SameSystem, Quietly
<1>7. CASE WriteCommand
  <2>1. session'.task = session.task
    BY <1>0, <1>7 DEF WriteCommand, Sessions
  <2> QED BY <1>7, <2>1 DEF WriteCommand, MainUnchanged, Apart, SameSystem, Quietly
<1>8. CASE ReadConfirmation
  <2>1. session'.task = session.task
    BY <1>0, <1>8 DEF ReadConfirmation, Sessions
  <2> QED BY <1>8, <2>1 DEF ReadConfirmation, MainUnchanged, Apart, SameSystem, Quietly
<1> QED BY <1>3, <1>4, <1>5, <1>6, <1>7, <1>8, Answering DEF Session

(* The manager's step moves the head of the queue to the session. *)
LEMMA StartSteps ==
    ASSUME TypeOK, SessionInv, Start
    PROVE  /\ queue # << >> /\ queue' = Tail(queue)
           /\ Head(queue) \in TaskRecords
           /\ session'.task = Head(queue)
           /\ session'.status = NoStatus
           /\ session'.pc = IF Head(queue).kind = "other" THEN "other" ELSE "connect"
           /\ session = Idle
           /\ UNCHANGED <<plugs, settings, messages, system, activity, crashed, touched,
                          garbled, last, answered, unsafe>>
<1>1. Head(queue) \in TaskRecords
  BY DEF Start, TypeOK
<1>2. session = Idle
  BY DEF Start, At, SessionInv
<1>3. session'.task = Head(queue) /\ session'.status = NoStatus
      /\ session'.pc = IF Head(queue).kind = "other" THEN "other" ELSE "connect"
  BY DEF Start, Idle
<1> QED BY <1>1, <1>2, <1>3 DEF Start, MainUnchanged

(* The end of a WeMo task concerns nobody here. *)
LEMMA OtherSteps ==
    ASSUME TypeOK, SessionInv, Addressed, EndOther
    PROVE  /\ session.task.for = 0 /\ session.task.kind = "other"
           /\ session' = Idle
           /\ UNCHANGED <<plugs, settings, queue, messages, system, activity, crashed,
                          touched, garbled, last, answered, unsafe>>
<1>1. session.task \in TaskRecords /\ session.task.kind = "other"
  BY DEF TypeOK, Sessions, EndOther, At, SessionInv
<1>2. session.task.for = 0
  BY <1>1 DEF Addressed, WrongTask
<1> QED BY <1>1, <1>2 DEF EndOther, MainUnchanged

(* An answer is the last message of its task, and ends the session. *)
LEMMA AnswerSteps ==
    ASSUME TypeOK, NEW what \in Errors, NEW status \in StatusOrNull, Answered(what, status)
    PROVE  /\ session' = Idle /\ session.task \in TaskRecords
           /\ UNCHANGED <<plugs, settings, queue, system, activity, crashed, touched,
                          garbled, answered, unsafe>>
           /\ \/ session.task.for = 0 /\ messages' = messages
              \/ session.task.for # 0 /\ \E message \in Messages :
                    /\ messages' = Append(messages, message)
                    /\ message.to = session.task.for
                    /\ message.settings = session.task.settings
                    /\ message.what = what
                    /\ message.sockets = status
<1> DEFINE message == [what |-> what, sockets |-> status, to |-> session.task.for,
                       settings |-> session.task.settings]
<1>1. session.task \in TaskRecords /\ MaxActivities \in Nat
  BY PowerAssumption DEF TypeOK, Sessions
<1>2. session.task.for # 0 => message \in Messages
  BY <1>1 DEF Messages, Activities, TaskRecords
<1>3. /\ message.to = session.task.for
      /\ message.settings = session.task.settings
      /\ message.what = what
      /\ message.sockets = status
  OBVIOUS
<1>4. messages' = IF session.task.for = 0 THEN messages ELSE Append(messages, message)
  BY DEF Answered, Answer
<1>5. session' = Idle
      /\ UNCHANGED <<plugs, settings, queue, system, activity, crashed, touched,
                     garbled, answered, unsafe>>
  BY DEF Answered, Answer, AnswerUnchanged
<1> HIDE DEF message
<1> QED BY <1>1, <1>2, <1>3, <1>4, <1>5

(* The screen hears the oldest answer, if it is its own. *)
LEMMA HandleSteps ==
    ASSUME TypeOK, Handle, ~Crash
    PROVE  /\ messages # << >> /\ messages' = Tail(messages)
           /\ Head(messages) \in OwnAnswer
           /\ system' = Responded(system, Head(messages))
           /\ system'.status = StatusOf(Head(messages).what)
           /\ system'.screen = system.screen
           /\ Head(messages).sockets # NoStatus =>
                 system'.sockets = Head(messages).sockets
           /\ answered' = Head(messages).settings
           /\ UNCHANGED <<plugs, settings, queue, session, activity, crashed, touched,
                          garbled, last, unsafe>>
<1>1. Head(messages) \in Messages /\ Head(messages).to = activity
  BY DEF Handle, TypeOK
<1>2. system' = Responded(system, Head(messages)) /\ system \in Systems
  BY DEF Handle, TypeOK
<1>3. /\ system'.status = StatusOf(Head(messages).what)
      /\ system'.screen = system.screen
      /\ Head(messages).sockets # NoStatus => system'.sockets = Head(messages).sockets
  BY <1>2 DEF Responded, Told, Systems
<1> QED BY <1>1, <1>2, <1>3 DEF Handle, OwnAnswer

(* An answer to a former activity goes nowhere. *)
LEMMA GoneSteps ==
    ASSUME TypeOK, HandleGone, ~Crash
    PROVE  /\ messages # << >> /\ messages' = Tail(messages)
           /\ Head(messages) \in OldAnswer
           /\ UNCHANGED <<plugs, settings, queue, session, system, activity, crashed,
                          touched, garbled, last, answered, unsafe>>
<1>1. Head(messages) \in Messages /\ Head(messages).to # activity
  BY DEF HandleGone, TypeOK
<1> QED BY <1>1 DEF HandleGone, OldAnswer

(* A new activity has asked for nothing, and nothing is on its way to it. *)
LEMMA ReopenSteps ==
    ASSUME TypeOK, Addressed, Reopen
    PROVE  /\ activity' = activity + 1
           /\ system' = NewSystem /\ system'.status = "loading"
           /\ ~Occurs(queue', OwnTask') /\ session'.task \notin OwnTask'
           /\ ~Occurs(messages', OwnAnswer')
           /\ session.task.for # activity + 1
           /\ UNCHANGED <<plugs, settings, queue, session, messages, crashed, touched,
                          garbled, last, answered>>
<1>1. /\ activity' = activity + 1 /\ activity \in Nat
      /\ system' = NewSystem
      /\ UNCHANGED <<plugs, settings, queue, session, messages, crashed, touched,
                     garbled, last, answered>>
  BY PowerAssumption DEF Reopen, TypeOK, Activities
<1>2. OwnTask' = {t \in TaskRecords : t.for = activity + 1}
      /\ OwnAnswer' = {m \in Messages : m.to = activity + 1}
  BY <1>1 DEF OwnTask, OwnAnswer
<1>3. activity + 1 \notin 0 .. activity /\ activity + 1 > activity
  BY <1>1
<1>4. OwnTask' \subseteq WrongTask /\ OwnAnswer' \subseteq WrongAnswer
  BY <1>2, <1>3 DEF WrongTask, WrongAnswer
<1>5. ~Occurs(queue, OwnTask') /\ ~Occurs(messages, OwnAnswer')
      /\ session.task \notin OwnTask'
  BY <1>4 DEF Addressed, Occurs
<1>6. session.task \in TaskRecords
  BY DEF TypeOK, Sessions
<1> QED BY <1>1, <1>2, <1>5, <1>6 DEF NewSystem

(* At the start nobody has asked for anything. *)
LEMMA AddressedHolds == Init => Addressed
<1> SUFFICES ASSUME Init PROVE Addressed
  OBVIOUS
<1>1. Len(queue) = 0 /\ Len(messages) = 0
  BY DEF Init
<1>2. session.task.for = 0 /\ session.task.kind = "none" /\ activity = 1
  BY DEF Init, Idle, NoTask
<1> QED BY <1>1, <1>2 DEF Addressed, Occurs, WrongTask

(* Nobody asks, or is answered, before it exists. *)
LEMMA AddressedKept ==
    ASSUME TypeOK, SessionInv, Addressed, [Next]_vars
    PROVE  Addressed'
<1>0. /\ queue \in Seq(TaskRecords) /\ messages \in Seq(Messages)
      /\ activity \in Nat \ {0} /\ session.task \in TaskRecords
      /\ 0 \in 0 .. activity /\ activity \in 0 .. activity
  BY PowerAssumption DEF TypeOK, Activities, Sessions
<1>1. activity' = activity => WrongTask' = WrongTask /\ WrongAnswer' = WrongAnswer
  BY DEF WrongTask, WrongAnswer
<1>2. activity' = activity /\ session' = Idle => session'.task \notin WrongTask'
  BY <1>0 DEF Idle, NoTask, WrongTask
<1>3. ASSUME NEW task \in TaskRecords, Asked(task) PROVE Addressed'
  <2>1. task \notin WrongTask
    BY <1>0, <1>3 DEF Asked, WrongTask
  <2>2. queue' = Append(queue, task)
    BY <1>3 DEF Asked, Push
  <2>3. ~Occurs(queue', WrongTask)
    BY <1>0, <2>1, <2>2, OccursInAppend DEF Addressed
  <2> QED BY <1>1, <1>3, <2>3 DEF Asked, Addressed
<1>4. CASE Handle /\ ~Crash
  <2>1. ~Occurs(messages', WrongAnswer)
    BY <1>0, <1>4, HandleSteps, OccursInTail DEF Addressed
  <2> QED BY <1>1, <1>4, <2>1, HandleSteps DEF Addressed
<1>5. CASE HandleGone /\ ~Crash
  <2>1. ~Occurs(messages', WrongAnswer)
    BY <1>0, <1>5, GoneSteps, OccursInTail DEF Addressed
  <2> QED BY <1>1, <1>5, <2>1, GoneSteps DEF Addressed
<1>6. CASE Reopen
  <2>1. activity' = activity + 1 /\ UNCHANGED <<queue, session, messages>>
    BY <1>6 DEF Reopen
  <2>2. 0 .. activity \subseteq 0 .. activity'
    BY <1>0, <2>1
  <2>3. WrongTask' \subseteq WrongTask
    BY <2>2 DEF WrongTask
  <2>4. \A m \in Messages : m.to > activity' => m.to > activity
    BY <1>0, <2>1, PowerAssumption DEF Messages, Activities
  <2>5. WrongAnswer' \subseteq WrongAnswer
    BY <2>4 DEF WrongAnswer
  <2> QED BY <2>1, <2>3, <2>5 DEF Addressed, Occurs
<1>7. CASE Apart
  BY <1>1, <1>7 DEF Apart, Addressed
<1>8. CASE Start
  <2>1. Head(queue) \notin WrongTask /\ ~Occurs(Tail(queue), WrongTask)
    BY <1>0, <1>8, StartSteps, OccursInTail DEF Addressed
  <2> QED BY <1>1, <1>8, <2>1, StartSteps DEF Addressed
<1>9. CASE EndOther
  BY <1>1, <1>2, <1>9, OtherSteps DEF Addressed
<1>10. ASSUME NEW what \in Errors, NEW status \in StatusOrNull, Answered(what, status)
       PROVE  Addressed'
  <2>1. UNCHANGED <<queue, activity>> /\ session' = Idle
    BY <1>10, AnswerSteps
  <2>2. CASE messages' = messages
    BY <1>1, <1>2, <2>1, <2>2 DEF Addressed
  <2>3. ASSUME NEW message \in Messages, messages' = Append(messages, message),
               message.to = session.task.for, message.what = what,
               message.sockets = status
        PROVE  Addressed'
    <3>1. session.task.for \in 0 .. activity
      BY <1>0 DEF Addressed, WrongTask
    <3>2. ~(message.to > activity)
      BY <1>0, <2>3, <3>1
    <3>3. message \notin WrongAnswer
      BY <1>10, <2>3, <3>2 DEF WrongAnswer, Answered
    <3>4. ~Occurs(messages', WrongAnswer)
      BY <1>0, <2>3, <3>3, OccursInAppend DEF Addressed
    <3> QED BY <1>1, <1>2, <2>1, <3>4 DEF Addressed
  <2> QED BY <1>10, <2>2, <2>3, AnswerSteps
<1> QED BY <1>3, <1>4, <1>5, <1>6, <1>7, <1>8, <1>9, <1>10, Steps, MainSteps, ThreadSteps

(* At the start nothing can kill the process. *)
LEMMA SafeHolds == Init => Safe
<1> SUFFICES ASSUME Init PROVE Safe
  OBVIOUS
<1>1. Len(queue) = 0 /\ Len(messages) = 0
  BY DEF Init
<1>2. session.task.for = 0 /\ system.screen = "shown" /\ ~crashed
  BY DEF Init, Idle, NoTask, NewSystem
<1> QED BY <1>1, <1>2 DEF Safe, Occurs, OldTask

(* What can kill the process is there only after a step at a bad moment. *)
LEMMA SafeKept ==
    ASSUME TypeOK, SessionInv, Addressed, Safe, [Next]_vars
    PROVE  Safe'
<1>0. /\ queue \in Seq(TaskRecords) /\ messages \in Seq(Messages)
      /\ system \in Systems /\ session.task \in TaskRecords /\ unsafe \in BOOLEAN
      /\ activity \in Nat \ {0}
  BY PowerAssumption DEF TypeOK, Sessions, Activities
<1>1. activity' = activity => OldTask' = OldTask /\ OldAnswer' = OldAnswer
  BY DEF OldTask, OldAnswer
<1>2. Idle.task \notin OldTask' /\ Idle.task.for = 0
  BY DEF Idle, NoTask, OldTask
<1>3. ASSUME NEW task \in TaskRecords, Asked(task) PROVE Safe'
  <2>1. task \notin OldTask /\ queue' = Append(queue, task)
        /\ UNCHANGED <<session, messages, activity, crashed, unsafe>>
    BY <1>3 DEF Asked, Push, OldTask
  <2>2. Occurs(queue', OldTask) => Occurs(queue, OldTask)
    BY <1>0, <2>1, OccursInAppend
  <2>3. system'.screen = system.screen /\ (system.bound => system'.bound)
    BY <1>0, <1>3 DEF Asked, Systems
  <2>4. ASSUME ~unsafe, system.screen = "left"
        PROVE  ~Awaited'
    <3>1. system.bound /\ ~Awaited
      BY <2>4 DEF Safe
    <3>2. task.for = 0
      BY <1>3, <2>4, <3>1 DEF Asked
    <3> QED BY <1>0, <2>1, <3>1, <3>2 DEF Awaited
  <2>5. ~unsafe /\ system.screen = "left" => system.bound
    BY DEF Safe
  <2> QED BY <1>1, <2>1, <2>2, <2>3, <2>4, <2>5 DEF Safe
<1>4. CASE Handle /\ ~Crash
  <2>1. Occurs(messages', OldAnswer) => Occurs(messages, OldAnswer)
    BY <1>0, <1>4, HandleSteps, OccursInTail
  <2>2. /\ messages # << >> /\ system'.screen = system.screen
        /\ UNCHANGED <<queue, session, activity, crashed, unsafe>>
    BY <1>4, HandleSteps
  <2>3. ~unsafe => system.screen # "left"
    BY <2>2 DEF Safe, Awaited
  <2> QED BY <1>1, <2>1, <2>2, <2>3 DEF Safe
<1>5. CASE HandleGone /\ ~Crash
  <2>1. Occurs(messages', OldAnswer) => Occurs(messages, OldAnswer)
    BY <1>0, <1>5, GoneSteps, OccursInTail
  <2>2. /\ messages # << >>
        /\ UNCHANGED <<queue, session, system, activity, crashed, unsafe>>
    BY <1>5, GoneSteps
  <2>3. ~unsafe => system.screen # "left"
    BY <2>2 DEF Safe, Awaited
  <2> QED BY <1>1, <2>1, <2>2, <2>3 DEF Safe
<1>6. CASE Reopen
  <2>1. unsafe' = (unsafe \/ Awaited) /\ system' = NewSystem
        /\ UNCHANGED <<queue, session, messages, crashed>>
    BY <1>6 DEF Reopen
  <2>2. crashed' => unsafe'
    BY <2>1 DEF Safe
  <2>3. system'.screen = "shown"
    BY <2>1 DEF NewSystem
  <2>4. ASSUME ~unsafe'
        PROVE  /\ ~Occurs(queue', OldTask') /\ session'.task \notin OldTask'
               /\ ~Occurs(messages', OldAnswer')
    <3>1. messages = << >> /\ session.task.for = 0
          /\ \A i \in 1 .. Len(queue) : queue[i].for = 0
      BY <2>1, <2>4 DEF Awaited
    <3>2. Len(messages) = 0
      BY <3>1
    <3> QED BY <2>1, <3>1, <3>2 DEF Occurs, OldTask
  <2> QED BY <2>2, <2>3, <2>4 DEF Safe
<1>7. ASSUME Apart PROVE Awaited' <=> Awaited
  BY <1>7 DEF Apart, Awaited
<1>8. CASE Apart /\ Quietly
  <2>1. system'.screen = "left" => system.screen = "left"
    BY <1>8 DEF Quietly
  <2> QED BY <1>1, <1>7, <1>8, <2>1 DEF Apart, SameSystem, Quietly, Safe
<1>9. CASE Apart /\ Leave
  <2>1. unsafe' = (unsafe \/ Awaited \/ ~system.bound) /\ crashed' = crashed
    BY <1>9 DEF Leave, ScreenUnchanged
  <2>2. ~unsafe' => ~unsafe /\ system'.bound /\ ~Awaited
    BY <1>9, <2>1 DEF Apart, SameSystem
  <2>3. crashed' => unsafe'
    BY <2>1 DEF Safe
  <2> QED BY <1>1, <1>7, <1>9, <2>2, <2>3 DEF Apart, Safe
<1>10. CASE Restore
  BY <1>10 DEF Restore, Safe
<1>11. CASE Apart /\ Crash /\ BadAnswer
  <2>1. unsafe
    <3>1. CASE Head(messages).to # activity
      <4>1. messages # << >> /\ Head(messages) \in OldAnswer
        BY <1>0, <1>11, <3>1 DEF BadAnswer, OldAnswer
      <4>2. Occurs(messages, OldAnswer)
        BY <1>0, <4>1, OccursInTail
      <4> QED BY <4>2 DEF Safe
    <3>2. CASE system.screen = "left"
      BY <1>11, <3>2 DEF BadAnswer, Awaited, Safe
    <3> QED BY <1>11, <3>1, <3>2 DEF BadAnswer
  <2> QED BY <1>11, <2>1 DEF Crash, Safe
<1>12. CASE Start
  <2>1. /\ Head(queue) \in OldTask => Occurs(queue, OldTask)
        /\ Occurs(Tail(queue), OldTask) => Occurs(queue, OldTask)
    BY <1>0, <1>12, StartSteps, OccursInTail
  <2>2. /\ queue # << >> /\ queue' = Tail(queue) /\ session'.task = Head(queue)
        /\ UNCHANGED <<messages, system, activity, crashed, unsafe>>
    BY <1>12, StartSteps
  <2>3. Awaited' => Awaited
    BY <1>0, <2>2 DEF Awaited
  <2> QED BY <1>1, <2>1, <2>2, <2>3 DEF Safe
<1>13. CASE EndOther
  <2>1. session' = Idle
        /\ UNCHANGED <<queue, messages, system, activity, crashed, unsafe>>
    BY <1>13, OtherSteps
  <2>2. Awaited' => Awaited
    BY <1>2, <2>1 DEF Awaited
  <2> QED BY <1>1, <1>2, <2>1, <2>2 DEF Safe
<1>14. ASSUME NEW what \in Errors, NEW status \in StatusOrNull, Answered(what, status)
       PROVE  Safe'
  <2>1. UNCHANGED <<queue, activity, system, crashed, unsafe>> /\ session' = Idle
    BY <1>14, AnswerSteps
  <2>2. ASSUME ~unsafe, Occurs(messages', OldAnswer)
        PROVE  Occurs(messages, OldAnswer)
    <3>1. CASE messages' = messages
      BY <2>2, <3>1
    <3>2. ASSUME NEW message \in Messages, messages' = Append(messages, message),
                 session.task.for # 0, message.to = session.task.for
          PROVE  Occurs(messages, OldAnswer)
      <4>1. session.task.for = activity
        BY <1>0, <2>2, <3>2 DEF Safe, OldTask
      <4>2. message \notin OldAnswer
        BY <3>2, <4>1 DEF OldAnswer
      <4> QED BY <1>0, <2>2, <3>2, <4>2, OccursInAppend
    <3> QED BY <1>14, <3>1, <3>2, AnswerSteps
  <2>3. ~Awaited => ~Awaited'
    <3>1. ~Awaited => messages' = messages
      BY <1>14, AnswerSteps DEF Awaited
    <3> QED BY <1>2, <2>1, <3>1 DEF Awaited
  <2> QED BY <1>1, <1>2, <2>1, <2>2, <2>3 DEF Safe
<1> QED BY <1>3, <1>4, <1>5, <1>6, <1>8, <1>9, <1>10, <1>11, <1>12, <1>13, <1>14, Steps,
           MainSteps, ThreadSteps

(* At the start no request has older settings. *)
LEMMA InForceHolds == Init => InForce
<1> SUFFICES ASSUME Init PROVE InForce
  OBVIOUS
<1>1. Len(queue) = 0 /\ Len(messages) = 0
  BY DEF Init
<1>2. session.task.for = 0 /\ activity = 1 /\ system.status = "loading"
  BY DEF Init, Idle, NoTask, NewSystem
<1> QED BY <1>1, <1>2 DEF InForce, FollowedBy, FreshAsked, StaleTask

(* The newest request of the activity has the settings in force. *)
LEMMA InForceKept ==
    ASSUME TypeOK, SessionInv, Addressed, InForce, [Next]_vars
    PROVE  InForce'
<1>0. /\ queue \in Seq(TaskRecords) /\ messages \in Seq(Messages)
      /\ system \in Systems /\ session.task \in TaskRecords
      /\ activity \in Nat \ {0}
  BY PowerAssumption DEF TypeOK, Sessions, Activities
<1>1. activity' = activity /\ settings' = settings =>
         /\ FreshTask' = FreshTask /\ StaleTask' = StaleTask
         /\ FreshAnswer' = FreshAnswer /\ StaleAnswer' = StaleAnswer
  BY DEF FreshTask, StaleTask, FreshAnswer, StaleAnswer
<1>2. activity' = activity => Idle.task \notin FreshTask' \cup StaleTask'
  BY <1>0 DEF Idle, NoTask, FreshTask, StaleTask
<1>3. ASSUME NEW task \in TaskRecords, Asked(task) PROVE InForce'
  <2>1. queue' = Append(queue, task) /\ activity' = activity
        /\ UNCHANGED <<session, messages, answered>>
    BY <1>3 DEF Asked, Push
  <2>2. CASE task.for = 0
    <3>1. settings' = settings /\ task \notin FreshTask /\ task \notin StaleTask
      BY <1>0, <1>3, <2>2 DEF Asked, FreshTask, StaleTask
    <3>2. /\ FollowedBy(queue', StaleTask, FreshTask)
          /\ Occurs(queue', FreshTask) <=> Occurs(queue, FreshTask)
      BY <1>0, <2>1, <3>1, FollowedInAppend, OccursInAppend DEF InForce
    <3>3. system'.status = system.status
      BY <1>0, <1>3 DEF Asked, Systems
    <3> QED BY <1>1, <2>1, <3>1, <3>2, <3>3 DEF InForce, FreshAsked
  <2>3. CASE task.for = activity
    <3>1. task \in FreshTask' /\ task \notin StaleTask'
      BY <1>0, <1>3, <2>1, <2>3 DEF Asked, FreshTask, StaleTask
    <3>2. FollowedBy(queue', StaleTask', FreshTask') /\ Occurs(queue', FreshTask')
      BY <1>0, <2>1, <3>1, FollowedInAppend, OccursInAppend
    <3> QED BY <3>2 DEF InForce, FreshAsked
  <2> QED BY <1>3, <2>2, <2>3 DEF Asked
<1>4. CASE Handle /\ ~Crash
  <2>1. /\ messages # << >> /\ messages' = Tail(messages)
        /\ answered' = Head(messages).settings
        /\ Head(messages) \in OwnAnswer
        /\ UNCHANGED <<settings, queue, session, activity>>
    BY <1>4, HandleSteps
  <2>2. FreshAsked' = FreshAsked
    BY <1>1, <2>1 DEF FreshAsked
  <2>3. FollowedBy(messages, StaleAnswer, FreshAnswer) =>
           /\ FollowedBy(messages', StaleAnswer, FreshAnswer)
           /\ Head(messages) \in StaleAnswer => Occurs(messages', FreshAnswer)
    BY <1>0, <2>1, FollowedInTail
  <2>4. answered' # settings => Head(messages) \in StaleAnswer
    BY <2>1 DEF OwnAnswer, StaleAnswer
  <2> QED BY <1>1, <2>1, <2>2, <2>3, <2>4 DEF InForce
<1>5. CASE HandleGone /\ ~Crash
  <2>1. /\ messages # << >> /\ messages' = Tail(messages)
        /\ Head(messages) \in OldAnswer
        /\ UNCHANGED <<settings, queue, session, activity, answered, system>>
    BY <1>5, GoneSteps
  <2>2. FreshAsked' = FreshAsked
    BY <1>1, <2>1 DEF FreshAsked
  <2>3. FollowedBy(messages, StaleAnswer, FreshAnswer) =>
           FollowedBy(messages', StaleAnswer, FreshAnswer)
    BY <1>0, <2>1, FollowedInTail
  <2>4. Head(messages) \notin FreshAnswer
    BY <2>1 DEF OldAnswer, FreshAnswer
  <2>5. Occurs(messages, FreshAnswer) => Occurs(messages', FreshAnswer)
    BY <1>0, <2>1, <2>4, OccursInTail
  <2> QED BY <1>1, <2>1, <2>2, <2>3, <2>5 DEF InForce
<1>6. CASE Reopen
  <2>1. /\ system'.status = "loading"
        /\ ~Occurs(queue', OwnTask') /\ session'.task \notin OwnTask'
        /\ ~Occurs(messages', OwnAnswer')
    BY <1>6, ReopenSteps
  <2>2. StaleTask' \subseteq OwnTask' /\ StaleAnswer' \subseteq OwnAnswer'
    BY DEF StaleTask, OwnTask, StaleAnswer, OwnAnswer
  <2>3. /\ FollowedBy(queue', StaleTask', FreshTask')
        /\ FollowedBy(messages', StaleAnswer', FreshAnswer')
        /\ session'.task \notin StaleTask'
    BY <2>1, <2>2 DEF Occurs, FollowedBy
  <2> QED BY <2>1, <2>3 DEF InForce
<1>7. CASE Apart
  <2>1. system'.status = system.status
    BY <1>7 DEF Apart, SameSystem
  <2>2. FreshAsked' = FreshAsked
    BY <1>1, <1>7 DEF Apart, FreshAsked
  <2> QED BY <1>1, <1>7, <2>1, <2>2 DEF Apart, InForce
<1>8. CASE Start
  <2>1. /\ queue # << >> /\ queue' = Tail(queue) /\ session'.task = Head(queue)
        /\ session.task = Idle.task
        /\ UNCHANGED <<settings, messages, activity, answered, system>>
    BY <1>8, StartSteps
  <2>2. Idle.task \notin FreshTask
    BY <1>1, <1>2, <2>1
  <2>3. FreshAsked' <=> FreshAsked
    BY <1>0, <1>1, <2>1, <2>2, OccursInTail DEF FreshAsked
  <2>4. /\ FollowedBy(queue', StaleTask, FreshTask)
        /\ Head(queue) \in StaleTask => Occurs(queue', FreshTask)
    BY <1>0, <2>1, FollowedInTail DEF InForce
  <2> QED BY <1>1, <2>1, <2>3, <2>4 DEF InForce
<1>9. CASE EndOther
  <2>1. /\ session.task.for = 0 /\ session' = Idle
        /\ UNCHANGED <<settings, queue, messages, system, activity, answered>>
    BY <1>9, OtherSteps
  <2>2. session.task \notin FreshTask
    BY <1>0, <2>1 DEF FreshTask
  <2>3. FreshAsked' <=> FreshAsked
    BY <1>1, <1>2, <2>1, <2>2 DEF FreshAsked
  <2> QED BY <1>1, <1>2, <2>1, <2>3 DEF InForce
<1>10. ASSUME NEW what \in Errors, NEW status \in StatusOrNull, Answered(what, status)
       PROVE  InForce'
  <2>1. UNCHANGED <<settings, queue, activity, system, answered>> /\ session' = Idle
    BY <1>10, AnswerSteps
  <2>2. Idle.task \notin FreshTask \cup StaleTask
    BY <1>1, <1>2, <2>1
  <2>3. CASE session.task.for = 0 /\ messages' = messages
    <3>1. session.task \notin FreshTask
      BY <1>0, <2>3 DEF FreshTask
    <3>2. FreshAsked' <=> FreshAsked
      BY <1>1, <2>1, <2>2, <3>1 DEF FreshAsked
    <3> QED BY <1>1, <2>1, <2>2, <2>3, <3>2 DEF InForce
  <2>4. ASSUME NEW message \in Messages, messages' = Append(messages, message),
               message.to = session.task.for,
               message.settings = session.task.settings
        PROVE  InForce'
    <3>1. /\ session.task \in FreshTask <=> message \in FreshAnswer
          /\ session.task \in StaleTask <=> message \in StaleAnswer
      BY <1>0, <2>4 DEF FreshTask, StaleTask, FreshAnswer, StaleAnswer
    <3>2. /\ Occurs(messages', FreshAnswer) <=>
                Occurs(messages, FreshAnswer) \/ message \in FreshAnswer
          /\ message \notin StaleAnswer /\ FollowedBy(messages, StaleAnswer, FreshAnswer)
                => FollowedBy(messages', StaleAnswer, FreshAnswer)
          /\ message \in FreshAnswer /\ message \notin StaleAnswer =>
                FollowedBy(messages', StaleAnswer, FreshAnswer)
      BY <1>0, <2>4, OccursInAppend, FollowedInAppend
    <3>3. FreshAsked' <=> Occurs(queue, FreshTask)
      BY <1>1, <2>1, <2>2 DEF FreshAsked
    <3>4. CASE session.task \in FreshTask
      <4>1. message \in FreshAnswer /\ message \notin StaleAnswer
        BY <3>1, <3>4 DEF FreshAnswer, StaleAnswer
      <4> QED BY <1>1, <2>1, <2>2, <3>2, <4>1 DEF InForce
    <3>5. CASE session.task \in StaleTask
      <4>1. FreshAsked'
        BY <3>3, <3>5 DEF InForce
      <4> QED BY <1>1, <2>1, <2>2, <4>1 DEF InForce
    <3>6. CASE session.task \notin FreshTask \cup StaleTask
      <4>1. FreshAsked' <=> FreshAsked
        BY <3>3, <3>6 DEF FreshAsked
      <4> QED BY <1>1, <2>1, <2>2, <3>1, <3>2, <3>6, <4>1 DEF InForce
    <3> QED BY <3>4, <3>5, <3>6
  <2> QED BY <1>10, <2>3, <2>4, AnswerSteps
<1> QED BY <1>3, <1>4, <1>5, <1>6, <1>7, <1>8, <1>9, <1>10, Steps, MainSteps, ThreadSteps

(* At the start there is no former activity. *)
LEMMA OldFirstHolds == Init => OldFirst
<1> SUFFICES ASSUME Init PROVE OldFirst
  OBVIOUS
<1>1. Len(queue) = 0 /\ Len(messages) = 0
  BY DEF Init
<1>2. session.task.for = 0
  BY DEF Init, Idle, NoTask
<1> QED BY <1>1, <1>2 DEF OldFirst, Occurs, AllBefore, OldTask

(* What a former activity asked for is done before anything is for the screen. *)
LEMMA OldFirstKept ==
    ASSUME TypeOK, SessionInv, Addressed, OldFirst, [Next]_vars
    PROVE  OldFirst'
<1>0. /\ queue \in Seq(TaskRecords) /\ messages \in Seq(Messages)
      /\ system \in Systems /\ session.task \in TaskRecords
      /\ activity \in Nat \ {0}
  BY PowerAssumption DEF TypeOK, Sessions, Activities
<1>1. activity' = activity =>
         /\ OwnTask' = OwnTask /\ OldTask' = OldTask /\ OwnAnswer' = OwnAnswer
  BY DEF OwnTask, OldTask, OwnAnswer
<1>2. Idle.task \notin OldTask' /\ Idle.task \notin OldTask
      /\ Idle.task \notin OwnTask
  BY <1>0 DEF Idle, NoTask, OldTask, OwnTask
<1>3. ASSUME NEW task \in TaskRecords, Asked(task) PROVE OldFirst'
  <2>1. /\ queue' = Append(queue, task) /\ task \notin OldTask
        /\ UNCHANGED <<session, messages, activity>>
    BY <1>3 DEF Asked, Push, OldTask
  <2>2. system'.status = system.status
    BY <1>0, <1>3 DEF Asked, Systems
  <2>3. /\ Occurs(queue', OldTask) <=> Occurs(queue, OldTask)
        /\ AllBefore(queue', OldTask, OwnTask)
    BY <1>0, <2>1, OccursInAppend, BeforeInAppend DEF OldFirst
  <2> QED BY <1>1, <2>1, <2>2, <2>3 DEF OldFirst
<1>4. CASE Handle /\ ~Crash
  <2>1. /\ messages # << >> /\ messages' = Tail(messages)
        /\ Head(messages) \in OwnAnswer
        /\ UNCHANGED <<queue, session, activity>>
    BY <1>4, HandleSteps
  <2>2. Occurs(messages, OwnAnswer)
    BY <1>0, <2>1, OccursInTail
  <2>3. session.task \notin OldTask /\ ~Occurs(queue, OldTask)
    BY <2>2 DEF OldFirst
  <2> QED BY <1>1, <2>1, <2>3 DEF OldFirst
<1>5. CASE HandleGone /\ ~Crash
  <2>1. /\ messages # << >> /\ messages' = Tail(messages)
        /\ UNCHANGED <<queue, session, activity, system>>
    BY <1>5, GoneSteps
  <2>2. Occurs(messages', OwnAnswer) => Occurs(messages, OwnAnswer)
    BY <1>0, <2>1, OccursInTail
  <2> QED BY <1>1, <2>1, <2>2 DEF OldFirst
<1>6. CASE Reopen
  <2>1. /\ system'.status = "loading"
        /\ ~Occurs(queue', OwnTask') /\ session'.task \notin OwnTask'
        /\ ~Occurs(messages', OwnAnswer')
    BY <1>6, ReopenSteps
  <2>2. AllBefore(queue', OldTask', OwnTask')
    BY <2>1 DEF Occurs, AllBefore
  <2> QED BY <2>1, <2>2 DEF OldFirst
<1>7. CASE Apart
  <2>1. system'.status = system.status
    BY <1>7 DEF Apart, SameSystem
  <2> QED BY <1>1, <1>7, <2>1 DEF Apart, OldFirst
<1>8. CASE Start
  <2>1. /\ queue # << >> /\ queue' = Tail(queue) /\ session'.task = Head(queue)
        /\ UNCHANGED <<messages, activity, system>>
    BY <1>8, StartSteps
  <2>2. /\ Occurs(queue, OldTask) <=> Head(queue) \in OldTask \/ Occurs(queue', OldTask)
        /\ AllBefore(queue', OldTask, OwnTask)
        /\ Head(queue) \in OwnTask => ~Occurs(queue', OldTask)
    BY <1>0, <2>1, OccursInTail, BeforeInTail DEF OldFirst
  <2> QED BY <1>1, <2>1, <2>2 DEF OldFirst
<1>9. CASE EndOther
  BY <1>1, <1>2, <1>9, OtherSteps DEF OldFirst
<1>10. ASSUME NEW what \in Errors, NEW status \in StatusOrNull, Answered(what, status)
       PROVE  OldFirst'
  <2>1. UNCHANGED <<queue, activity, system>> /\ session' = Idle
    BY <1>10, AnswerSteps
  <2>2. Occurs(queue, OldTask) => ~Occurs(messages', OwnAnswer)
    <3>1. CASE messages' = messages
      BY <3>1 DEF OldFirst
    <3>2. ASSUME Occurs(queue, OldTask),
                 NEW message \in Messages, messages' = Append(messages, message),
                 message.to = session.task.for
          PROVE  ~Occurs(messages', OwnAnswer)
      <4>1. message \notin OwnAnswer
        BY <1>0, <3>2 DEF OldFirst, OwnTask, OwnAnswer
      <4> QED BY <1>0, <3>2, <4>1, OccursInAppend DEF OldFirst
    <3> QED BY <1>10, <3>1, <3>2, AnswerSteps
  <2> QED BY <1>1, <1>2, <2>1, <2>2 DEF OldFirst
<1> QED BY <1>3, <1>4, <1>5, <1>6, <1>7, <1>8, <1>9, <1>10, Steps, MainSteps, ThreadSteps

(***************************************************************************)
(* What the cipher carries.                                                  *)
(***************************************************************************)
(* A key is made of bytes. *)
LEMMA KeyIsBytes ==
    ASSUME NEW password \in Seq(Byte)
    PROVE  Key(password) \in [0 .. 7 -> Byte]
<1>1. SUFFICES ASSUME NEW i \in 0 .. 7
               PROVE  (IF i < Len(password) THEN password[i + 1] ELSE 32) \in Byte
  BY DEF Key
<1>2. CASE i < Len(password)
  <2>1. i + 1 \in 1 .. Len(password)
    BY <1>2
  <2> QED BY <1>2, <2>1
<1>3. CASE ~(i < Len(password))
  BY <1>3 DEF Byte
<1> QED BY <1>2, <1>3

(* The application reads the status that the strip has, from first to last. *)
THEOREM StatusRoundTrip ==
    ASSUME NEW key \in [0 .. 7 -> Byte], NEW token \in Buffer,
           NEW on \in [Plugs -> BOOLEAN]
    PROVE  AddStatus(key, token, StripStatus(key, token, on)) = on
<1> DEFINE sent == StripStatus(key, token, on)
<1>1. ASSUME NEW p \in Plugs
      PROVE  (Decipher(key, token, sent[3 - p]) = POWER_ON) = on[p]
  <2>1. 3 - p \in 0 .. 3 /\ 3 - (3 - p) = p
    BY DEF Plugs
  <2>2. sent[3 - p] = Encipher(key, token, IF on[p] THEN POWER_ON ELSE POWER_OFF)
    BY <2>1 DEF StripStatus
  <2>3. POWER_ON \in Byte /\ POWER_OFF \in Byte /\ POWER_ON # POWER_OFF
    BY DEF POWER_ON, POWER_OFF, Byte
  <2>4. PICK x \in Byte : x = IF on[p] THEN POWER_ON ELSE POWER_OFF
    BY <2>3
  <2>5. Decipher(key, token, Encipher(key, token, x)) = x
    BY DecipherEnciphered
  <2>6. on[p] \in BOOLEAN
    OBVIOUS
  <2> QED BY <2>2, <2>3, <2>4, <2>5, <2>6
<1>2. AddStatus(key, token, sent) = [p \in Plugs |-> on[p]]
  BY <1>1 DEF AddStatus
<1> QED BY <1>2

(* The strip carries out the command that the application means. *)
THEOREM CommandRoundTrip ==
    ASSUME NEW key \in [0 .. 7 -> Byte], NEW token \in Buffer,
           NEW on \in [Plugs -> BOOLEAN], NEW plug \in Plugs, NEW value \in BOOLEAN
    PROVE  Switched(key, token, SetStatus(key, token, plug, value), on)
              = [on EXCEPT ![plug] = value]
<1> DEFINE sent == SetStatus(key, token, plug, value)
           Meant(p) == IF p # plug THEN SWITCH_NONE
                       ELSE IF value THEN SWITCH_ON
                       ELSE SWITCH_OFF
<1>1. ASSUME NEW p \in Plugs
      PROVE  Decipher(key, token, sent[3 - p]) = Meant(p)
  <2>1. 3 - p \in 0 .. 3 /\ 3 - (3 - p) = p
    BY DEF Plugs
  <2>2. Meant(p) \in Byte
    BY DEF SWITCH_NONE, SWITCH_ON, SWITCH_OFF, Byte
  <2>3. sent[3 - p] = Encipher(key, token,
                 IF 3 - (3 - p) # plug THEN SWITCH_NONE
                 ELSE IF value THEN SWITCH_ON
                 ELSE SWITCH_OFF)
    BY <2>1 DEF SetStatus
  <2>4. sent[3 - p] = Encipher(key, token, Meant(p))
    BY <2>1, <2>3
  <2> HIDE DEF Meant, sent
  <2> QED BY <2>2, <2>4, DecipherEnciphered
<1> HIDE DEF sent
<1>2. ASSUME NEW p \in Plugs
      PROVE  (Meant(p) = SWITCH_ON \/ (Meant(p) # SWITCH_OFF /\ on[p]))
                = [on EXCEPT ![plug] = value][p]
  <2>1. SWITCH_ON # SWITCH_OFF /\ SWITCH_ON # SWITCH_NONE /\ SWITCH_OFF # SWITCH_NONE
    BY DEF SWITCH_ON, SWITCH_OFF, SWITCH_NONE
  <2>2. on[p] \in BOOLEAN
    OBVIOUS
  <2>3. CASE p = plug
    <3>1. [on EXCEPT ![plug] = value][p] = value
      BY <2>3
    <3> QED BY <2>1, <2>3, <3>1
  <2>4. CASE p # plug
    <3>1. [on EXCEPT ![plug] = value][p] = on[p]
      BY <2>4
    <3>2. Meant(p) = SWITCH_NONE
      BY <2>4
    <3> HIDE DEF Meant
    <3> QED BY <2>1, <2>2, <3>1, <3>2
  <2> QED BY <2>3, <2>4
<1> HIDE DEF Meant
<1>3. Switched(key, token, sent, on) = [p \in Plugs |-> [on EXCEPT ![plug] = value][p]]
  BY <1>1, <1>2 DEF Switched
<1>4. [on EXCEPT ![plug] = value] \in [Plugs -> BOOLEAN]
  OBVIOUS
<1> QED BY <1>3, <1>4 DEF sent

(* A task whose response the strip has taken has the strip's key. *)
LEMMA KeysAgree ==
    ASSUME WrongPasswordsRefused, TypeOK, session.token \in Tokens, Accepted
    PROVE  /\ TaskKey = StripKey
           /\ StripKey \in [0 .. 7 -> Byte] /\ session.token \in Buffer
<1>1. session.task.settings \in Settings
  BY DEF TypeOK, Sessions, TaskRecords
<1>2. TaskKey = StripKey
  BY <1>1 DEF WrongPasswordsRefused, Accepted, TaskKey
<1>3. StripKey \in [0 .. 7 -> Byte]
  BY KeyIsBytes, PowerAssumption DEF StripKey
<1> QED BY <1>2, <1>3 DEF TypeOK, Sessions

(* A status that is not garbled is the strip's. *)
LEMMA StatusRead ==
    ASSUME WrongPasswordsRefused, TypeOK, session.token \in Tokens, Accepted
    PROVE  AddStatus(TaskKey, session.token,
                     StripStatus(StripKey, session.token, plugs)) = plugs
BY KeysAgree, StatusRoundTrip DEF TypeOK

(* The only step that switches a plug over the network does what its task says. *)
LEMMA CommandWritten ==
    ASSUME WrongPasswordsRefused, TypeOK, SessionInv, WriteCommand
    PROVE  /\ session.task.kind = "set" /\ session.task.plug \in Plugs
           /\ session.task.value \in BOOLEAN
           /\ plugs' = IF session.open
                       THEN [plugs EXCEPT ![session.task.plug] = session.task.value]
                       ELSE plugs
<1>1. /\ session.pc = "set" /\ session.task.kind = "set"
      /\ session.task.plug \in Plugs /\ session.task.value \in BOOLEAN
  BY DEF WriteCommand, At, SessionInv, TypeOK, Sessions, TaskRecords
<1>2. CASE session.open
  <2>1. session.token \in Tokens /\ Accepted
    BY <1>1, <1>2 DEF SessionInv
  <2>2. plugs' = Switched(StripKey, session.token,
                          SetStatus(StripKey, session.token,
                                    session.task.plug, session.task.value), plugs)
    BY <1>2, <2>1, KeysAgree DEF WriteCommand
  <2>3. StripKey \in [0 .. 7 -> Byte] /\ session.token \in Buffer
        /\ plugs \in [Plugs -> BOOLEAN]
    BY <2>1, KeysAgree DEF TypeOK
  <2>4. ASSUME NEW token \in Buffer, NEW plug \in Plugs, NEW value \in BOOLEAN
        PROVE  Switched(StripKey, token, SetStatus(StripKey, token, plug, value), plugs)
                  = [plugs EXCEPT ![plug] = value]
    BY <2>3, CommandRoundTrip
  <2>5. plugs' = [plugs EXCEPT ![session.task.plug] = session.task.value]
    <3>1. PICK plug \in Plugs, value \in BOOLEAN :
             session.task.plug = plug /\ session.task.value = value
      BY <1>1
    <3>2. plugs' = Switched(StripKey, session.token,
                            SetStatus(StripKey, session.token, plug, value), plugs)
      BY <2>2, <3>1
    <3>3. plugs' = [plugs EXCEPT ![plug] = value]
      BY <2>3, <2>4, <3>2
    <3> QED BY <3>1, <3>3
  <2> QED BY <1>1, <1>2, <2>5
<1>3. CASE ~session.open
  BY <1>1, <1>3 DEF WriteCommand
<1> QED BY <1>2, <1>3

(* No other step of the application or of the strip switches a plug, but a press. *)
LEMMA SwitchedByCommand ==
    ASSUME [Next]_vars, plugs' # plugs
    PROVE  WriteCommand \/ \E plug \in UsedPlugs : Press(plug)
BY DEF Next, Session, ServiceConnected, Handle, HandleGone, PushOther, Crash,
       RequestPlugSwitch, StartCommand, Connect, Leave, Return, SelectTab,
       ScreenUnchanged, Reopen, Restore, Start, EndOther, Throw, ReadToken, ReadStatus,
       ReadStatusEnd, ReadStatusThrows, ReadConfirmation, Bye, MainUnchanged,
       AnswerUnchanged, vars

(***************************************************************************)
(* What was asked last.                                                      *)
(***************************************************************************)
(* A task that fails forgets what was asked of its plug, but for a later request. *)
LEMMA ForgottenKeeps ==
    ASSUME TypeOK, NEW p \in Plugs, LastAsked(p), last' = Forgotten
    PROVE  /\ last'[p] \in {last[p], {}}
           /\ last'[p] # {} =>
                 Occurs(queue, AsAsked(p)) \/ session.task \notin SetOf(p)
<1>0. /\ queue \in Seq(TaskRecords) /\ session.task \in TaskRecords
      /\ session.task.plug \in Plugs /\ last \in [Plugs -> SUBSET BOOLEAN]
  BY DEF TypeOK, Sessions, TaskRecords
<1>1. CASE session.task.kind # "set"
  BY <1>1 DEF Forgotten, SetOf
<1>2. CASE \E i \in 1 .. Len(queue) : /\ queue[i].kind = "set"
                                      /\ queue[i].plug = session.task.plug
  <2>1. last' = last
    BY <1>2 DEF Forgotten
  <2>2. ASSUME last[p] # {}, session.task.plug = p
        PROVE  Occurs(queue, AsAsked(p))
    <3>1. PICK i \in 1 .. Len(queue) : queue[i].kind = "set" /\ queue[i].plug = p
      BY <1>2, <2>2
    <3>2. queue[i] \in SetOf(p)
      BY <1>0, <3>1 DEF SetOf
    <3>3. queue[i] \in AsAsked(p) \/ queue[i] \in Outdated(p)
      BY <3>2 DEF AsAsked, Outdated
    <3>4. FollowedBy(queue, Outdated(p), AsAsked(p))
      BY <2>2 DEF LastAsked
    <3>5. CASE queue[i] \in Outdated(p)
      <4>1. PICK j \in i + 1 .. Len(queue) : queue[j] \in AsAsked(p)
        BY <3>4, <3>5 DEF FollowedBy
      <4>2. j \in 1 .. Len(queue)
        BY <1>0, <3>1, <4>1
      <4> QED BY <4>1, <4>2 DEF Occurs
    <3> QED BY <3>3, <3>5 DEF Occurs
  <2> QED BY <2>1, <2>2 DEF SetOf
<1>3. CASE ~(\/ session.task.kind # "set"
             \/ \E i \in 1 .. Len(queue) : /\ queue[i].kind = "set"
                                           /\ queue[i].plug = session.task.plug)
  <2>1. last' = [last EXCEPT ![session.task.plug] = {}]
    BY <1>3 DEF Forgotten
  <2>2. session.task.plug # p => last'[p] = last[p] /\ session.task \notin SetOf(p)
    BY <1>0, <2>1 DEF SetOf
  <2>3. session.task.plug = p => last'[p] = {}
    BY <1>0, <2>1
  <2> QED BY <2>2, <2>3
<1> QED BY <1>1, <1>2, <1>3

(* A task that fails, or is the WeMo system's, is not under way afterwards. *)
LEMMA LastAskedForgotten ==
    ASSUME TypeOK, NEW p \in Plugs, LastAsked(p), last' = Forgotten,
           UNCHANGED <<plugs, queue>>, session' = Idle \/ session'.task = session.task
    PROVE  LastAsked(p)'
<1>1. Idle.task \notin SetOf(p)
  BY DEF Idle, NoTask, SetOf
<1>2. /\ last'[p] \in {last[p], {}}
      /\ last'[p] # {} => Occurs(queue, AsAsked(p)) \/ session.task \notin SetOf(p)
  BY ForgottenKeeps
<1>3. last'[p] = {} => LastAsked(p)'
  BY DEF LastAsked
<1>4. ASSUME last'[p] = last[p], last[p] # {}
      PROVE  LastAsked(p)'
  <2>1. AsAsked(p)' = AsAsked(p) /\ Outdated(p)' = Outdated(p) /\ SetOf(p)' = SetOf(p)
    BY <1>4 DEF AsAsked, Outdated, SetOf
  <2>2. CASE Occurs(queue, AsAsked(p))
    BY <1>4, <2>1, <2>2 DEF LastAsked
  <2>3. CASE session.task \notin SetOf(p)
    <3>1. ~Underway(p) /\ ~Underway(p)'
      BY <1>1, <2>1, <2>3 DEF Underway
    <3> QED BY <1>4, <2>1, <3>1 DEF LastAsked
  <2> QED BY <1>2, <1>4, <2>2, <2>3
<1> QED BY <1>2, <1>3, <1>4

(* A step that changes neither what counts nor how far the task is. *)
LEMMA LastAskedStays ==
    ASSUME NEW p \in Plugs, LastAsked(p), last'[p] = last[p], plugs'[p] = plugs[p],
           queue' = queue, Underway(p)' <=> Underway(p),
           Underway(p) => /\ session'.task = session.task
                          /\ session'.pc = "set" /\ session.pc # "set" => session'.open
                          /\ session'.pc = "set" /\ session.pc = "set" =>
                                session'.open = session.open
    PROVE  LastAsked(p)'
<1>1. AsAsked(p)' = AsAsked(p) /\ Outdated(p)' = Outdated(p)
  BY DEF AsAsked, Outdated, SetOf
<1> QED BY <1>1 DEF LastAsked

(* At the start nothing has been asked of a plug. *)
LEMMA LastAskedHolds == ASSUME NEW p \in Plugs PROVE Init => LastAsked(p)
BY DEF Init, LastAsked

(* What was last asked of a plug is in the queue, under way or done. *)
LEMMA LastAskedKept ==
    ASSUME WrongPasswordsRefused, TypeOK, SessionInv, Addressed, NEW p \in Plugs,
           LastAsked(p), [Next]_vars
    PROVE  LastAsked(p)'
<1>0. /\ queue \in Seq(TaskRecords) /\ session \in Sessions
      /\ session.task \in TaskRecords
      /\ plugs \in [Plugs -> BOOLEAN] /\ last \in [Plugs -> SUBSET BOOLEAN]
  BY DEF TypeOK, Sessions
<1>1. Idle.task \notin SetOf(p) /\ SetOf(p)' = SetOf(p)
  BY DEF Idle, NoTask, SetOf
<1>2. ASSUME NEW task \in TaskRecords, Asked(task) PROVE LastAsked(p)'
  <2>1. queue' = Append(queue, task) /\ UNCHANGED <<plugs, session>>
        /\ last' = IF task.kind = "set" THEN [last EXCEPT ![task.plug] = {task.value}]
                   ELSE last
    BY <1>2 DEF Asked, Push
  <2>2. CASE task \in SetOf(p)
    <3>1. last'[p] = {task.value}
      BY <1>0, <2>1, <2>2 DEF SetOf
    <3>2. task \in AsAsked(p)' /\ task \notin Outdated(p)'
      BY <2>2, <3>1 DEF AsAsked, Outdated, SetOf
    <3>3. FollowedBy(queue', Outdated(p)', AsAsked(p)') /\ Occurs(queue', AsAsked(p)')
      BY <1>0, <2>1, <3>2, FollowedInAppend, OccursInAppend
    <3> QED BY <3>1, <3>3 DEF LastAsked
  <2>3. CASE task \notin SetOf(p)
    <3>1. last'[p] = last[p]
      BY <1>0, <2>1, <2>3 DEF SetOf
    <3>2. AsAsked(p)' = AsAsked(p) /\ Outdated(p)' = Outdated(p)
      BY <3>1 DEF AsAsked, Outdated, SetOf
    <3>3. task \notin AsAsked(p) /\ task \notin Outdated(p)
      BY <2>3 DEF AsAsked, Outdated
    <3>4. /\ FollowedBy(queue, Outdated(p), AsAsked(p)) =>
                FollowedBy(queue', Outdated(p), AsAsked(p))
          /\ Occurs(queue', AsAsked(p)) <=> Occurs(queue, AsAsked(p))
      BY <1>0, <2>1, <3>3, FollowedInAppend, OccursInAppend
    <3>5. Underway(p)' <=> Underway(p)
      BY <1>1, <2>1 DEF Underway
    <3> QED BY <2>1, <3>1, <3>2, <3>4, <3>5 DEF LastAsked
  <2> QED BY <2>2, <2>3
<1>3. ASSUME NEW plug \in UsedPlugs, Press(plug) PROVE LastAsked(p)'
  <2>1. plug \in Plugs /\ last' = [last EXCEPT ![plug] = {}]
        /\ plugs' = [plugs EXCEPT ![plug] = ~@] /\ UNCHANGED <<queue, session>>
    BY <1>3, PowerAssumption DEF Press
  <2>2. CASE plug = p
    <3>1. last'[p] = {}
      BY <1>0, <2>1, <2>2
    <3> QED BY <3>1 DEF LastAsked
  <2>3. CASE plug # p
    <3>1. last'[p] = last[p] /\ plugs'[p] = plugs[p]
      BY <1>0, <2>1, <2>3
    <3>2. Underway(p)' <=> Underway(p)
      BY <1>1, <2>1 DEF Underway
    <3> QED BY <2>1, <3>1, <3>2, LastAskedStays
  <2> QED BY <2>2, <2>3
<1>4. ASSUME UNCHANGED <<plugs, queue, session, last>> PROVE LastAsked(p)'
  <2>1. Underway(p)' <=> Underway(p)
    BY <1>1, <1>4 DEF Underway
  <2> QED BY <1>4, <2>1, LastAskedStays
<1>5. CASE Start
  <2>1. /\ queue # << >> /\ queue' = Tail(queue) /\ session'.task = Head(queue)
        /\ Head(queue) \in TaskRecords
        /\ session'.pc = IF Head(queue).kind = "other" THEN "other" ELSE "connect"
        /\ session.task = Idle.task /\ UNCHANGED <<plugs, last>>
    BY <1>5, StartSteps
  <2>2. AsAsked(p)' = AsAsked(p) /\ Outdated(p)' = Outdated(p)
    BY <2>1 DEF AsAsked, Outdated, SetOf
  <2>3. ~Underway(p)
    BY <1>1, <2>1 DEF Underway
  <2>4. Underway(p)' <=> Head(queue) \in SetOf(p)
    BY <1>1, <2>1 DEF Underway, SetOf
  <2>5. ASSUME last[p] # {}
        PROVE  /\ FollowedBy(queue', Outdated(p), AsAsked(p))
               /\ \/ Occurs(queue', AsAsked(p))
                  \/ Underway(p)' /\ session'.task.value \in last[p]
                  \/ ~Underway(p)' /\ plugs[p] \in last[p]
    <3>1. /\ FollowedBy(queue', Outdated(p), AsAsked(p))
          /\ Head(queue) \in Outdated(p) => Occurs(queue', AsAsked(p))
          /\ Occurs(queue, AsAsked(p)) =>
                Head(queue) \in AsAsked(p) \/ Occurs(queue', AsAsked(p))
      BY <1>0, <2>1, <2>5, FollowedInTail, OccursInTail DEF LastAsked
    <3>2. CASE Head(queue) \in AsAsked(p)
      BY <2>1, <2>4, <3>1, <3>2 DEF AsAsked
    <3>3. CASE Head(queue) \in Outdated(p)
      BY <3>1, <3>3
    <3>4. CASE Head(queue) \notin SetOf(p)
      <4>1. Head(queue) \notin AsAsked(p)
        BY <3>4 DEF AsAsked
      <4> QED BY <2>3, <2>4, <2>5, <3>1, <3>4, <4>1 DEF LastAsked
    <3>5. Head(queue) \in SetOf(p) => Head(queue) \in AsAsked(p) \cup Outdated(p)
      BY DEF AsAsked, Outdated
    <3> QED BY <3>2, <3>3, <3>4, <3>5
  <2>6. session'.pc # "set"
    BY <2>1
  <2> QED BY <2>1, <2>2, <2>5, <2>6 DEF LastAsked
<1>6. CASE EndOther
  <2>1. /\ session.task.kind = "other" /\ session' = Idle
        /\ UNCHANGED <<plugs, queue, last>>
    BY <1>6, OtherSteps
  <2>2. ~Underway(p) /\ ~Underway(p)'
    BY <1>1, <2>1 DEF Underway, SetOf
  <2> QED BY <2>1, <2>2, LastAskedStays
<1>7. CASE Throw
  BY <1>7, LastAskedForgotten DEF Throw, Answer, AnswerUnchanged
<1>8. CASE ReadToken
  <2>1. /\ session.pc = "connect" /\ session'.pc = "status"
        /\ session'.task = session.task
        /\ UNCHANGED <<plugs, queue, last>>
    BY <1>0, <1>8 DEF ReadToken, At, Sessions
  <2>2. Underway(p)' <=> Underway(p)
    BY <1>1, <2>1 DEF Underway
  <2> QED BY <2>1, <2>2, LastAskedStays
<1>9. CASE ReadStatus
  <2>1. /\ session.pc = "status" /\ session'.pc = AfterStatus /\ session.open
        /\ session'.task = session.task /\ session'.open = session.open
        /\ UNCHANGED <<plugs, queue, last>>
    BY <1>0, <1>9 DEF ReadStatus, At, Sessions
  <2>2. Underway(p)' <=> Underway(p)
    BY <1>1, <2>1 DEF Underway, AfterStatus, SetOf
  <2>3. session'.open
    BY <2>1
  <2> QED BY <2>1, <2>2, <2>3, LastAskedStays
<1>10. CASE ReadStatusEnd
  <2>1. session'.task = session.task
    BY <1>0, <1>10 DEF ReadStatusEnd, Sessions
  <2> QED BY <1>10, <2>1, LastAskedForgotten DEF ReadStatusEnd
<1>11. CASE ReadStatusThrows
  <2>1. session'.task = session.task
    BY <1>0, <1>11 DEF ReadStatusThrows, Sessions
  <2> QED BY <1>11, <2>1, LastAskedForgotten DEF ReadStatusThrows
<1>12. CASE WriteCommand
  <2>1. /\ session.task.kind = "set" /\ session.task.plug \in Plugs
        /\ plugs' = IF session.open
                    THEN [plugs EXCEPT ![session.task.plug] = session.task.value]
                    ELSE plugs
    BY <1>12, CommandWritten
  <2>2. /\ session.pc = "set" /\ session'.pc = "confirm"
        /\ session'.task = session.task /\ UNCHANGED <<queue, last>>
    BY <1>0, <1>12 DEF WriteCommand, At, Sessions
  <2>3. ~Underway(p)' /\ AsAsked(p)' = AsAsked(p) /\ Outdated(p)' = Outdated(p)
    BY <2>2 DEF Underway, AsAsked, Outdated, SetOf
  <2>4. Underway(p) <=> session.task.plug = p
    BY <1>0, <2>1, <2>2 DEF Underway, SetOf
  <2>5. session.task.plug # p => plugs'[p] = plugs[p]
    BY <1>0, <2>1
  <2>6. session.task.plug = p /\ session.open => plugs'[p] = session.task.value
    BY <1>0, <2>1
  <2> QED BY <2>2, <2>3, <2>4, <2>5, <2>6 DEF LastAsked
<1>13. CASE ReadConfirmation
  <2>1. /\ session.pc = "confirm" /\ session'.pc = "bye"
        /\ session'.task = session.task /\ UNCHANGED <<plugs, queue>>
    BY <1>0, <1>13 DEF ReadConfirmation, At, Sessions
  <2>2. ~Underway(p) /\ ~Underway(p)'
    BY <2>1 DEF Underway
  <2>3. CASE last' = last
    BY <2>1, <2>2, <2>3, LastAskedStays
  <2>4. CASE last' = Forgotten
    BY <2>1, <2>4, LastAskedForgotten
  <2> QED BY <1>13, <2>3, <2>4 DEF ReadConfirmation
<1>14. CASE Bye
  <2>1. /\ session.pc = "bye" /\ session' = Idle /\ UNCHANGED <<plugs, queue, last>>
    BY <1>14 DEF Bye, At, Answer, AnswerUnchanged
  <2>2. ~Underway(p) /\ ~Underway(p)'
    BY <1>1, <2>1 DEF Underway
  <2> QED BY <2>1, <2>2, LastAskedStays
<1>15. CASE MainStep
  <2>1. \/ \E task \in TaskRecords : Asked(task)
        \/ \E plug \in UsedPlugs : Press(plug)
        \/ UNCHANGED <<plugs, queue, session, last>>
    <3>1. CASE \E plug \in UsedPlugs : Press(plug)
      BY <3>1
    <3>2. CASE Reopen \/ Restore \/ Handle \/ HandleGone
      BY <3>2 DEF Reopen, Restore, Handle, HandleGone, Crash
    <3>3. CASE \/ Leave \/ Return \/ UNCHANGED vars
               \/ \E tab \in {"main", "setup"} : SelectTab(tab)
      BY <3>3 DEF Leave, Return, SelectTab, ScreenUnchanged, vars
    <3> QED BY <1>15, <3>1, <3>2, <3>3, Asking DEF MainStep
  <2> QED BY <1>2, <1>3, <1>4, <2>1
<1> QED BY <1>5, <1>6, <1>7, <1>8, <1>9, <1>10, <1>11, <1>12, <1>13, <1>14, <1>15, Steps
        DEF Session

(***************************************************************************)
(* What the screen shows.                                                    *)
(***************************************************************************)
(* Plugs that change become touched, and what is shown need not tell them. *)
LEMMA ShownStays ==
    ASSUME Shown, UNCHANGED <<messages, activity>>,
           system'.status = system.status, system'.sockets = system.sockets,
           touched \subseteq touched', \A p \in Plugs \ touched' : plugs'[p] = plugs[p],
           Snapped' <=> Snapped, Snapped => session'.status = session.status
    PROVE  Shown'
<1>1. OwnAnswer' = OwnAnswer /\ Unlike' \subseteq Unlike
  BY DEF OwnAnswer, Unlike, Matches
<1>2. Snapped' => Matches(session.status)'
  BY DEF Shown, Matches
<1>3. ASSUME ~Snapped
      PROVE  /\ FollowedBy(messages, Unlike', OwnAnswer)
             /\ system.status = "online" /\ ~Occurs(messages, OwnAnswer) =>
                   Matches(system.sockets)'
  <2>1. FollowedBy(messages, Unlike', OwnAnswer)
    BY <1>1, <1>3, FollowedByMore DEF Shown
  <2>2. ASSUME system.status = "online", ~Occurs(messages, OwnAnswer)
        PROVE  Matches(system.sockets)'
    BY <1>3, <2>2 DEF Shown, Matches
  <2> QED BY <2>1, <2>2
<1> QED BY <1>1, <1>2, <1>3 DEF Shown

(* A status has been read that is the strip's. *)
LEMMA ShownWhenRead ==
    ASSUME TypeOK, Addressed, OldFirst, Shown,
           UNCHANGED <<plugs, messages, system, activity>>,
           session'.task = session.task, session'.status = plugs, touched' = Snapshot,
           session.task.for # activity => session'.task.for # activity'
    PROVE  Shown'
<1>0. session.task \in TaskRecords /\ activity # 0
  BY PowerAssumption DEF TypeOK, Sessions, Activities
<1>1. OwnAnswer' = OwnAnswer
  BY DEF OwnAnswer
<1>2. CASE session.task.for = activity
  <2>1. Snapped'
    BY <1>2, PowerAssumption DEF Snapped, TypeOK
  <2>2. Matches(session.status)'
    BY DEF Matches
  <2> QED BY <2>1, <2>2 DEF Shown
<1>3. CASE session.task.for = 0
  <2>1. ~Snapped /\ ~Snapped' /\ touched' = touched
    BY <1>0, <1>3 DEF Snapped, Snapshot
  <2> QED BY <2>1, ShownStays
<1>4. CASE session.task.for \notin {0, activity}
  <2>1. ~Snapped'
    BY <1>4 DEF Snapped
  <2>2. ~Occurs(messages, OwnAnswer) /\ system.status = "loading"
    BY <1>0, <1>4 DEF OldFirst, OldTask
  <2>3. Unlike' \subseteq OwnAnswer
    BY <1>1 DEF Unlike
  <2>4. FollowedBy(messages, Unlike', OwnAnswer)
    BY <2>2, <2>3 DEF FollowedBy, Occurs
  <2> QED BY <1>1, <2>1, <2>2, <2>4 DEF Shown
<1> QED BY <1>2, <1>3, <1>4

(* At the start the screen shows no status. *)
LEMMA ShownHolds == Init => Shown
<1> SUFFICES ASSUME Init PROVE Shown
  OBVIOUS
<1>1. Len(messages) = 0 /\ system.status = "loading"
  BY DEF Init, NewSystem
<1>2. session.status = NoStatus
  BY DEF Init, Idle
<1> QED BY <1>1, <1>2 DEF Shown, Snapped, FollowedBy

(* Once garbled, for ever. *)
LEMMA GarbledStays == [Next]_vars /\ garbled => garbled'
BY DEF Next, Session, ServiceConnected, Handle, HandleGone, PushOther, Crash,
       RequestPlugSwitch, Press, StartCommand, Connect, Leave, Return, SelectTab,
       ScreenUnchanged, Reopen, Restore, Start, EndOther, Throw, ReadToken, ReadStatus,
       ReadStatusEnd, ReadStatusThrows, WriteCommand,
       ReadConfirmation, Bye, MainUnchanged, AnswerUnchanged, vars

(* The newest snapshot made for the screen tells the plugs that were not touched. *)
LEMMA ShownKept ==
    ASSUME WrongPasswordsRefused, TypeOK, SessionInv, Addressed, OldFirst, Shown,
           [Next]_vars, ~garbled'
    PROVE  Shown'
<1>0. /\ messages \in Seq(Messages) /\ session \in Sessions /\ system \in Systems
      /\ session.task \in TaskRecords /\ activity # 0
      /\ plugs \in [Plugs -> BOOLEAN]
  BY PowerAssumption DEF TypeOK, Sessions, Activities
<1>1. Idle.task.for = 0 /\ Idle.status = NoStatus
  BY DEF Idle, NoTask
<1>2. UNCHANGED <<plugs, touched, activity>> =>
         Unlike' = Unlike /\ OwnAnswer' = OwnAnswer
  BY DEF Unlike, OwnAnswer, Matches
<1>3. ASSUME NEW task \in TaskRecords, Asked(task) PROVE Shown'
  <2>1. system'.status = system.status /\ system'.sockets = system.sockets
        /\ UNCHANGED <<messages, activity, touched, plugs, session>>
    BY <1>0, <1>3 DEF Asked, Systems
  <2>2. Snapped' <=> Snapped
    BY <2>1 DEF Snapped
  <2> QED BY <2>1, <2>2, ShownStays
<1>4. CASE Handle /\ ~Crash
  <2>1. /\ messages # << >> /\ messages' = Tail(messages)
        /\ Head(messages) \in OwnAnswer
        /\ system'.status = StatusOf(Head(messages).what)
        /\ Head(messages).sockets # NoStatus =>
              system'.sockets = Head(messages).sockets
        /\ UNCHANGED <<plugs, session, activity, touched>>
    BY <1>4, HandleSteps
  <2>2. Snapped' <=> Snapped
    BY <2>1 DEF Snapped
  <2>3. Snapped' => Matches(session.status)'
    BY <2>1, <2>2 DEF Shown, Matches
  <2>4. ASSUME ~Snapped
        PROVE  /\ FollowedBy(messages', Unlike, OwnAnswer)
               /\ Head(messages) \in Unlike => Occurs(messages', OwnAnswer)
    BY <1>0, <2>1, <2>4, FollowedInTail DEF Shown
  <2>5. ASSUME system'.status = "online", Head(messages) \notin Unlike
        PROVE  Matches(system.sockets)'
    <3>1. Head(messages).what = "none"
      BY <2>1, <2>5 DEF StatusOf
    <3>2. Matches(Head(messages).sockets)
      BY <2>1, <2>5, <3>1 DEF Unlike
    <3>3. Head(messages) \notin WrongAnswer
      BY <1>0, <2>1, OccursInTail DEF Addressed
    <3>4. Head(messages).sockets # NoStatus
      BY <1>0, <2>1, <3>1, <3>3 DEF WrongAnswer
    <3> QED BY <2>1, <3>2, <3>4 DEF Matches
  <2> QED BY <1>2, <2>1, <2>2, <2>3, <2>4, <2>5 DEF Shown
<1>5. CASE HandleGone /\ ~Crash
  <2>1. /\ messages # << >> /\ messages' = Tail(messages)
        /\ Head(messages) \in OldAnswer
        /\ UNCHANGED <<plugs, session, system, activity, touched>>
    BY <1>5, GoneSteps
  <2>2. Snapped' <=> Snapped
    BY <2>1 DEF Snapped
  <2>3. Snapped' => Matches(session.status)'
    BY <2>1, <2>2 DEF Shown, Matches
  <2>4. Head(messages) \notin OwnAnswer
    BY <2>1 DEF OldAnswer, OwnAnswer
  <2>5. Occurs(messages, OwnAnswer) <=> Occurs(messages', OwnAnswer)
    BY <1>0, <2>1, <2>4, OccursInTail
  <2>6. ~Snapped => FollowedBy(messages', Unlike, OwnAnswer)
    BY <1>0, <2>1, FollowedInTail DEF Shown
  <2>7. Matches(system.sockets)' <=> Matches(system.sockets)
    BY <2>1 DEF Matches
  <2> QED BY <1>2, <2>1, <2>2, <2>3, <2>5, <2>6, <2>7 DEF Shown
<1>6. CASE Reopen
  <2>1. /\ system'.status = "loading" /\ ~Occurs(messages', OwnAnswer')
        /\ session'.task.for # activity'
    BY <1>6, ReopenSteps
  <2>2. Unlike' \subseteq OwnAnswer'
    BY DEF Unlike
  <2>3. FollowedBy(messages', Unlike', OwnAnswer')
    BY <2>1, <2>2 DEF FollowedBy, Occurs
  <2> QED BY <2>1, <2>3 DEF Shown, Snapped
<1>7. ASSUME NEW plug \in UsedPlugs, Press(plug) PROVE Shown'
  <2>1. /\ plug \in Plugs /\ touched' = touched \cup {plug}
        /\ plugs' = [plugs EXCEPT ![plug] = ~@]
        /\ UNCHANGED <<messages, activity, system, session>>
    BY <1>7, PowerAssumption DEF Press
  <2>2. Snapped' <=> Snapped
    BY <2>1 DEF Snapped
  <2>3. \A p \in Plugs \ touched' : plugs'[p] = plugs[p]
    BY <1>0, <2>1
  <2> QED BY <2>1, <2>2, <2>3, ShownStays
<1>8. ASSUME UNCHANGED <<plugs, messages, activity, touched>>, SameSystem,
             session'.task = session.task, session'.status = session.status
      PROVE  Shown'
  <2>1. system'.status = system.status /\ system'.sockets = system.sockets
    BY <1>8 DEF SameSystem
  <2>2. Snapped' <=> Snapped
    BY <1>8 DEF Snapped
  <2> QED BY <1>8, <2>1, <2>2, ShownStays
<1>9. CASE Start
  <2>1. /\ session'.status = NoStatus /\ session.status = NoStatus
        /\ UNCHANGED <<plugs, messages, system, activity, touched>>
    BY <1>1, <1>9, StartSteps
  <2>2. ~Snapped' /\ ~Snapped
    BY <2>1 DEF Snapped
  <2> QED BY <2>1, <2>2, ShownStays
<1>10. CASE EndOther
  <2>1. /\ session.task.for = 0 /\ session' = Idle
        /\ UNCHANGED <<plugs, messages, system, activity, touched>>
    BY <1>10, OtherSteps
  <2>2. ~Snapped' /\ ~Snapped
    BY <1>0, <1>1, <2>1 DEF Snapped
  <2> QED BY <2>1, <2>2, ShownStays
<1>11. ASSUME NEW what \in Errors, NEW status \in StatusOrNull, Answered(what, status)
       PROVE  Shown'
  <2>1. UNCHANGED <<plugs, activity, system, touched>> /\ session' = Idle
        /\ (what = "none" => status = session.status /\ status # NoStatus)
    BY <1>11, AnswerSteps DEF Answered
  <2>2. ~Snapped'
    BY <1>1, <2>1 DEF Snapped
  <2>3. CASE session.task.for = 0 /\ messages' = messages
    <3>1. ~Snapped
      BY <1>0, <2>3 DEF Snapped
    <3> QED BY <2>1, <2>2, <2>3, <3>1, ShownStays
  <2>4. ASSUME NEW message \in Messages, messages' = Append(messages, message),
               message.to = session.task.for, message.what = what,
               message.sockets = status
        PROVE  Shown'
    <3>1. /\ Occurs(messages', OwnAnswer) <=>
                Occurs(messages, OwnAnswer) \/ message \in OwnAnswer
          /\ message \notin Unlike /\ FollowedBy(messages, Unlike, OwnAnswer) =>
                FollowedBy(messages', Unlike, OwnAnswer)
          /\ message \in OwnAnswer /\ message \notin Unlike =>
                FollowedBy(messages', Unlike, OwnAnswer)
      BY <1>0, <2>4, OccursInAppend, FollowedInAppend
    <3>2. CASE session.task.for = activity
      <4>1. message \in OwnAnswer
        BY <2>4, <3>2 DEF OwnAnswer
      <4>2. message \notin Unlike
        BY <2>1, <2>4, <3>2 DEF Unlike, Shown, Snapped
      <4> QED BY <1>2, <2>1, <2>2, <3>1, <4>1, <4>2 DEF Shown
    <3>3. CASE session.task.for # activity
      <4>1. message \notin OwnAnswer /\ message \notin Unlike /\ ~Snapped
        BY <2>4, <3>3 DEF OwnAnswer, Unlike, Snapped
      <4>2. Matches(system.sockets)' <=> Matches(system.sockets)
        BY <2>1 DEF Matches
      <4> QED BY <1>2, <2>1, <2>2, <3>1, <4>1, <4>2 DEF Shown
    <3> QED BY <3>2, <3>3
  <2> QED BY <1>11, <2>3, <2>4, AnswerSteps
<1>12. CASE ReadToken
  <2>1. session'.task = session.task /\ session'.status = session.status
    BY <1>0, <1>12 DEF ReadToken, Sessions
  <2>2. SameSystem
    BY <1>12 DEF ReadToken, MainUnchanged, SameSystem
  <2> QED BY <1>8, <1>12, <2>1, <2>2 DEF ReadToken, MainUnchanged
<1>13. CASE ReadStatus
  <2>1. session.token \in Tokens /\ Accepted
    BY <1>13 DEF ReadStatus, SessionInv, Accepted
  <2>2. session'.task = session.task /\ session'.status = plugs
    BY <1>0, <1>13, <2>1, StatusRead DEF ReadStatus, Sessions
  <2> QED BY <1>13, <2>2, ShownWhenRead DEF ReadStatus, MainUnchanged
<1>14. CASE ReadStatusEnd
  BY <1>14 DEF ReadStatusEnd
<1>15. CASE ReadStatusThrows
  <2>1. session'.task = session.task /\ session'.status = session.status
    BY <1>0, <1>15 DEF ReadStatusThrows, Sessions
  <2>2. SameSystem
    BY <1>15 DEF ReadStatusThrows, MainUnchanged, SameSystem
  <2> QED BY <1>8, <1>15, <2>1, <2>2 DEF ReadStatusThrows, MainUnchanged
<1>16. CASE WriteCommand
  <2>1. /\ session'.task = session.task /\ session'.status = session.status
        /\ touched' = touched \cup {p \in Plugs : plugs'[p] # plugs[p]}
        /\ UNCHANGED <<messages, system, activity>>
    BY <1>0, <1>16 DEF WriteCommand, MainUnchanged, Sessions
  <2>2. Snapped' <=> Snapped
    BY <2>1 DEF Snapped
  <2> QED BY <2>1, <2>2, ShownStays
<1>17. CASE ReadConfirmation
  <2>1. session.open /\ session'.task = session.task
        /\ touched' = Snapshot /\ UNCHANGED <<plugs, messages, system, activity>>
        /\ session'.status = AddStatus(TaskKey, session.token,
                                       StripStatus(StripKey, session.token, plugs))
    BY <1>0, <1>17 DEF ReadConfirmation, MainUnchanged, Sessions
  <2>2. session.token \in Tokens /\ Accepted
    BY <1>17, <2>1 DEF ReadConfirmation, At, SessionInv
  <2>3. session'.status = plugs
    BY <2>1, <2>2, StatusRead
  <2> QED BY <2>1, <2>3, ShownWhenRead
<1>18. CASE MainStep
  <2>1. CASE \/ UNCHANGED vars \/ Crash \/ Restore
             \/ Leave \/ Return \/ \E tab \in {"main", "setup"} : SelectTab(tab)
    <3>1. UNCHANGED <<plugs, touched, session, messages, activity>>
      BY <2>1 DEF vars, Crash, Restore, Leave, Return, SelectTab, ScreenUnchanged
    <3>2. SameSystem
      BY <1>0, <2>1 DEF vars, Crash, Restore, Leave, Return, SelectTab, SameSystem, Systems
    <3> QED BY <1>8, <3>1, <3>2
  <2>2. CASE \/ ServiceConnected
             \/ PushOther
             \/ \E plug \in UsedPlugs : RequestPlugSwitch(plug)
             \/ \E timer \in Timers : StartCommand(timer)
             \/ \E entered \in Settings : Connect(entered)
    BY <1>3, <2>2, Asking
  <2>3. CASE \/ Handle /\ ~Crash
             \/ HandleGone /\ ~Crash
             \/ \E plug \in UsedPlugs : Press(plug)
             \/ Reopen
    BY <1>4, <1>5, <1>6, <1>7, <2>3
  <2> QED BY <1>18, <2>1, <2>2, <2>3 DEF MainStep
<1>19. CASE Throw \/ Bye
  <2>1. \E what \in Errors, status \in StatusOrNull : Answered(what, status)
    BY <1>19, Answering
  <2> QED BY <1>11, <2>1
<1> QED BY <1>9, <1>10, <1>12, <1>13, <1>14, <1>15, <1>16, <1>17, <1>18, <1>19, Steps
        DEF Session

(***************************************************************************)
(* Theorems.                                                                  *)
(***************************************************************************)
(* The invariant that needs no hypothesis on the passwords. *)
LEMMA Invariance == Spec => []IInv
<1>1. Init => IInv
  BY TypeHolds, SessionInvHolds, AddressedHolds, SafeHolds, InForceHolds, OldFirstHolds
     DEF IInv
<1>2. IInv /\ [Next]_vars => IInv'
  BY TypeKept, SessionInvKept, AddressedKept, SafeKept, InForceKept, OldFirstKept DEF IInv
<1> QED BY <1>1, <1>2, PTL DEF Spec

(* Every variable keeps its type: a status is four plugs or null, and who asks
   is an activity or nobody (PowerManagerTask, PowerSystem). *)
THEOREM PowerTypeCorrect == Spec => []TypeOK
<1>1. IInv => TypeOK
  BY DEF IInv
<1> QED BY <1>1, Invariance, PTL

(* An answer kills the process only after an activity was replaced, or its screen
   left, while an answer was awaited, or an activity was restored, however many of
   them there were (DomoSystem's handler, PowerFragment.transition). *)
THEOREM PowerSurvives == Spec => []CrashesOnlyIfUnsafe
<1>1. IInv => CrashesOnlyIfUnsafe
  BY DEF IInv, Safe, CrashesOnlyIfUnsafe
<1> QED BY <1>1, Invariance, PTL

(* With all answers in, the status is about the settings in force, however many
   were entered while earlier requests waited (PowerSystem.connect). *)
THEOREM StatusOfTheSettings == Spec => []StatusIsOfTheSettings
<1>1. IInv => StatusIsOfTheSettings
  <2>1. SUFFICES ASSUME IInv, Quiet, system.status # "loading"
                 PROVE  answered = settings
    BY DEF StatusIsOfTheSettings
  <2>2. session = Idle /\ activity # 0
    BY <2>1, PowerAssumption DEF IInv, SessionInv, Quiet, TypeOK, Activities
  <2>3. session.task \notin FreshTask
    BY <2>2 DEF Idle, NoTask, FreshTask
  <2>4. Len(queue) = 0 /\ Len(messages) = 0
    BY <2>1 DEF Quiet
  <2>5. ~FreshAsked /\ ~Occurs(messages, FreshAnswer)
    BY <2>3, <2>4 DEF FreshAsked, Occurs
  <2> QED BY <2>1, <2>5 DEF IInv, InForce
<1> QED BY <1>1, Invariance, PTL

(* The rest of the invariant, where wrong passwords are refused. *)
LEMMA Faithfulness ==
    ASSUME WrongPasswordsRefused
    PROVE  Spec => [](IInv /\ Faithful)
<1>1. Init => Faithful
  BY LastAskedHolds, ShownHolds DEF Faithful
<1>2. IInv /\ Faithful /\ [Next]_vars => Faithful'
  <2>1. SUFFICES ASSUME IInv, Faithful, [Next]_vars
                 PROVE  Faithful'
    OBVIOUS
  <2>2. TypeOK /\ SessionInv /\ Addressed /\ OldFirst
    BY <2>1 DEF IInv
  <2>3. ASSUME NEW p \in Plugs PROVE LastAsked(p)'
    <3>1. LastAsked(p)
      BY <2>1 DEF Faithful
    <3> QED BY <2>1, <2>2, <3>1, LastAskedKept
  <2>4. garbled' \/ Shown'
    BY <2>1, <2>2, ShownKept, GarbledStays DEF Faithful
  <2> QED BY <2>3, <2>4 DEF Faithful
<1> QED BY <1>1, <1>2, Invariance, PTL DEF Spec

(* With all answers in, an online screen shows each plug as it is, but for those
   switched since its snapshot: over the cipher, for every token and every right
   and wrong password that the response tells apart, and across activities
   (PowerDevice.addStatus, PowerSystem.requestResponse). *)
THEOREM ScreenMatches ==
    ASSUME WrongPasswordsRefused
    PROVE  Spec => []ScreenMatchesStrip
<1>1. IInv /\ Faithful => ScreenMatchesStrip
  <2>1. SUFFICES ASSUME IInv, Faithful, Quiet, system.status = "online", ~garbled,
                        NEW p \in Plugs \ touched
                 PROVE  system.sockets[p] = plugs[p]
    BY DEF ScreenMatchesStrip
  <2>2. session = Idle /\ Len(messages) = 0
    BY <2>1 DEF IInv, SessionInv, Quiet
  <2>3. ~Snapped /\ ~Occurs(messages, OwnAnswer)
    BY <2>2 DEF Snapped, Idle, Occurs
  <2>4. Matches(system.sockets)
    BY <2>1, <2>3 DEF Faithful, Shown
  <2> QED BY <2>4 DEF Matches
<1> QED BY <1>1, Faithfulness, PTL

(* With all tasks done, a plug is in the state last asked of it, by a tap or by a
   timer of either activity, unless that request failed or a button was pressed
   (PowerService, ConnectionManager's queue, PowerDevice.setStatus). *)
THEOREM LastCommand ==
    ASSUME WrongPasswordsRefused
    PROVE  Spec => []LastCommandWins
<1>1. IInv /\ Faithful => LastCommandWins
  <2>1. SUFFICES ASSUME IInv, Faithful, Quiet, NEW p \in Plugs, NEW v \in last[p]
                 PROVE  v = plugs[p]
    BY DEF LastCommandWins
  <2>2. session = Idle /\ Len(queue) = 0
    BY <2>1 DEF IInv, SessionInv, Quiet
  <2>3. ~Underway(p) /\ ~Occurs(queue, AsAsked(p))
    BY <2>2 DEF Underway, Idle, Occurs
  <2>4. LastAsked(p)
    BY <2>1 DEF Faithful
  <2>5. plugs[p] \in last[p]
    BY <2>1, <2>3, <2>4 DEF LastAsked
  <2> QED BY <2>1, <2>4, <2>5 DEF LastAsked
<1> QED BY <1>1, Faithfulness, PTL

(* A session switches the plug of its task, to its value, and no other: the other
   plugs are sent "no change" (PowerManagerTask.doSetStatus). *)
THEOREM OnlyAskedSwitches ==
    ASSUME WrongPasswordsRefused
    PROVE  Spec => OnlyAskedPlugSwitches
<1> DEFINE Obeys ==
        \A p \in Plugs :
            plugs'[p] # plugs[p] /\ presses' = presses =>
                /\ session.task.kind = "set"
                /\ session.task.plug = p
                /\ session.task.value = plugs'[p]
<1>1. IInv /\ [Next]_vars => [Obeys]_vars
  <2>1. SUFFICES ASSUME IInv, [Next]_vars, NEW p \in Plugs,
                        plugs'[p] # plugs[p], presses' = presses
                 PROVE  /\ session.task.kind = "set"
                        /\ session.task.plug = p
                        /\ session.task.value = plugs'[p]
    OBVIOUS
  <2>2. TypeOK /\ SessionInv
    BY <2>1 DEF IInv
  <2>3. presses \in Nat /\ plugs \in [Plugs -> BOOLEAN]
    BY <2>2, PowerAssumption DEF TypeOK
  <2>4. ~ \E plug \in UsedPlugs : Press(plug)
    BY <2>1, <2>3 DEF Press
  <2>5. WriteCommand
    BY <2>1, <2>4, SwitchedByCommand
  <2>6. /\ session.task.kind = "set" /\ session.task.plug \in Plugs
        /\ plugs' = IF session.open
                    THEN [plugs EXCEPT ![session.task.plug] = session.task.value]
                    ELSE plugs
    BY <2>2, <2>5, CommandWritten
  <2> QED BY <2>1, <2>3, <2>6
<1> QED BY <1>1, Invariance, PTL DEF Spec, OnlyAskedPlugSwitches
=============================================================================
