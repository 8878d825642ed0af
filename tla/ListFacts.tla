----------------------------- MODULE ListFacts -----------------------------
(* What the sequence operators do to the set of things in a list.             *)
EXTENDS Integers, SequencesExt, FiniteSetTheorems, WellFoundedInduction, TLAPS

(* What is in a list is its head and what is in its tail. *)
LEMMA RangeOfTail ==
    ASSUME NEW S, NEW s \in Seq(S), s # << >>
    PROVE  /\ Head(s) \in S /\ Tail(s) \in Seq(S)
           /\ Range(s) = {Head(s)} \cup Range(Tail(s))
<1>1. /\ Len(s) \in Nat \ {0} /\ Head(s) = s[1]
      /\ DOMAIN s = 1 .. Len(s) /\ DOMAIN Tail(s) = 1 .. Len(s) - 1
      /\ Tail(s) \in Seq(S) /\ Len(Tail(s)) = Len(s) - 1
      /\ \A i \in 1 .. Len(s) - 1 : Tail(s)[i] = s[i + 1]
  OBVIOUS
<1>2. ASSUME NEW x \in Range(s)
      PROVE  x \in {Head(s)} \cup Range(Tail(s))
  <2>1. PICK i \in 1 .. Len(s) : s[i] = x
    BY <1>1, <1>2 DEF Range
  <2>2. CASE i = 1
    BY <1>1, <2>1, <2>2
  <2>3. CASE i # 1
    <3>1. i - 1 \in 1 .. Len(s) - 1 /\ (i - 1) + 1 = i
      BY <1>1, <2>1, <2>3
    <3>2. Tail(s)[i - 1] = x
      BY <1>1, <2>1, <3>1
    <3> QED BY <1>1, <3>1, <3>2 DEF Range
  <2> QED BY <2>2, <2>3
<1>3. ASSUME NEW x \in Range(Tail(s))
      PROVE  x \in Range(s)
  <2>1. PICK i \in 1 .. Len(s) - 1 : Tail(s)[i] = x
    BY <1>1, <1>3 DEF Range
  <2>2. i + 1 \in 1 .. Len(s) /\ s[i + 1] = x
    BY <1>1, <2>1
  <2> QED BY <1>1, <2>2 DEF Range
<1>4. Head(s) \in Range(s)
  BY <1>1 DEF Range
<1> QED BY <1>1, <1>2, <1>3, <1>4

(* The elements of a concatenation, by index. *)
LEMMA ConcatIs ==
    ASSUME NEW S, NEW s \in Seq(S), NEW t \in Seq(S)
    PROVE  /\ s \o t \in Seq(S) /\ Len(s \o t) = Len(s) + Len(t)
           /\ \A i \in 1 .. Len(s) : (s \o t)[i] = s[i]
           /\ \A i \in Len(s) + 1 .. Len(s) + Len(t) :
                 (s \o t)[i] = t[i - Len(s)]
OBVIOUS

(* A concatenation holds what its parts hold. *)
LEMMA RangeOfConcat ==
    ASSUME NEW S, NEW s \in Seq(S), NEW t \in Seq(S)
    PROVE  s \o t \in Seq(S) /\ Range(s \o t) = Range(s) \cup Range(t)
<1>1. /\ s \o t \in Seq(S) /\ Len(s \o t) = Len(s) + Len(t)
      /\ Len(s) \in Nat /\ Len(t) \in Nat
      /\ DOMAIN s = 1 .. Len(s) /\ DOMAIN t = 1 .. Len(t)
      /\ DOMAIN (s \o t) = 1 .. Len(s) + Len(t)
      /\ \A i \in 1 .. Len(s) : (s \o t)[i] = s[i]
      /\ \A i \in Len(s) + 1 .. Len(s) + Len(t) : (s \o t)[i] = t[i - Len(s)]
  OBVIOUS
<1>2. ASSUME NEW x \in Range(s \o t)
      PROVE  x \in Range(s) \cup Range(t)
  <2>1. PICK i \in 1 .. Len(s) + Len(t) : (s \o t)[i] = x
    BY <1>1, <1>2 DEF Range
  <2>2. CASE i <= Len(s)
    BY <1>1, <2>1, <2>2 DEF Range
  <2>3. CASE i > Len(s)
    <3>1. i - Len(s) \in 1 .. Len(t) /\ t[i - Len(s)] = x
      BY <1>1, <2>1, <2>3
    <3> QED BY <1>1, <3>1 DEF Range
  <2> QED BY <1>1, <2>1, <2>2, <2>3
<1>3. ASSUME NEW x \in Range(s)
      PROVE  x \in Range(s \o t)
  <2>1. PICK i \in 1 .. Len(s) : s[i] = x
    BY <1>1, <1>3 DEF Range
  <2> QED BY <1>1, <2>1 DEF Range
<1>4. ASSUME NEW x \in Range(t)
      PROVE  x \in Range(s \o t)
  <2>1. PICK i \in 1 .. Len(t) : t[i] = x
    BY <1>1, <1>4 DEF Range
  <2>2. /\ i + Len(s) \in Len(s) + 1 .. Len(s) + Len(t)
        /\ (i + Len(s)) - Len(s) = i
    BY <1>1, <2>1
  <2>3. (s \o t)[i + Len(s)] = x
    BY <1>1, <2>1, <2>2
  <2> QED BY <1>1, <2>2, <2>3, SMTT(20) DEF Range
<1> QED BY <1>1, <1>2, <1>3, <1>4

(* What the shortest lists hold. *)
LEMMA RangeOfFew ==
    /\ Range(<< >>) = {}
    /\ \A a : Range(<<a>>) = {a}
    /\ \A a, b : Range(<<a, b>>) = {a, b}
<1>1. Range(<< >>) = {}
  BY DEF Range
<1>2. ASSUME NEW a PROVE Range(<<a>>) = {a}
  BY DEF Range
<1>3. ASSUME NEW a, NEW b PROVE Range(<<a, b>>) = {a, b}
  <2>1. DOMAIN <<a, b>> = {1, 2}
    OBVIOUS
  <2> QED BY <2>1 DEF Range
<1> QED BY <1>1, <1>2, <1>3

(* A list without repetitions is as long as the set it lists. *)
LEMMA LengthIsCardinality ==
    ASSUME NEW S, NEW s \in Seq(S), IsInjective(s)
    PROVE  Len(s) = Cardinality(Range(s))
<1>1. Len(s) \in Nat /\ DOMAIN s = 1 .. Len(s)
  OBVIOUS
<1>2. s \in Bijection(1 .. Len(s), Range(s))
  <2>1. s \in [1 .. Len(s) -> Range(s)]
    BY <1>1 DEF Range
  <2>2. \A x \in Range(s) : \E i \in 1 .. Len(s) : s[i] = x
    BY <1>1 DEF Range
  <2> QED BY <2>1, <2>2 DEF Bijection, Injection, Surjection
<1>3. ExistsBijection(1 .. Len(s), Range(s))
  BY <1>2 DEF ExistsBijection
<1>4. IsFiniteSet(1 .. Len(s)) /\ Cardinality(1 .. Len(s)) = Len(s)
  <2>1. /\ IsFiniteSet(1 .. Len(s))
        /\ Cardinality(1 .. Len(s)) = IF 1 > Len(s) THEN 0 ELSE Len(s) - 1 + 1
    BY <1>1, FS_Interval
  <2> QED BY <1>1, <2>1
<1> QED BY <1>3, <1>4, FS_Bijection

(* InsertAt moves what is at and after the place, RemoveAt what is after it. *)
LEMMA InsertAtIs ==
    ASSUME NEW S, NEW s \in Seq(S), NEW e \in S, NEW i \in 1 .. Len(s) + 1
    PROVE  /\ DOMAIN InsertAt(s, i, e) = 1 .. Len(s) + 1
           /\ \A j \in 1 .. Len(s) + 1 :
                 InsertAt(s, i, e)[j] = IF j < i THEN s[j]
                                        ELSE IF j = i THEN e ELSE s[j - 1]
<1>1. Len(s) \in Nat /\ i \in Nat /\ i - 1 \in 0 .. Len(s)
  OBVIOUS
<1> DEFINE a == SubSeq(s, 1, i - 1)
           b == SubSeq(s, i, Len(s))
<1>2. /\ a \in Seq(S) /\ Len(a) = i - 1
      /\ \A j \in 1 .. i - 1 : a[j] = s[j]
  BY <1>1
<1>3. /\ b \in Seq(S) /\ Len(b) = Len(s) + 1 - i
      /\ \A j \in 1 .. Len(s) + 1 - i : b[j] = s[i + j - 1]
  BY <1>1
<1> HIDE DEF a, b
<1>4. /\ a \o <<e>> \in Seq(S) /\ Len(a \o <<e>>) = i
      /\ \A j \in 1 .. i : (a \o <<e>>)[j] = IF j < i THEN s[j] ELSE e
  BY <1>1, <1>2
<1> DEFINE c == a \o <<e>>
<1>5. InsertAt(s, i, e) = c \o b
  BY DEF InsertAt, a, b
<1>6. c \in Seq(S) /\ Len(c) = i /\ \A j \in 1 .. i : c[j] = IF j < i THEN s[j] ELSE e
  BY <1>4
<1> HIDE DEF c
<1>7. /\ c \o b \in Seq(S) /\ Len(c \o b) = Len(s) + 1
      /\ \A j \in 1 .. i : (c \o b)[j] = c[j]
      /\ \A j \in i + 1 .. Len(s) + 1 : (c \o b)[j] = b[j - i]
  BY <1>1, <1>3, <1>6
<1>8. \A j \in i + 1 .. Len(s) + 1 : (c \o b)[j] = s[j - 1]
  <2> SUFFICES ASSUME NEW j \in i + 1 .. Len(s) + 1 PROVE (c \o b)[j] = s[j - 1]
    OBVIOUS
  <2>1. j - i \in 1 .. Len(s) + 1 - i /\ i + (j - i) - 1 = j - 1
    BY <1>1
  <2> QED BY <1>3, <1>7, <2>1
<1> QED BY <1>1, <1>5, <1>6, <1>7, <1>8

LEMMA InsertAtKeeps ==
    ASSUME NEW S, NEW s \in Seq(S), IsInjective(s),
           NEW e \in S, e \notin Range(s), NEW i \in 1 .. Len(s) + 1
    PROVE  /\ Range(InsertAt(s, i, e)) = Range(s) \cup {e}
           /\ IsInjective(InsertAt(s, i, e))
<1> DEFINE r == InsertAt(s, i, e)
<1>1. /\ DOMAIN r = 1 .. Len(s) + 1
      /\ \A j \in 1 .. Len(s) + 1 :
            r[j] = IF j < i THEN s[j] ELSE IF j = i THEN e ELSE s[j - 1]
  BY InsertAtIs
<1> HIDE DEF r
<1>2. Len(s) \in Nat /\ DOMAIN s = 1 .. Len(s) /\ i \in Nat
  OBVIOUS
<1>3. \A j \in 1 .. Len(s) : s[j] # e
  BY <1>2 DEF Range
<1>4. ASSUME NEW x \in Range(s)
      PROVE  x \in Range(r)
  <2>1. PICK j \in 1 .. Len(s) : s[j] = x
    BY <1>2, <1>4 DEF Range
  <2>2. CASE j < i
    <3>1. r[j] = x /\ j \in DOMAIN r
      BY <1>1, <1>2, <2>1, <2>2
    <3> QED BY <3>1 DEF Range
  <2>3. CASE ~(j < i)
    <3>1. /\ j + 1 \in 1 .. Len(s) + 1 /\ ~(j + 1 < i) /\ j + 1 # i
          /\ (j + 1) - 1 = j
      BY <1>2, <2>1, <2>3
    <3>2. r[j + 1] = x /\ j + 1 \in DOMAIN r
      BY <1>1, <2>1, <3>1
    <3> QED BY <3>2 DEF Range
  <2> QED BY <2>2, <2>3
<1>5. e \in Range(r)
  BY <1>1, <1>2 DEF Range
<1>6. ASSUME NEW x \in Range(r)
      PROVE  x \in Range(s) \cup {e}
  <2>1. PICK j \in 1 .. Len(s) + 1 : r[j] = x
    BY <1>1, <1>6 DEF Range
  <2>2. x = e \/ \E k \in 1 .. Len(s) : x = s[k]
    <3>1. CASE j < i
      BY <1>1, <1>2, <2>1, <3>1
    <3>2. CASE j = i
      BY <1>1, <1>2, <2>1, <3>2
    <3>3. CASE i < j
      <4>1. j - 1 \in 1 .. Len(s) /\ ~(j < i) /\ j # i
        BY <1>2, <2>1, <3>3
      <4>2. x = s[j - 1]
        BY <1>1, <2>1, <4>1
      <4> QED BY <4>1, <4>2
    <3> QED BY <1>2, <2>1, <3>1, <3>2, <3>3
  <2> QED BY <1>2, <2>2 DEF Range
<1>7. IsInjective(r)
  <2> SUFFICES ASSUME NEW j \in 1 .. Len(s) + 1, NEW k \in 1 .. Len(s) + 1,
                      r[j] = r[k], j < k
               PROVE  FALSE
    BY <1>1, <1>2 DEF IsInjective
  <2>1. \A a, b \in 1 .. Len(s) : s[a] = s[b] => a = b
    BY <1>2 DEF IsInjective
  <2>2. CASE k < i
    BY <1>1, <1>2, <2>1, <2>2
  <2>3. CASE k = i
    BY <1>1, <1>2, <1>3, <2>3
  <2>4. CASE i < k
    <3>1. /\ k - 1 \in 1 .. Len(s) /\ r[k] = s[k - 1]
      BY <1>1, <1>2, <2>4
    <3>2. CASE j < i
      BY <1>1, <1>2, <2>1, <2>4, <3>1, <3>2
    <3>3. CASE j = i
      BY <1>1, <1>2, <1>3, <3>1, <3>3
    <3>4. CASE i < j
      <4>1. j - 1 \in 1 .. Len(s) /\ r[j] = s[j - 1]
        BY <1>1, <1>2, <3>4
      <4> QED BY <2>1, <3>1, <4>1
    <3> QED BY <1>2, <3>2, <3>3, <3>4
  <2> QED BY <1>2, <2>2, <2>3, <2>4
<1> QED BY <1>4, <1>5, <1>6, <1>7 DEF r

LEMMA RemoveAtIs ==
    ASSUME NEW S, NEW s \in Seq(S), NEW i \in 1 .. Len(s)
    PROVE  /\ DOMAIN RemoveAt(s, i) = 1 .. Len(s) - 1
           /\ \A j \in 1 .. Len(s) - 1 :
                 RemoveAt(s, i)[j] = IF j < i THEN s[j] ELSE s[j + 1]
<1>1. Len(s) \in Nat /\ i \in Nat /\ i - 1 \in 0 .. Len(s) - 1
  OBVIOUS
<1> DEFINE a == SubSeq(s, 1, i - 1)
           b == SubSeq(s, i + 1, Len(s))
<1>2. /\ a \in Seq(S) /\ Len(a) = i - 1
      /\ \A j \in 1 .. i - 1 : a[j] = s[j]
  BY <1>1
<1>3. /\ b \in Seq(S) /\ Len(b) = Len(s) - i
      /\ \A j \in 1 .. Len(s) - i : b[j] = s[i + j]
  BY <1>1
<1>4. RemoveAt(s, i) = a \o b
  BY DEF RemoveAt
<1> HIDE DEF a, b
<1>5. /\ a \o b \in Seq(S) /\ Len(a \o b) = Len(s) - 1
      /\ \A j \in 1 .. i - 1 : (a \o b)[j] = a[j]
      /\ \A j \in i .. Len(s) - 1 : (a \o b)[j] = b[j - (i - 1)]
  <2>1. /\ a \o b \in Seq(S) /\ Len(a \o b) = Len(a) + Len(b)
        /\ \A j \in 1 .. Len(a) : (a \o b)[j] = a[j]
        /\ \A j \in Len(a) + 1 .. Len(a) + Len(b) : (a \o b)[j] = b[j - Len(a)]
    <3>1. a \in Seq(S) /\ b \in Seq(S)
      BY <1>2, <1>3
    <3> QED BY <3>1, ConcatIs
  <2>2. Len(a) + Len(b) = Len(s) - 1 /\ Len(a) + 1 = i
    BY <1>1, <1>2, <1>3
  <2> QED BY <1>1, <1>2, <2>1, <2>2
<1>6. \A j \in i .. Len(s) - 1 : (a \o b)[j] = s[j + 1]
  <2> SUFFICES ASSUME NEW j \in i .. Len(s) - 1 PROVE (a \o b)[j] = s[j + 1]
    OBVIOUS
  <2>1. j - (i - 1) \in 1 .. Len(s) - i /\ i + (j - (i - 1)) = j + 1
    BY <1>1
  <2> QED BY <1>3, <1>5, <2>1
<1> QED BY <1>1, <1>2, <1>4, <1>5, <1>6

LEMMA RemoveAtKeeps ==
    ASSUME NEW S, NEW s \in Seq(S), IsInjective(s), NEW i \in 1 .. Len(s)
    PROVE  /\ Range(RemoveAt(s, i)) = Range(s) \ {s[i]}
           /\ IsInjective(RemoveAt(s, i))
<1> DEFINE r == RemoveAt(s, i)
<1>1. /\ DOMAIN r = 1 .. Len(s) - 1
      /\ \A j \in 1 .. Len(s) - 1 : r[j] = IF j < i THEN s[j] ELSE s[j + 1]
  BY RemoveAtIs
<1> HIDE DEF r
<1>2. Len(s) \in Nat /\ DOMAIN s = 1 .. Len(s) /\ i \in Nat
  OBVIOUS
<1>3. \A a, b \in 1 .. Len(s) : s[a] = s[b] => a = b
  BY <1>2 DEF IsInjective
<1>4. ASSUME NEW x \in Range(s), x # s[i]
      PROVE  x \in Range(r)
  <2>1. PICK j \in 1 .. Len(s) : s[j] = x
    BY <1>2, <1>4 DEF Range
  <2>2. CASE j < i
    <3>1. r[j] = x /\ j \in DOMAIN r
      BY <1>1, <1>2, <2>1, <2>2
    <3> QED BY <3>1 DEF Range
  <2>3. CASE i < j
    <3>1. j - 1 \in 1 .. Len(s) - 1 /\ ~(j - 1 < i) /\ (j - 1) + 1 = j
      BY <1>2, <2>1, <2>3
    <3>2. r[j - 1] = x /\ j - 1 \in DOMAIN r
      BY <1>1, <2>1, <3>1
    <3> QED BY <3>2 DEF Range
  <2>4. j # i
    BY <1>4, <2>1
  <2> QED BY <1>2, <2>1, <2>2, <2>3, <2>4
<1>5. ASSUME NEW j \in 1 .. Len(s) - 1
      PROVE  \E k \in 1 .. Len(s) :
                k # i /\ r[j] = s[k] /\ k = IF j < i THEN j ELSE j + 1
  <2>1. CASE j < i
    BY <1>1, <1>2, <2>1
  <2>2. CASE ~(j < i)
    <3>1. j + 1 \in 1 .. Len(s) /\ j + 1 # i
      BY <1>2, <2>2
    <3> QED BY <1>1, <2>2, <3>1
  <2> QED BY <2>1, <2>2
<1>6. ASSUME NEW x \in Range(r)
      PROVE  x \in Range(s) \ {s[i]}
  <2>1. PICK j \in 1 .. Len(s) - 1 : r[j] = x
    BY <1>1, <1>6 DEF Range
  <2>2. PICK k \in 1 .. Len(s) : k # i /\ x = s[k]
    BY <1>5, <2>1
  <2>3. s[k] # s[i]
    BY <1>3, <2>2
  <2> QED BY <1>2, <2>2, <2>3 DEF Range
<1>7. IsInjective(r)
  <2> SUFFICES ASSUME NEW a \in 1 .. Len(s) - 1, NEW b \in 1 .. Len(s) - 1, r[a] = r[b]
               PROVE  a = b
    BY <1>1 DEF IsInjective
  <2>1. PICK k \in 1 .. Len(s) : r[a] = s[k] /\ k = IF a < i THEN a ELSE a + 1
    BY <1>5
  <2>2. PICK m \in 1 .. Len(s) : r[b] = s[m] /\ m = IF b < i THEN b ELSE b + 1
    BY <1>5
  <2>3. k = m
    BY <1>3, <2>1, <2>2
  <2> QED BY <1>2, <2>1, <2>2, <2>3
<1> QED BY <1>4, <1>6, <1>7 DEF r

-----------------------------------------------------------------------------
(***************************************************************************)
(* Occurrences of elements of a set in a sequence.                            *)
(***************************************************************************)
Occurs(s, M) == \E i \in 1 .. Len(s) : s[i] \in M

OccursOnce(s, M) == \A i, j \in 1 .. Len(s) : s[i] \in M /\ s[j] \in M => i = j

FollowedBy(s, M, N) ==
    \A i \in 1 .. Len(s) : s[i] \in M => \E j \in i + 1 .. Len(s) : s[j] \in N

(* Appending adds one occurrence at most. *)
LEMMA OccursInAppend ==
    ASSUME NEW S, NEW s \in Seq(S), NEW e, NEW M
    PROVE  /\ Occurs(Append(s, e), M) <=> Occurs(s, M) \/ e \in M
           /\ OccursOnce(s, M) /\ ~(Occurs(s, M) /\ e \in M) => OccursOnce(Append(s, e), M)
<1> DEFINE t == Append(s, e)
<1>1. /\ Len(t) = Len(s) + 1 /\ Len(s) \in Nat
      /\ \A i \in 1 .. Len(s) : t[i] = s[i]
      /\ t[Len(s) + 1] = e
  OBVIOUS
<1> HIDE DEF t
<1>2. Occurs(t, M) <=> Occurs(s, M) \/ e \in M
  <2>1. ASSUME Occurs(t, M) PROVE Occurs(s, M) \/ e \in M
    <3>1. PICK i \in 1 .. Len(t) : t[i] \in M
      BY <2>1 DEF Occurs
    <3>2. CASE i = Len(s) + 1
      BY <1>1, <3>1, <3>2
    <3>3. CASE i # Len(s) + 1
      <4>1. i \in 1 .. Len(s)
        BY <1>1, <3>1, <3>3
      <4> QED BY <1>1, <3>1, <4>1 DEF Occurs
    <3> QED BY <3>2, <3>3
  <2>2. ASSUME Occurs(s, M) PROVE Occurs(t, M)
    <3>1. PICK i \in 1 .. Len(s) : s[i] \in M
      BY <2>2 DEF Occurs
    <3>2. i \in 1 .. Len(t) /\ t[i] \in M
      BY <1>1, <3>1
    <3> QED BY <3>2 DEF Occurs
  <2>3. ASSUME e \in M PROVE Occurs(t, M)
    <3>1. Len(s) + 1 \in 1 .. Len(t)
      BY <1>1
    <3> QED BY <1>1, <2>3, <3>1 DEF Occurs
  <2> QED BY <2>1, <2>2, <2>3
<1>3. ASSUME OccursOnce(s, M), ~(Occurs(s, M) /\ e \in M) PROVE OccursOnce(t, M)
  <2>1. SUFFICES ASSUME NEW i \in 1 .. Len(t), NEW j \in 1 .. Len(t), t[i] \in M, t[j] \in M
                 PROVE  i = j
    BY DEF OccursOnce
  <2>2. CASE i = Len(s) + 1 /\ j = Len(s) + 1
    BY <2>2
  <2>3. CASE i # Len(s) + 1 /\ j # Len(s) + 1
    <3>1. i \in 1 .. Len(s) /\ j \in 1 .. Len(s)
      BY <1>1, <2>3
    <3> QED BY <1>1, <1>3, <2>1, <3>1 DEF OccursOnce
  <2>4. CASE i = Len(s) + 1 /\ j # Len(s) + 1
    <3>1. j \in 1 .. Len(s)
      BY <1>1, <2>4
    <3>2. e \in M /\ s[j] \in M
      BY <1>1, <2>1, <2>4, <3>1
    <3> QED BY <1>3, <3>1, <3>2 DEF Occurs
  <2>5. CASE i # Len(s) + 1 /\ j = Len(s) + 1
    <3>1. i \in 1 .. Len(s)
      BY <1>1, <2>5
    <3>2. e \in M /\ s[i] \in M
      BY <1>1, <2>1, <2>5, <3>1
    <3> QED BY <1>3, <3>1, <3>2 DEF Occurs
  <2> QED BY <2>2, <2>3, <2>4, <2>5
<1> QED BY <1>2, <1>3 DEF t

(* The tail has the occurrences but for one at the head. *)
LEMMA OccursInTail ==
    ASSUME NEW S, NEW s \in Seq(S), s # << >>, NEW M
    PROVE  /\ Occurs(s, M) <=> Head(s) \in M \/ Occurs(Tail(s), M)
           /\ OccursOnce(s, M) => /\ OccursOnce(Tail(s), M)
                                  /\ ~(Head(s) \in M /\ Occurs(Tail(s), M))
<1> DEFINE t == Tail(s)
<1>1. /\ Len(s) = Len(t) + 1 /\ Len(t) \in Nat
      /\ \A i \in 1 .. Len(t) : t[i] = s[i + 1]
      /\ Head(s) = s[1]
  OBVIOUS
<1> HIDE DEF t
<1>2. Occurs(s, M) <=> Head(s) \in M \/ Occurs(t, M)
  <2>1. ASSUME Occurs(s, M) PROVE Head(s) \in M \/ Occurs(t, M)
    <3>1. PICK i \in 1 .. Len(s) : s[i] \in M
      BY <2>1 DEF Occurs
    <3>2. CASE i = 1
      BY <1>1, <3>1, <3>2
    <3>3. CASE i # 1
      <4>1. i - 1 \in 1 .. Len(t) /\ t[i - 1] = s[i]
        BY <1>1, <3>1, <3>3
      <4> QED BY <3>1, <4>1 DEF Occurs
    <3> QED BY <3>2, <3>3
  <2>2. ASSUME Head(s) \in M PROVE Occurs(s, M)
    <3>1. 1 \in 1 .. Len(s)
      BY <1>1
    <3> QED BY <1>1, <2>2, <3>1 DEF Occurs
  <2>3. ASSUME Occurs(t, M) PROVE Occurs(s, M)
    <3>1. PICK i \in 1 .. Len(t) : t[i] \in M
      BY <2>3 DEF Occurs
    <3>2. i + 1 \in 1 .. Len(s) /\ s[i + 1] \in M
      BY <1>1, <3>1
    <3> QED BY <3>2 DEF Occurs
  <2> QED BY <2>1, <2>2, <2>3
<1>3. ASSUME OccursOnce(s, M)
      PROVE  OccursOnce(t, M) /\ ~(Head(s) \in M /\ Occurs(t, M))
  <2>1. ASSUME NEW i \in 1 .. Len(t), NEW j \in 1 .. Len(t), t[i] \in M, t[j] \in M
        PROVE  i = j
    <3>1. /\ i + 1 \in 1 .. Len(s) /\ j + 1 \in 1 .. Len(s)
          /\ s[i + 1] \in M /\ s[j + 1] \in M
      BY <1>1, <2>1
    <3>2. i + 1 = j + 1
      BY <1>3, <3>1 DEF OccursOnce
    <3> QED BY <1>1, <3>2
  <2>2. ASSUME Head(s) \in M, NEW i \in 1 .. Len(t), t[i] \in M PROVE FALSE
    <3>1. i + 1 \in 1 .. Len(s) /\ 1 \in 1 .. Len(s) /\ s[i + 1] \in M /\ s[1] \in M
      BY <1>1, <2>2
    <3>2. i + 1 = 1
      BY <1>3, <3>1 DEF OccursOnce
    <3> QED BY <1>1, <3>2
  <2> QED BY <2>1, <2>2 DEF Occurs, OccursOnce
<1> QED BY <1>2, <1>3 DEF t

(* Appending keeps what is followed, unless it adds one to be followed. *)
LEMMA FollowedInAppend ==
    ASSUME NEW S, NEW s \in Seq(S), NEW e, NEW M, NEW N
    PROVE  /\ FollowedBy(s, M, N) /\ e \notin M => FollowedBy(Append(s, e), M, N)
           /\ e \in N /\ e \notin M => FollowedBy(Append(s, e), M, N)
<1> DEFINE t == Append(s, e)
<1>1. /\ Len(t) = Len(s) + 1 /\ Len(s) \in Nat
      /\ \A i \in 1 .. Len(s) : t[i] = s[i]
      /\ t[Len(s) + 1] = e
  OBVIOUS
<1> HIDE DEF t
<1>2. ASSUME e \notin M, NEW i \in 1 .. Len(t), t[i] \in M
      PROVE  i \in 1 .. Len(s) /\ s[i] \in M
  <2>1. i # Len(s) + 1
    BY <1>1, <1>2
  <2>2. i \in 1 .. Len(s)
    BY <1>1, <2>1
  <2> QED BY <1>1, <1>2, <2>2
<1>3. ASSUME FollowedBy(s, M, N), e \notin M, NEW i \in 1 .. Len(t), t[i] \in M
      PROVE  \E j \in i + 1 .. Len(t) : t[j] \in N
  <2>1. i \in 1 .. Len(s) /\ s[i] \in M
    BY <1>2, <1>3
  <2>2. PICK j \in i + 1 .. Len(s) : s[j] \in N
    BY <1>3, <2>1 DEF FollowedBy
  <2>3. j \in 1 .. Len(s) /\ j \in i + 1 .. Len(t)
    BY <1>1, <2>1, <2>2
  <2>4. t[j] \in N
    BY <1>1, <2>2, <2>3
  <2> QED BY <2>3, <2>4
<1>4. ASSUME e \in N, e \notin M, NEW i \in 1 .. Len(t), t[i] \in M
      PROVE  \E j \in i + 1 .. Len(t) : t[j] \in N
  <2>1. i \in 1 .. Len(s)
    BY <1>2, <1>4
  <2>2. Len(s) + 1 \in i + 1 .. Len(t)
    BY <1>1, <2>1
  <2> QED BY <1>1, <1>4, <2>2
<1>5. FollowedBy(s, M, N) /\ e \notin M => FollowedBy(t, M, N)
  BY <1>3 DEF FollowedBy
<1>6. e \in N /\ e \notin M => FollowedBy(t, M, N)
  BY <1>4 DEF FollowedBy
<1> QED BY <1>5, <1>6 DEF t

(* What follows an element of the tail, or its head, is in the tail. *)
LEMMA FollowedInTail ==
    ASSUME NEW S, NEW s \in Seq(S), s # << >>, NEW M, NEW N, FollowedBy(s, M, N)
    PROVE  FollowedBy(Tail(s), M, N) /\ (Head(s) \in M => Occurs(Tail(s), N))
<1> DEFINE t == Tail(s)
<1>1. /\ Len(s) = Len(t) + 1 /\ Len(t) \in Nat
      /\ \A i \in 1 .. Len(t) : t[i] = s[i + 1]
      /\ Head(s) = s[1]
  OBVIOUS
<1> HIDE DEF t
<1>2. ASSUME NEW i \in 1 .. Len(t), t[i] \in M
      PROVE  \E j \in i + 1 .. Len(t) : t[j] \in N
  <2>1. i + 1 \in 1 .. Len(s) /\ s[i + 1] \in M
    BY <1>1, <1>2
  <2>2. PICK j \in i + 1 + 1 .. Len(s) : s[j] \in N
    BY <2>1 DEF FollowedBy
  <2>3. j - 1 \in i + 1 .. Len(t) /\ j - 1 \in 1 .. Len(t)
    BY <1>1, <2>2
  <2>4. t[j - 1] = s[j]
    BY <1>1, <2>2, <2>3
  <2> QED BY <2>2, <2>3, <2>4
<1>3. ASSUME Head(s) \in M PROVE Occurs(t, N)
  <2>1. 1 \in 1 .. Len(s) /\ s[1] \in M
    BY <1>1, <1>3
  <2>2. PICK j \in 1 + 1 .. Len(s) : s[j] \in N
    BY <2>1 DEF FollowedBy
  <2>3. j - 1 \in 1 .. Len(t) /\ t[j - 1] = s[j]
    BY <1>1, <2>2
  <2> QED BY <2>2, <2>3 DEF Occurs
<1> QED BY <1>2, <1>3 DEF t, FollowedBy

(* Whatever is followed stays so when fewer are to be, and more may follow. *)
LEMMA FollowedByMore ==
    ASSUME NEW s, NEW M, NEW N, NEW P, NEW Q, P \subseteq M, N \subseteq Q
    PROVE  /\ FollowedBy(s, M, N) => FollowedBy(s, P, Q)
           /\ ~Occurs(s, P) => FollowedBy(s, P, Q)
BY DEF FollowedBy, Occurs

\* Each occurrence of M comes before each one of N.
AllBefore(s, M, N) == \A i, j \in 1 .. Len(s) : s[i] \in M /\ s[j] \in N => i < j

(* Appending adds none of M after one of N, unless it adds one of M. *)
LEMMA BeforeInAppend ==
    ASSUME NEW S, NEW s \in Seq(S), NEW e, NEW M, NEW N, AllBefore(s, M, N), e \notin M
    PROVE  AllBefore(Append(s, e), M, N)
<1> DEFINE t == Append(s, e)
<1>1. /\ Len(t) = Len(s) + 1 /\ Len(s) \in Nat
      /\ \A i \in 1 .. Len(s) : t[i] = s[i]
      /\ t[Len(s) + 1] = e
  OBVIOUS
<1> HIDE DEF t
<1>2. SUFFICES ASSUME NEW i \in 1 .. Len(t), NEW j \in 1 .. Len(t), t[i] \in M, t[j] \in N
               PROVE  i < j
  BY DEF AllBefore, t
<1>3. i # Len(s) + 1
  BY <1>1, <1>2
<1>4. i \in 1 .. Len(s) /\ s[i] \in M
  BY <1>1, <1>2, <1>3
<1>5. CASE j = Len(s) + 1
  BY <1>1, <1>4, <1>5
<1>6. CASE j # Len(s) + 1
  <2>1. j \in 1 .. Len(s) /\ s[j] \in N
    BY <1>1, <1>2, <1>6
  <2> QED BY <1>4, <2>1 DEF AllBefore
<1> QED BY <1>5, <1>6

(* The tail keeps the order, and has none of M after one of N at the head. *)
LEMMA BeforeInTail ==
    ASSUME NEW S, NEW s \in Seq(S), s # << >>, NEW M, NEW N, AllBefore(s, M, N)
    PROVE  AllBefore(Tail(s), M, N) /\ (Head(s) \in N => ~Occurs(Tail(s), M))
<1> DEFINE t == Tail(s)
<1>1. /\ Len(s) = Len(t) + 1 /\ Len(t) \in Nat
      /\ \A i \in 1 .. Len(t) : t[i] = s[i + 1]
      /\ Head(s) = s[1]
  OBVIOUS
<1> HIDE DEF t
<1>2. ASSUME NEW i \in 1 .. Len(t), NEW j \in 1 .. Len(t), t[i] \in M, t[j] \in N
      PROVE  i < j
  <2>1. /\ i + 1 \in 1 .. Len(s) /\ j + 1 \in 1 .. Len(s)
        /\ s[i + 1] \in M /\ s[j + 1] \in N
    BY <1>1, <1>2
  <2>2. i + 1 < j + 1
    BY <2>1 DEF AllBefore
  <2> QED BY <1>2, <2>2
<1>3. ASSUME Head(s) \in N, NEW i \in 1 .. Len(t), t[i] \in M
      PROVE  FALSE
  <2>1. /\ i + 1 \in 1 .. Len(s) /\ 1 \in 1 .. Len(s)
        /\ s[i + 1] \in M /\ s[1] \in N
    BY <1>1, <1>3
  <2>2. i + 1 < 1
    BY <2>1 DEF AllBefore
  <2> QED BY <1>3, <2>2
<1>4. Head(s) \in N => ~Occurs(t, M)
  BY <1>3 DEF Occurs
<1> QED BY <1>2, <1>4 DEF t, AllBefore

(* A concatenation has the occurrences of its parts. *)
LEMMA OccursInConcat ==
    ASSUME NEW S, NEW s \in Seq(S), NEW t \in Seq(S), NEW M
    PROVE  /\ Occurs(s \o t, M) <=> Occurs(s, M) \/ Occurs(t, M)
           /\ OccursOnce(s, M) /\ ~Occurs(t, M) => OccursOnce(s \o t, M)
<1> DEFINE u == s \o t
<1>1. /\ Len(u) = Len(s) + Len(t) /\ Len(s) \in Nat /\ Len(t) \in Nat
      /\ \A i \in 1 .. Len(s) : u[i] = s[i]
      /\ \A i \in Len(s) + 1 .. Len(s) + Len(t) : u[i] = t[i - Len(s)]
  OBVIOUS
<1> HIDE DEF u
<1>2. ASSUME NEW i \in 1 .. Len(u), u[i] \in M, ~(i \in 1 .. Len(s) /\ s[i] \in M)
      PROVE  Occurs(t, M)
  <2>1. i \in Len(s) + 1 .. Len(s) + Len(t)
    BY <1>1, <1>2
  <2>2. i - Len(s) \in 1 .. Len(t) /\ t[i - Len(s)] \in M
    BY <1>1, <1>2, <2>1
  <2> QED BY <2>2 DEF Occurs
<1>3. ASSUME NEW i \in 1 .. Len(s), s[i] \in M
      PROVE  Occurs(u, M)
  <2>1. i \in 1 .. Len(u) /\ u[i] \in M
    BY <1>1, <1>3
  <2> QED BY <2>1 DEF Occurs
<1>4. ASSUME NEW i \in 1 .. Len(t), t[i] \in M
      PROVE  Occurs(u, M)
  <2>1. i + Len(s) \in Len(s) + 1 .. Len(s) + Len(t) /\ (i + Len(s)) - Len(s) = i
    BY <1>1
  <2>2. i + Len(s) \in 1 .. Len(u) /\ u[i + Len(s)] \in M
    BY <1>1, <1>4, <2>1
  <2> QED BY <2>2 DEF Occurs
<1>5. Occurs(u, M) => Occurs(s, M) \/ Occurs(t, M)
  BY <1>2 DEF Occurs
<1>6. Occurs(s, M) \/ Occurs(t, M) => Occurs(u, M)
  BY <1>3, <1>4 DEF Occurs
<1>7. ASSUME OccursOnce(s, M), ~Occurs(t, M) PROVE OccursOnce(u, M)
  <2>1. SUFFICES ASSUME NEW i \in 1 .. Len(u), NEW j \in 1 .. Len(u), u[i] \in M, u[j] \in M
                 PROVE  i = j
    BY DEF OccursOnce
  <2>2. /\ i \in 1 .. Len(s) /\ s[i] \in M
        /\ j \in 1 .. Len(s) /\ s[j] \in M
    BY <1>2, <1>7, <2>1
  <2> QED BY <1>7, <2>2 DEF OccursOnce
<1> QED BY <1>5, <1>6, <1>7 DEF u

(* A concatenation keeps what is followed in its first part, unless the second
   has some to be followed; it follows everything if it can. *)
LEMMA FollowedInConcat ==
    ASSUME NEW S, NEW s \in Seq(S), NEW t \in Seq(S), NEW M, NEW N, ~Occurs(t, M)
    PROVE  /\ FollowedBy(s, M, N) => FollowedBy(s \o t, M, N)
           /\ Occurs(t, N) => FollowedBy(s \o t, M, N)
<1> DEFINE u == s \o t
<1>1. /\ Len(u) = Len(s) + Len(t) /\ Len(s) \in Nat /\ Len(t) \in Nat
      /\ \A i \in 1 .. Len(s) : u[i] = s[i]
      /\ \A i \in Len(s) + 1 .. Len(s) + Len(t) : u[i] = t[i - Len(s)]
  OBVIOUS
<1> HIDE DEF u
<1>2. ASSUME NEW i \in 1 .. Len(u), u[i] \in M
      PROVE  i \in 1 .. Len(s) /\ s[i] \in M
  <2>1. CASE i \in Len(s) + 1 .. Len(s) + Len(t)
    <3>1. i - Len(s) \in 1 .. Len(t) /\ t[i - Len(s)] \in M
      BY <1>1, <1>2, <2>1
    <3> QED BY <3>1 DEF Occurs
  <2>2. CASE i \in 1 .. Len(s)
    BY <1>1, <1>2, <2>2
  <2> QED BY <1>1, <2>1, <2>2
<1>3. ASSUME FollowedBy(s, M, N), NEW i \in 1 .. Len(u), u[i] \in M
      PROVE  \E j \in i + 1 .. Len(u) : u[j] \in N
  <2>1. i \in 1 .. Len(s) /\ s[i] \in M
    BY <1>2, <1>3
  <2>2. PICK j \in i + 1 .. Len(s) : s[j] \in N
    BY <1>3, <2>1 DEF FollowedBy
  <2>3. j \in 1 .. Len(s) /\ j \in i + 1 .. Len(u)
    BY <1>1, <2>1, <2>2
  <2> QED BY <1>1, <2>2, <2>3
<1>4. ASSUME Occurs(t, N), NEW i \in 1 .. Len(u), u[i] \in M
      PROVE  \E j \in i + 1 .. Len(u) : u[j] \in N
  <2>1. i \in 1 .. Len(s)
    BY <1>2, <1>4
  <2>2. PICK j \in 1 .. Len(t) : t[j] \in N
    BY <1>4 DEF Occurs
  <2>3. /\ j + Len(s) \in Len(s) + 1 .. Len(s) + Len(t) /\ (j + Len(s)) - Len(s) = j
        /\ j + Len(s) \in i + 1 .. Len(u)
    BY <1>1, <2>1
  <2>4. u[j + Len(s)] = t[j]
    BY <1>1, <2>3
  <2> QED BY <2>2, <2>3, <2>4
<1> QED BY <1>3, <1>4 DEF u, FollowedBy

\* An occurrence of M comes before all of N.
HeadedBy(s, M, N) ==
    \E i \in 1 .. Len(s) : s[i] \in M /\ \A j \in 1 .. Len(s) : s[j] \in N => i < j

(* What comes before all of N stays before all that is appended. *)
LEMMA HeadedInConcat ==
    ASSUME NEW S, NEW s \in Seq(S), NEW t \in Seq(S), NEW M, NEW N
    PROVE  /\ HeadedBy(s, M, N) => HeadedBy(s \o t, M, N)
           /\ ~Occurs(s, N) /\ ~Occurs(t, N) /\ Occurs(t, M) => HeadedBy(s \o t, M, N)
<1> DEFINE u == s \o t
<1>1. /\ Len(u) = Len(s) + Len(t) /\ Len(s) \in Nat /\ Len(t) \in Nat
      /\ \A i \in 1 .. Len(s) : u[i] = s[i]
  OBVIOUS
<1> HIDE DEF u
<1>2. ASSUME HeadedBy(s, M, N) PROVE HeadedBy(u, M, N)
  <2>1. PICK i \in 1 .. Len(s) : s[i] \in M /\ \A j \in 1 .. Len(s) : s[j] \in N => i < j
    BY <1>2 DEF HeadedBy
  <2>2. i \in 1 .. Len(u) /\ u[i] \in M
    BY <1>1, <2>1
  <2>3. ASSUME NEW j \in 1 .. Len(u), u[j] \in N PROVE i < j
    <3>1. CASE j \in 1 .. Len(s)
      BY <1>1, <2>1, <2>3, <3>1
    <3>2. CASE j \notin 1 .. Len(s)
      BY <1>1, <3>2
    <3> QED BY <3>1, <3>2
  <2> QED BY <2>2, <2>3 DEF HeadedBy
<1>3. ASSUME ~Occurs(s, N), ~Occurs(t, N), Occurs(t, M) PROVE HeadedBy(u, M, N)
  <2>1. ~Occurs(u, N) /\ Occurs(u, M)
    BY <1>3, OccursInConcat DEF u
  <2> QED BY <2>1 DEF HeadedBy, Occurs
<1> QED BY <1>2, <1>3 DEF u

(* Unless it is the head, what comes before all of N is in the tail; the head is
   not in N. *)
LEMMA HeadedInTail ==
    ASSUME NEW S, NEW s \in Seq(S), s # << >>, NEW M, NEW N, HeadedBy(s, M, N)
    PROVE  /\ Head(s) \notin N
           /\ Head(s) \notin M => HeadedBy(Tail(s), M, N)
<1> DEFINE t == Tail(s)
<1>1. /\ Len(s) = Len(t) + 1 /\ Len(t) \in Nat
      /\ \A i \in 1 .. Len(t) : t[i] = s[i + 1]
      /\ Head(s) = s[1]
  OBVIOUS
<1> HIDE DEF t
<1>2. PICK i \in 1 .. Len(s) : s[i] \in M /\ \A j \in 1 .. Len(s) : s[j] \in N => i < j
  BY DEF HeadedBy
<1>3. Head(s) \notin N
  <2>1. 1 \in 1 .. Len(s) /\ ~(i < 1)
    BY <1>1
  <2> QED BY <1>1, <1>2, <2>1
<1>4. ASSUME Head(s) \notin M PROVE HeadedBy(t, M, N)
  <2>1. i # 1
    BY <1>1, <1>2, <1>4
  <2>2. i - 1 \in 1 .. Len(t) /\ t[i - 1] = s[i]
    BY <1>1, <2>1
  <2>3. ASSUME NEW j \in 1 .. Len(t), t[j] \in N PROVE i - 1 < j
    <3>1. j + 1 \in 1 .. Len(s) /\ s[j + 1] \in N
      BY <1>1, <2>3
    <3>2. i < j + 1
      BY <1>2, <3>1
    <3> QED BY <1>1, <3>2
  <2> QED BY <1>2, <2>2, <2>3 DEF HeadedBy
<1> QED BY <1>3, <1>4 DEF t

(* A set of places of a list has a least one. *)
LEMMA LeastPlace ==
    ASSUME NEW n \in Nat, NEW I, I \subseteq 1 .. n, I # {}
    PROVE  Min(I) \in I
<1>1. IsWellFoundedOn(OpToRel(<, Nat), Nat)
  BY NatLessThanWellFounded
<1>2. I \subseteq Nat
  OBVIOUS
<1>3. PICK x \in I : \A y \in I : <<y, x>> \notin OpToRel(<, Nat)
  BY <1>1, <1>2, WFMin
<1>4. \A y \in I : ~(y < x)
  BY <1>2, <1>3 DEF OpToRel
<1>5. \A y \in I : x =< y
  BY <1>2, <1>4
<1> QED BY <1>3, <1>5 DEF Min

(* RemoveFirst takes one element out, or none. *)
LEMMA RemoveFirstKeeps ==
    ASSUME NEW S, NEW s \in Seq(S), NEW e
    PROVE  RemoveFirst(s, e) \in Seq(S) /\ Range(RemoveFirst(s, e)) \subseteq Range(s)
<1>1. CASE \E i \in 1 .. Len(s) : s[i] = e
  <2> DEFINE I == {i \in 1 .. Len(s) : s[i] = e}
             n == Min(I)
  <2>1. I \subseteq 1 .. Len(s) /\ I # {} /\ Len(s) \in Nat
    BY <1>1
  <2>2. RemoveFirst(s, e) = RemoveAt(s, n)
    BY <1>1, <2>1 DEF RemoveFirst, SelectInSeq
  <2>3. n \in 1 .. Len(s)
    BY <2>1, LeastPlace
  <2> HIDE DEF n
  <2> DEFINE r == RemoveAt(s, n)
  <2>4. /\ DOMAIN r = 1 .. Len(s) - 1
        /\ \A j \in 1 .. Len(s) - 1 : r[j] = IF j < n THEN s[j] ELSE s[j + 1]
    BY <2>3, RemoveAtIs
  <2>5. r \in Seq(S)
    BY <2>1, <2>3 DEF RemoveAt
  <2> HIDE DEF r
  <2>6. \A j \in 1 .. Len(s) - 1 : r[j] \in Range(s)
    <3>1. ASSUME NEW j \in 1 .. Len(s) - 1 PROVE r[j] \in Range(s)
      <4>1. DOMAIN s = 1 .. Len(s) /\ j \in 1 .. Len(s) /\ j + 1 \in 1 .. Len(s)
        BY <2>1
      <4>2. s[j] \in Range(s) /\ s[j + 1] \in Range(s)
        BY <4>1 DEF Range
      <4> QED BY <2>4, <4>2
    <3> QED BY <3>1
  <2>7. Range(r) \subseteq Range(s)
    BY <2>4, <2>6 DEF Range
  <2> QED BY <2>2, <2>5, <2>7 DEF r
<1>2. CASE ~ \E i \in 1 .. Len(s) : s[i] = e
  BY <1>2 DEF RemoveFirst
<1> QED BY <1>1, <1>2

=============================================================================
