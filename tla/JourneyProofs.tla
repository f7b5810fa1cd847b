---------------------------- MODULE JourneyProofs ----------------------------
(***************************************************************************)
(* Theorems about Journey.                                                 *)
(***************************************************************************)
EXTENDS Journey, SequenceTheorems, WellFoundedInduction, TLAPS

(***************************************************************************)
(* Steps in a sequence.                                                    *)
(***************************************************************************)
Codes(s) == {s[i].code : i \in DOMAIN s}

StepCodes == {"POS_REQUEST", "LOCAL_DECLINE", "REQUEST_SENT", "ISSUER_APPROVED", "ISSUER_DECLINED", "NO_RESPONSE",
              "POS_RESULT", "LATE_RESPONSE", "REVERSAL_QUEUED", "REVERSAL_SENT", "REVERSAL_CONFIRMED"}
TimedSteps == [code : StepCodes, at : Int]
OffsetSteps == [code : StepCodes, offset : Int]

Ordered(s) == \A i \in 2..Len(s) : s[i - 1].offset <= s[i].offset

(* The smallest member of a set of numbers. *)
LEMMA LeastNumber ==
    ASSUME NEW B \in SUBSET Nat, B # {}
    PROVE  Min(B) \in B /\ \A m \in B : Min(B) <= m
<1>1. PICK n \in B : \A m \in B : ~(<<m, n>> \in OpToRel(<, Nat))
  BY WFMin, NatLessThanWellFounded, Zenon
<1>2. \A m \in B : ~(m < n)
  BY <1>1, Zenon DEF OpToRel
<1>3. \A m \in B : n <= m
  BY <1>2
<1> QED BY <1>3, Zenon DEF Min

(* stepSeq: the first step with the code, 0 without one. *)
LEMMA FirstPlace ==
    ASSUME NEW X, NEW s \in Seq(X), NEW code
    PROVE  /\ code \in Codes(s) => /\ StepOf(s, code) \in 1..Len(s) /\ s[StepOf(s, code)].code = code
                                   /\ \A j \in 1..(StepOf(s, code) - 1) : s[j].code # code
           /\ code \notin Codes(s) => StepOf(s, code) = 0
<1> DEFINE I == {i \in 1..Len(s) : s[i].code = code}
<1>0. Len(s) \in Nat /\ DOMAIN s = 1..Len(s)
  BY LenProperties
<1>1. StepOf(s, code) = IF I # {} THEN Min(I) ELSE 0
  BY DEF StepOf
<1>2. code \in Codes(s) <=> I # {}
  BY <1>0 DEF Codes
<1>3. I \in SUBSET Nat
  BY <1>0
<1>4. ASSUME I # {}
      PROVE  StepOf(s, code) \in I /\ \A m \in I : StepOf(s, code) <= m
  BY <1>1, <1>3, <1>4, LeastNumber, Zenon
<1>5. ASSUME code \in Codes(s), NEW j \in 1..(StepOf(s, code) - 1)
      PROVE  s[j].code # code
  BY <1>0, <1>2, <1>4, <1>5
<1> QED BY <1>1, <1>2, <1>4, <1>5

(* A step at a place is at that of its code or after it. *)
LEMMA AtOrAfter ==
    ASSUME NEW X, NEW s \in Seq(X), NEW i \in 1..Len(s)
    PROVE  s[i].code \in Codes(s) /\ StepOf(s, s[i].code) \in 1..i
<1>1. Len(s) \in Nat /\ DOMAIN s = 1..Len(s)
  BY LenProperties
<1>2. s[i].code \in Codes(s)
  BY <1>1 DEF Codes
<1>3. /\ StepOf(s, s[i].code) \in 1..Len(s)
      /\ \A j \in 1..(StepOf(s, s[i].code) - 1) : s[j].code # s[i].code
  BY <1>2, FirstPlace
<1> QED BY <1>1, <1>2, <1>3

(* The codes of two sequences, one after the other. *)
LEMMA CodesJoin ==
    ASSUME NEW X, NEW s \in Seq(X), NEW t \in Seq(X)
    PROVE  s \o t \in Seq(X) /\ Codes(s \o t) = Codes(s) \cup Codes(t)
<1>0. Len(s) \in Nat /\ DOMAIN s = 1..Len(s) /\ Len(t) \in Nat /\ DOMAIN t = 1..Len(t)
  BY LenProperties
<1>1. /\ s \o t \in Seq(X)
      /\ DOMAIN (s \o t) = 1..(Len(s) + Len(t))
      /\ \A i \in 1..(Len(s) + Len(t)) : (s \o t)[i] = IF i <= Len(s) THEN s[i] ELSE t[i - Len(s)]
  BY <1>0, ConcatProperties, LenProperties
<1>2. ASSUME NEW i \in DOMAIN s PROVE s[i].code \in Codes(s \o t)
  <2>1. i \in 1..(Len(s) + Len(t)) /\ (s \o t)[i] = s[i]
    BY <1>0, <1>1
  <2> QED BY <1>1, <2>1 DEF Codes
<1>3. ASSUME NEW i \in DOMAIN t PROVE t[i].code \in Codes(s \o t)
  <2>1. i + Len(s) \in 1..(Len(s) + Len(t)) /\ (s \o t)[i + Len(s)] = t[i]
    BY <1>0, <1>1
  <2> QED BY <1>1, <2>1 DEF Codes
<1>4. ASSUME NEW i \in DOMAIN (s \o t) PROVE (s \o t)[i].code \in Codes(s) \cup Codes(t)
  <2>1. CASE i <= Len(s)
    <3>1. i \in DOMAIN s /\ (s \o t)[i] = s[i]
      BY <1>0, <1>1, <2>1
    <3> QED BY <3>1 DEF Codes
  <2>2. CASE ~(i <= Len(s))
    <3>1. i - Len(s) \in DOMAIN t /\ (s \o t)[i] = t[i - Len(s)]
      BY <1>0, <1>1, <2>2
    <3> QED BY <3>1 DEF Codes
  <2> QED BY <2>1, <2>2
<1>5. Codes(s \o t) \subseteq Codes(s) \cup Codes(t)
  BY <1>4 DEF Codes
<1>6. Codes(s) \subseteq Codes(s \o t)
  BY <1>2 DEF Codes
<1>7. Codes(t) \subseteq Codes(s \o t)
  BY <1>3, Zenon DEF Codes
<1> QED BY <1>1, <1>5, <1>6, <1>7

(* What is told in the first part comes before what is only told in the second. *)
LEMMA PlacesJoin ==
    ASSUME NEW X, NEW s \in Seq(X), NEW t \in Seq(X), NEW c \in Codes(s), NEW d \in Codes(t), d \notin Codes(s)
    PROVE  StepOf(s \o t, c) \in 1..(StepOf(s \o t, d) - 1)
<1>0. Len(s) \in Nat /\ DOMAIN s = 1..Len(s) /\ Len(t) \in Nat
  BY LenProperties
<1>1. /\ s \o t \in Seq(X) /\ Len(s \o t) = Len(s) + Len(t)
      /\ \A i \in 1..Len(s) : (s \o t)[i] = s[i]
  BY <1>0, ConcatProperties
<1>2. PICK i \in 1..Len(s) : s[i].code = c
  BY <1>0 DEF Codes
<1>3. i \in 1..Len(s \o t) /\ (s \o t)[i].code = c
  BY <1>0, <1>1, <1>2
<1>4. StepOf(s \o t, c) \in 1..i
  BY <1>1, <1>3, AtOrAfter, Zenon
<1>5. StepOf(s \o t, d) \in 1..Len(s \o t) /\ (s \o t)[StepOf(s \o t, d)].code = d
  <2>1. d \in Codes(s \o t)
    BY CodesJoin
  <2> QED BY <1>1, <2>1, FirstPlace, Zenon
<1>6. ~(StepOf(s \o t, d) \in 1..Len(s))
  BY <1>0, <1>1, <1>5 DEF Codes
<1> QED BY <1>0, <1>1, <1>4, <1>5, <1>6

(* A function has a largest value on the first i numbers. *)
LEMMA LargestValue ==
    ASSUME NEW g, NEW i \in Nat \ {0}, \A j \in 1..i : g[j] \in Int
    PROVE  \E m \in 1..i : \A j \in 1..i : g[j] <= g[m]
<1> DEFINE P(k) == \E m \in 1..k : \A j \in 1..k : g[j] <= g[m]
           B == {k \in 1..i : ~P(k)}
<1> SUFFICES ASSUME ~P(i) PROVE FALSE
  OBVIOUS
<1>1. B \in SUBSET Nat /\ B # {}
  <2> HIDE DEF P
  <2>1. i \in 1..i
    OBVIOUS
  <2> QED BY <2>1
<1> DEFINE n == Min(B)
<1>2. n \in B /\ \A m \in B : n <= m
  BY <1>1, LeastNumber, Zenon
<1>3. n # 1
  <2>1. P(1)
    OBVIOUS
  <2> QED BY <1>2, <2>1, Zenon
<1>4. n \in 1..i /\ ~P(n)
  BY <1>2, Zenon
<1> HIDE DEF n
<1>5. n - 1 \in 1..i
  BY <1>3, <1>4
<1>6. P(n - 1)
  <2>1. n - 1 \notin B
    <3> HIDE DEF B
    <3> QED BY <1>2, <1>4
  <2> HIDE DEF P
  <2> QED BY <1>5, <2>1
<1>7. PICK m \in 1..(n - 1) : \A j \in 1..(n - 1) : g[j] <= g[m]
  BY <1>6
<1>8. g[n] \in Int /\ g[m] \in Int /\ m \in 1..n /\ n \in 1..n
  BY <1>4, <1>7
<1>9. CASE g[n] <= g[m]
  <2>1. \A j \in 1..n : g[j] <= g[m]
    <3>1. \A j \in 1..n : j \in 1..(n - 1) \/ j = n
      BY <1>4
    <3> QED BY <1>7, <1>9, <3>1
  <2> QED BY <1>4, <1>8, <2>1
<1>10. CASE g[m] <= g[n]
  <2>1. \A j \in 1..n : g[j] <= g[n]
    <3>1. \A j \in 1..n : j = n \/ j \in 1..(n - 1)
      BY <1>4
    <3>2. \A j \in 1..(n - 1) : g[j] \in Int
      BY <1>4
    <3> QED BY <1>7, <1>8, <1>10, <3>1, <3>2
  <2> QED BY <1>4, <1>8, <2>1
<1> QED BY <1>8, <1>9, <1>10

(* msBetween of two times is a duration. *)
LEMMA Duration ==
    ASSUME NEW from \in Int, NEW to \in Int
    PROVE  MsBetween(from, to) \in Nat
<1> DEFINE S == {0, to - from}
<1>1. \E x \in S : \A y \in S : x >= y
  OBVIOUS
<1>2. Max(S) \in S /\ \A y \in S : Max(S) >= y
  BY <1>1 DEF Max
<1> QED BY <1>2 DEF MsBetween

(* withOffsets: the steps with their codes, and offsets that never go back. *)
LEMMA OffsetsFacts ==
    ASSUME NEW timed \in Seq(TimedSteps), NEW start \in Int
    PROVE  /\ WithOffsets(timed, start) \in Seq(OffsetSteps)
           /\ Len(WithOffsets(timed, start)) = Len(timed)
           /\ \A i \in 1..Len(timed) : WithOffsets(timed, start)[i].code = timed[i].code
           /\ Ordered(WithOffsets(timed, start))
<1> DEFINE w == WithOffsets(timed, start)
           g == [j \in DOMAIN timed |-> MsBetween(start, timed[j].at)]
           Seen(i) == {MsBetween(start, timed[j].at) : j \in 1..i}
<1>0. Len(timed) \in Nat /\ DOMAIN timed = 1..Len(timed) /\ \A j \in 1..Len(timed) : timed[j] \in TimedSteps
  BY LenProperties, ElementOfSeq
<1>1. \A j \in 1..Len(timed) : g[j] \in Int /\ g[j] = MsBetween(start, timed[j].at)
  <2>1. \A j \in 1..Len(timed) : timed[j].at \in Int
    BY <1>0 DEF TimedSteps
  <2>2. \A j \in 1..Len(timed) : MsBetween(start, timed[j].at) \in Nat
    BY <2>1, Duration, Zenon
  <2> QED BY <1>0, <2>2
<1>2. ASSUME NEW i \in 1..Len(timed)
      PROVE  Max(Seen(i)) \in Seen(i) /\ \A y \in Seen(i) : Max(Seen(i)) >= y
  <2>1. \A j \in 1..i : g[j] \in Int /\ g[j] = MsBetween(start, timed[j].at)
    BY <1>0, <1>1
  <2> HIDE DEF g
  <2>2. PICK m \in 1..i : \A j \in 1..i : g[j] <= g[m]
    <3>1. i \in Nat \ {0} /\ \A j \in 1..i : g[j] \in Int
      BY <1>0, <2>1
    <3> QED BY <3>1, LargestValue, Zenon
  <2>3. g[m] \in Seen(i) /\ \A y \in Seen(i) : g[m] >= y
    BY <2>1, <2>2
  <2> HIDE DEF Seen
  <2> QED BY <2>3 DEF Max
<1>3. ASSUME NEW i \in 1..Len(timed) PROVE Max(Seen(i)) \in Int
  <2>1. Seen(i) \subseteq Int
    BY <1>0, <1>1
  <2> QED BY <1>2, <2>1
<1>4. w = [i \in 1..Len(timed) |-> [code |-> timed[i].code, offset |-> Max(Seen(i))]]
  BY <1>0 DEF WithOffsets
<1>5. ASSUME NEW i \in 2..Len(timed) PROVE Max(Seen(i - 1)) <= Max(Seen(i))
  <2>1. i - 1 \in 1..Len(timed) /\ i \in 1..Len(timed) /\ Seen(i - 1) \subseteq Seen(i)
    BY <1>0
  <2> HIDE DEF Seen
  <2> QED BY <1>2, <1>3, <2>1
<1> HIDE DEF w, Seen
<1>6. w \in Seq(OffsetSteps) /\ Len(w) = Len(timed)
  <2>1. w \in [1..Len(timed) -> OffsetSteps]
    BY <1>0, <1>3, <1>4 DEF OffsetSteps, TimedSteps
  <2> QED BY <1>0, <2>1
<1>7. Ordered(w)
  <2>1. ASSUME NEW i \in 2..Len(w) PROVE w[i - 1].offset <= w[i].offset
    <3>1. i \in 2..Len(timed) /\ i - 1 \in 1..Len(timed) /\ i \in 1..Len(timed)
      BY <1>0, <1>6
    <3>2. w[i - 1].offset = Max(Seen(i - 1)) /\ w[i].offset = Max(Seen(i))
      BY <1>4, <3>1
    <3> QED BY <1>5, <3>1, <3>2
  <2> QED BY <2>1 DEF Ordered
<1> QED BY <1>4, <1>6, <1>7 DEF w

(* Where insertAtOffset puts a step: before the first step that is later. *)
Slot(steps, s) == Min({Len(steps) + 1} \cup {i \in DOMAIN steps : steps[i].offset > s.offset})

(* r is steps with s at place k, not before an earlier step nor after a later one. *)
InsertedAt(k, s, steps, r) ==
    /\ k \in 1..(Len(steps) + 1)
    /\ r \in Seq(OffsetSteps) /\ Len(r) = Len(steps) + 1
    /\ \A i \in 1..(k - 1) : r[i] = steps[i] /\ steps[i].offset <= s.offset
    /\ r[k] = s
    /\ \A i \in (k + 1)..(Len(steps) + 1) : r[i] = steps[i - 1]
    /\ k <= Len(steps) => s.offset <= steps[k].offset

(* slices.Insert at that place. *)
LEMMA InsertFacts ==
    ASSUME NEW steps \in Seq(OffsetSteps), NEW s \in OffsetSteps
    PROVE  InsertedAt(Slot(steps, s), s, steps, InsertAtOffset(steps, s))
<1> DEFINE k == Slot(steps, s)
           r == InsertAtOffset(steps, s)
           n == Len(steps)
           B == {n + 1} \cup {i \in DOMAIN steps : steps[i].offset > s.offset}
<1>0. n \in Nat /\ DOMAIN steps = 1..n /\ (\A i \in 1..n : steps[i] \in OffsetSteps)
  BY LenProperties, ElementOfSeq
<1>1. k \in B /\ \A m \in B : k <= m
  <2>1. B \in SUBSET Nat /\ B # {}
    BY <1>0
  <2> QED BY <2>1, LeastNumber, Zenon DEF Slot
<1> HIDE DEF k
<1>2. k \in 1..(n + 1)
  BY <1>0, <1>1
<1>3. (\A i \in 1..n : steps[i].offset \in Int) /\ s.offset \in Int
  BY <1>0 DEF OffsetSteps
<1>4. ASSUME NEW i \in 1..(k - 1) PROVE steps[i].offset <= s.offset
  <2>1. i \in 1..n /\ i \notin B
    BY <1>0, <1>1, <1>2
  <2> QED BY <1>0, <1>3, <2>1
<1>5. k <= n => s.offset <= steps[k].offset
  BY <1>0, <1>1, <1>2, <1>3
<1> DEFINE a == SubSeq(steps, 1, k - 1)
           z == SubSeq(steps, k, n)
<1>6. /\ a \in Seq(OffsetSteps) /\ Len(a) = k - 1 /\ \A i \in 1..(k - 1) : a[i] = steps[i]
      /\ z \in Seq(OffsetSteps) /\ Len(z) = n + 1 - k /\ \A i \in 1..(n + 1 - k) : z[i] = steps[k + i - 1]
  <2> HIDE DEF B
  <2>1. /\ a \in Seq(OffsetSteps) /\ Len(a) = k - 1 /\ \A i \in 1..(k - 1) : a[i] = steps[i]
    <3>1. \A i \in 1..(k - 1) : steps[i] \in OffsetSteps
      BY <1>0, <1>2
    <3> QED BY <1>0, <1>2, <3>1, SubSeqProperties
  <2>2. /\ z \in Seq(OffsetSteps) /\ Len(z) = n + 1 - k /\ \A i \in 1..(n + 1 - k) : z[i] = steps[k + i - 1]
    <3>1. \A i \in k..n : steps[i] \in OffsetSteps
      BY <1>0, <1>2
    <3> QED BY <1>0, <1>2, <3>1, SubSeqProperties
  <2> QED BY <2>1, <2>2
<1>7. r = a \o <<s>> \o z
  BY DEF InsertAtOffset, Slot, k
<1> HIDE DEF a, z, B, r
<1>8. a \o <<s>> \in Seq(OffsetSteps) /\ Len(a \o <<s>>) = k
      /\ (\A i \in 1..(k - 1) : (a \o <<s>>)[i] = steps[i]) /\ (a \o <<s>>)[k] = s
  <2> DEFINE e == <<s>>
  <2>1. e \in Seq(OffsetSteps) /\ Len(e) = 1 /\ e[1] = s
    OBVIOUS
  <2>2. k - 1 \in Nat /\ (k - 1) + 1 = k /\ k \in 1..k /\ ~(k <= k - 1) /\ k - (k - 1) = 1
        /\ \A i \in 1..(k - 1) : i \in 1..k /\ i <= k - 1
    BY <1>0, <1>2
  <2> HIDE DEF e
  <2> DEFINE h == a \o e
  <2>7. /\ h \in Seq(OffsetSteps) /\ Len(h) = Len(a) + Len(e)
        /\ \A i \in 1..(Len(a) + Len(e)) : h[i] = IF i <= Len(a) THEN a[i] ELSE e[i - Len(a)]
    BY <1>6, <2>1, ConcatProperties, Zenon
  <2> HIDE DEF h
  <2>3. h \in Seq(OffsetSteps) /\ Len(h) = k
    BY <1>6, <2>1, <2>2, <2>7
  <2>4. \A i \in 1..k : h[i] = IF i <= k - 1 THEN a[i] ELSE e[i - (k - 1)]
    <3>1. Len(a) = k - 1 /\ Len(a) + Len(e) = k
      BY <1>6, <2>1, <2>2
    <3> QED BY <2>7, <3>1, Zenon
  <2>5. h[k] = s
    BY <2>1, <2>2, <2>4, Zenon
  <2>6. \A i \in 1..(k - 1) : h[i] = steps[i]
    BY <1>6, <2>2, <2>4, Zenon
  <2> QED BY <2>3, <2>5, <2>6 DEF e, h
<1>9. /\ r \in Seq(OffsetSteps) /\ Len(r) = n + 1
      /\ \A i \in 1..k : r[i] = (a \o <<s>>)[i]
      /\ \A i \in (k + 1)..(n + 1) : r[i] = z[i - k]
  <2> DEFINE h == a \o <<s>>
  <2>1. h \in Seq(OffsetSteps) /\ Len(h) = k /\ r = h \o z
    BY <1>7, <1>8
  <2> HIDE DEF h
  <2>21. /\ r \in Seq(OffsetSteps) /\ Len(r) = k + (n + 1 - k)
         /\ \A i \in 1..(k + (n + 1 - k)) : r[i] = IF i <= k THEN h[i] ELSE z[i - k]
    <3>1. z \in Seq(OffsetSteps) /\ Len(z) = n + 1 - k
      BY <1>6, Zenon
    <3>2. /\ h \o z \in Seq(OffsetSteps) /\ Len(h \o z) = Len(h) + Len(z)
          /\ \A i \in 1..(Len(h) + Len(z)) : (h \o z)[i] = IF i <= Len(h) THEN h[i] ELSE z[i - Len(h)]
      BY <2>1, <3>1, ConcatProperties, Zenon
    <3>3. r = h \o z /\ Len(h) = k /\ Len(z) = n + 1 - k
      BY <2>1, <3>1, Zenon
    <3> QED BY <3>2, <3>3
  <2>22. k + (n + 1 - k) = n + 1
    BY <1>0, <1>2
  <2>2. r \in Seq(OffsetSteps) /\ Len(r) = n + 1
    BY <2>21, <2>22, Zenon
  <2>3. \A i \in 1..(n + 1) : r[i] = IF i <= k THEN h[i] ELSE z[i - k]
    BY <2>21, <2>22, Zenon
  <2>4. \A i \in 1..k : r[i] = h[i]
    BY <1>0, <1>2, <2>3
  <2>5. \A i \in (k + 1)..(n + 1) : r[i] = z[i - k]
    BY <1>0, <1>2, <2>3
  <2> QED BY <2>2, <2>4, <2>5, Zenon DEF h
<1>10. \A i \in (k + 1)..(n + 1) : i - k \in 1..(n + 1 - k) /\ k + (i - k) - 1 = i - 1
  BY <1>0, <1>2
<1>11. \A i \in (k + 1)..(n + 1) : r[i] = steps[i - 1]
  BY <1>6, <1>9, <1>10
<1>12. (\A i \in 1..(k - 1) : r[i] = steps[i]) /\ r[k] = s
  <2>1. \A i \in 1..(k - 1) : i \in 1..k
    BY <1>0, <1>2
  <2>2. k \in 1..k
    BY <1>0, <1>2
  <2> QED BY <1>8, <1>9, <2>1, <2>2
<1>13. InsertedAt(k, s, steps, r)
  BY <1>2, <1>4, <1>5, <1>9, <1>11, <1>12 DEF InsertedAt
<1> QED BY <1>13 DEF k, r

(* insertAtOffset: the step is added, the offsets stay in order, and so do the steps there were. *)
LEMMA InsertKeeps ==
    ASSUME NEW steps \in Seq(OffsetSteps), NEW s \in OffsetSteps, Ordered(steps),
           NEW r, r = InsertAtOffset(steps, s)
    PROVE  /\ r \in Seq(OffsetSteps)
           /\ Ordered(r)
           /\ Codes(r) = Codes(steps) \cup {s.code}
           /\ \A c \in Codes(steps) \ {s.code}, d \in Codes(steps) \ {s.code} :
                 StepOf(steps, c) < StepOf(steps, d) => StepOf(r, c) < StepOf(r, d)
<1> DEFINE k == Slot(steps, s)
           n == Len(steps)
<1>1. /\ k \in 1..(n + 1)
      /\ r \in Seq(OffsetSteps) /\ Len(r) = n + 1
      /\ \A i \in 1..(k - 1) : r[i] = steps[i] /\ steps[i].offset <= s.offset
      /\ r[k] = s
      /\ \A i \in (k + 1)..(n + 1) : r[i] = steps[i - 1]
      /\ k <= n => s.offset <= steps[k].offset
  <2>1. InsertedAt(Slot(steps, s), s, steps, r)
    BY InsertFacts
  <2> HIDE DEF k
  <2>2. InsertedAt(k, s, steps, r)
    BY <2>1 DEF k
  <2> QED BY <2>2 DEF InsertedAt
<1>2. n \in Nat /\ DOMAIN steps = 1..n /\ DOMAIN r = 1..(n + 1)
  BY <1>1, LenProperties
<1> HIDE DEF k, n
<1>3. ASSUME NEW i \in 2..(n + 1) PROVE r[i - 1].offset <= r[i].offset
  <2>1. CASE i < k
    <3>1. i - 1 \in 1..(k - 1) /\ i \in 1..(k - 1) /\ i \in 2..n
      BY <1>1, <1>2, <2>1
    <3> QED BY <1>1, <3>1 DEF Ordered, n
  <2>2. CASE i = k
    <3>1. i - 1 \in 1..(k - 1)
      BY <1>1, <1>2, <2>2
    <3> QED BY <1>1, <2>2, <3>1
  <2>3. CASE i = k + 1
    <3>1. i \in (k + 1)..(n + 1) /\ i - 1 = k /\ k <= n
      BY <1>1, <1>2, <2>3
    <3> QED BY <1>1, <3>1
  <2>4. CASE i > k + 1
    <3>1. i - 1 \in (k + 1)..(n + 1) /\ i \in (k + 1)..(n + 1) /\ i - 1 \in 2..n
      BY <1>1, <1>2, <2>4
    <3> QED BY <1>1, <3>1, Zenon DEF Ordered, n
  <2> QED BY <1>1, <1>2, <2>1, <2>2, <2>3, <2>4
<1>4. Ordered(r)
  BY <1>1, <1>3, Zenon DEF Ordered
<1>5. ASSUME NEW i \in 1..n
      PROVE  \E j \in 1..(n + 1) : r[j] = steps[i] /\ (i < k => j = i) /\ j <= i + 1
  <2>1. CASE i < k
    <3>1. i \in 1..(k - 1) /\ i \in 1..(n + 1) /\ i <= i + 1
      BY <1>1, <1>2, <2>1
    <3> QED BY <1>1, <3>1
  <2>2. CASE ~(i < k)
    <3>1. i + 1 \in (k + 1)..(n + 1) /\ i + 1 \in 1..(n + 1) /\ (i + 1) - 1 = i /\ i + 1 <= i + 1
      BY <1>1, <1>2, <2>2
    <3>2. r[i + 1] = steps[i]
      BY <1>1, <3>1
    <3> QED BY <2>2, <3>1, <3>2
  <2> QED BY <2>1, <2>2
<1>6. ASSUME NEW j \in 1..(n + 1), j # k
      PROVE  \E i \in 1..n : r[j] = steps[i] /\ (j < k => i = j) /\ (j > k => i = j - 1)
  <2>1. CASE j < k
    <3>1. j \in 1..(k - 1) /\ j \in 1..n /\ ~(j > k)
      BY <1>1, <1>2, <2>1
    <3> QED BY <1>1, <3>1
  <2>2. CASE j > k
    <3>1. j \in (k + 1)..(n + 1) /\ j - 1 \in 1..n /\ ~(j < k)
      BY <1>1, <1>2, <2>2
    <3> QED BY <1>1, <3>1
  <2> QED BY <1>1, <1>2, <1>6, <2>1, <2>2
<1>7. k \in DOMAIN r
  BY <1>1, <1>2
<1>8. Codes(r) = Codes(steps) \cup {s.code}
  <2>1. ASSUME NEW i \in 1..n PROVE steps[i].code \in Codes(r)
    BY <1>2, <1>5, Zenon DEF Codes
  <2>2. s.code \in Codes(r)
    BY <1>1, <1>7 DEF Codes
  <2>3. ASSUME NEW j \in 1..(n + 1) PROVE r[j].code \in Codes(steps) \cup {s.code}
    BY <1>1, <1>2, <1>6, Zenon DEF Codes
  <2>4. Codes(r) \subseteq Codes(steps) \cup {s.code}
    BY <1>2, <2>3 DEF Codes
  <2>5. Codes(steps) \subseteq Codes(r)
    BY <1>2, <2>1 DEF Codes
  <2> QED BY <2>2, <2>4, <2>5
<1>9. ASSUME NEW c \in Codes(steps) \ {s.code}, NEW d \in Codes(steps) \ {s.code},
             StepOf(steps, c) < StepOf(steps, d)
      PROVE  StepOf(r, c) < StepOf(r, d)
  <2> DEFINE a == StepOf(steps, c)
             q == StepOf(r, d)
  <2>1. a \in 1..n /\ steps[a].code = c
    BY FirstPlace DEF n
  <2>2. q \in 1..(n + 1) /\ r[q].code = d /\ q # k
    <3>1. d \in Codes(r)
      BY <1>8
    <3>2. q \in 1..Len(r) /\ r[q].code = d
      BY <1>1, <3>1, FirstPlace
    <3> QED BY <1>1, <3>2
  <2> HIDE DEF q
  <2>3. PICK i \in 1..n : r[q] = steps[i] /\ (q < k => i = q) /\ (q > k => i = q - 1)
    BY <1>6, <2>2
  <2>4. StepOf(steps, d) \in 1..i
    BY <2>2, <2>3, AtOrAfter DEF n
  <2> HIDE DEF a
  <2>5. PICK j \in 1..(n + 1) : r[j] = steps[a] /\ (a < k => j = a) /\ j <= a + 1
    BY <1>5, <2>1
  <2>6. StepOf(r, c) \in 1..j
    BY <1>1, <2>1, <2>5, AtOrAfter, Zenon
  <2>7. a < i
    BY <1>2, <1>9, <2>1, <2>3, <2>4 DEF a
  <2>8. j < q
    BY <1>1, <1>2, <2>1, <2>2, <2>3, <2>5, <2>7
  <2>9. StepOf(r, c) < q
    BY <1>2, <2>2, <2>5, <2>6, <2>8
  <2> QED BY <2>9 DEF q
<1> QED BY <1>1, <1>4, <1>8, <1>9

(* Sequences that tell the same codes tell them at the same places. *)
LEMMA SameCodes ==
    ASSUME NEW X, NEW Y, NEW s \in Seq(X), NEW t \in Seq(Y), Len(s) = Len(t),
           \A i \in 1..Len(t) : s[i].code = t[i].code
    PROVE  Codes(s) = Codes(t) /\ \A code : StepOf(s, code) = StepOf(t, code)
<1>1. DOMAIN s = 1..Len(t) /\ DOMAIN t = 1..Len(t)
  BY LenProperties
<1>2. Codes(s) = Codes(t)
  BY <1>1 DEF Codes
<1>3. ASSUME NEW code PROVE StepOf(s, code) = StepOf(t, code)
  <2>1. {i \in 1..Len(s) : s[i].code = code} = {i \in 1..Len(t) : t[i].code = code}
    OBVIOUS
  <2> QED BY <2>1, Zenon DEF StepOf
<1> QED BY <1>2, <1>3

(***************************************************************************)
(* The records a journey is told from.                                     *)
(***************************************************************************)
Times == Int \cup {None}
Answers == {"", "00", "05", "91", "96"}
Rows == [type : Types, status : Statuses, rc : Answers, createdAt : Int, sentAt : Times, lateAt : Times]
Revs == [status : RevStatuses, sentAt : Times, ackedAt : Times]
Entries == [to : Statuses, at : Int]
Books == [row : Rows, history : Seq(Entries), rev : Revs \cup {None}]

(* What a history has been through. *)
Tos(h) == {h[i].to : i \in DOMAIN h}

(* reached: the time of the first entry of a status, if it has one. *)
LEMMA ReachedFacts ==
    ASSUME NEW b, b.history \in Seq(Entries), NEW status
    PROVE  /\ Reached(b, status) \in Times
           /\ Reached(b, status) # None <=> status \in Tos(b.history)
<1> DEFINE h == b.history
           I == {i \in 1..Len(h) : h[i].to = status}
           k == Min(I)
<1>0. Len(h) \in Nat /\ DOMAIN h = 1..Len(h) /\ \A i \in 1..Len(h) : h[i] \in Entries
  BY LenProperties, ElementOfSeq
<1>1. status \in Tos(h) <=> I # {}
  BY <1>0 DEF Tos
<1>2. I \in SUBSET Nat
  BY <1>0
<1>3. I # {} => k \in I
  BY <1>2, LeastNumber, Zenon
<1>4. Reached(b, status) = IF I = {} THEN None ELSE h[k].at
  BY DEF Reached
<1> HIDE DEF k, h
<1>5. CASE I # {}
  <2>1. k \in 1..Len(h)
    BY <1>3, <1>5
  <2>2. h[k].at \in Int
    BY <1>0, <2>1 DEF Entries
  <2> QED BY <1>1, <1>4, <1>5, <2>2, JourneyAssumption DEF Times, h
<1>6. CASE I = {}
  BY <1>1, <1>4, <1>6 DEF Times, h
<1> QED BY <1>5, <1>6

(* The smallest of up to three times. *)
LEMMA SmallestOfThree ==
    ASSUME NEW c \in Int, NEW d \in Int, NEW e \in Int, NEW S, S \subseteq {c, d, e}, S # {}
    PROVE  Min(S) \in Int
<1>1. \E x \in S : \A y \in S : x <= y
  <2>0. S \subseteq Int
    OBVIOUS
  <2> SUFFICES ASSUME \A x \in S : \E y \in S : y < x PROVE FALSE
    BY <2>0
  <2>1. PICK x \in S : TRUE
    BY Zenon
  <2>2. PICK y \in S : y < x
    OBVIOUS
  <2>3. PICK z \in S : z < y
    OBVIOUS
  <2>4. PICK w \in S : w < z
    OBVIOUS
  <2> QED BY <2>0, <2>2, <2>3, <2>4
<1>2. Min(S) \in S
  BY <1>1, Zenon DEF Min
<1> QED BY <1>2, Zenon

(* journeyStart: there is always a time to count from. *)
LEMMA StartFacts ==
    ASSUME NEW b \in Books
    PROVE  StartOf(b) \in Int
<1> DEFINE c == b.row.createdAt
           d == IF b.row.sentAt = None THEN c ELSE b.row.sentAt
           e == IF 1 \in DOMAIN b.history THEN b.history[1].at ELSE c
           S == {c} \cup ({b.row.sentAt} \ {None}) \cup {b.history[i].at : i \in DOMAIN b.history \cap {1}}
<1>1. c \in Int /\ d \in Int
  BY DEF Books, Rows, Times
<1>2. e \in Int
  <2>1. b.history \in Seq(Entries)
    BY DEF Books
  <2>2. 1 \in DOMAIN b.history => b.history[1] \in Entries
    BY <2>1
  <2> QED BY <1>1, <2>2 DEF Entries
<1>3. S \subseteq {c, d, e} /\ S # {}
  OBVIOUS
<1>4. StartOf(b) = Min(S)
  BY DEF StartOf
<1> HIDE DEF c, d, e, S
<1> QED BY <1>1, <1>2, <1>3, <1>4, SmallestOfThree, ZenonT(30)

(* The names of the steps. *)
LEMMA CodeNames ==
    /\ "POS_REQUEST" \in StepCodes /\ "LOCAL_DECLINE" \in StepCodes /\ "REQUEST_SENT" \in StepCodes
    /\ "ISSUER_APPROVED" \in StepCodes /\ "ISSUER_DECLINED" \in StepCodes /\ "NO_RESPONSE" \in StepCodes
    /\ "POS_RESULT" \in StepCodes /\ "LATE_RESPONSE" \in StepCodes /\ "REVERSAL_QUEUED" \in StepCodes
    /\ "REVERSAL_SENT" \in StepCodes /\ "REVERSAL_CONFIRMED" \in StepCodes
BY DEF StepCodes

(* A step that is told when there is a time for it. *)
LEMMA IfFacts ==
    ASSUME NEW time \in Times, NEW code \in StepCodes
    PROVE  /\ If(time, code) \in Seq(TimedSteps)
           /\ Codes(If(time, code)) = IF time = None THEN {} ELSE {code}
<1>1. CASE time = None
  BY <1>1 DEF If, Codes
<1>2. CASE time # None
  <2>1. At(code, time) \in TimedSteps /\ At(code, time).code = code
    BY <1>2 DEF At, TimedSteps, Times
  <2> QED BY <1>2, <2>1 DEF If, Codes
<1> QED BY <1>1, <1>2

(* Two steps. *)
LEMMA PairFacts ==
    ASSUME NEW c \in StepCodes, NEW d \in StepCodes, NEW t \in Int, NEW u \in Int
    PROVE  /\ <<At(c, t), At(d, u)>> \in Seq(TimedSteps)
           /\ Codes(<<At(c, t), At(d, u)>>) = {c, d}
<1>1. /\ At(c, t) \in TimedSteps /\ At(c, t).code = c
      /\ At(d, u) \in TimedSteps /\ At(d, u).code = d
  BY DEF At, TimedSteps
<1> DEFINE s == <<At(c, t), At(d, u)>>
<1>2. s \in Seq(TimedSteps) /\ DOMAIN s = {1, 2} /\ s[1].code = c /\ s[2].code = d
  BY <1>1
<1> HIDE DEF s
<1>3. Codes(s) = {c, d}
  BY <1>2 DEF Codes
<1> QED BY <1>2, <1>3 DEF s

(* sentAt of the history or of the row. *)
LEMMA SentFacts ==
    ASSUME NEW b \in Books
    PROVE  SentAt(b) \in Times /\ (SentAt(b) = None <=> b.row.sentAt = None /\ "SENT" \notin Tos(b.history))
<1>1. b.history \in Seq(Entries) /\ b.row.sentAt \in Times
  BY DEF Books, Rows
<1> QED BY <1>1, ReachedFacts DEF SentAt

(* requestSteps *)
LEMMA RequestFacts ==
    ASSUME NEW b \in Books
    PROVE  /\ RequestSteps(b) \in Seq(TimedSteps)
           /\ Codes(RequestSteps(b)) = {"POS_REQUEST", IF SentAt(b) = None THEN "LOCAL_DECLINE" ELSE "REQUEST_SENT"}
<1>1. StartOf(b) \in Int /\ SentAt(b) \in Times
  BY StartFacts, SentFacts
<1>2. CASE SentAt(b) = None
  <2>1. RequestSteps(b) = <<At("POS_REQUEST", StartOf(b)), At("LOCAL_DECLINE", StartOf(b))>>
    BY <1>2 DEF RequestSteps
  <2>2. /\ RequestSteps(b) \in Seq(TimedSteps)
        /\ Codes(RequestSteps(b)) = {"POS_REQUEST", "LOCAL_DECLINE"}
    BY <1>1, <2>1, PairFacts, CodeNames
  <2> QED BY <1>2, <2>2
<1>3. CASE SentAt(b) # None
  <2>1. RequestSteps(b) = <<At("POS_REQUEST", StartOf(b)), At("REQUEST_SENT", SentAt(b))>> /\ SentAt(b) \in Int
    BY <1>1, <1>3 DEF RequestSteps, Times
  <2>2. /\ RequestSteps(b) \in Seq(TimedSteps)
        /\ Codes(RequestSteps(b)) = {"POS_REQUEST", "REQUEST_SENT"}
    BY <1>1, <2>1, PairFacts, CodeNames
  <2> QED BY <1>3, <2>2
<1> QED BY <1>2, <1>3

(* reversalSteps *)
LEMMA ReversalFacts ==
    ASSUME NEW b \in Books
    PROVE  /\ ReversalSentAt(b) \in Times /\ ReversalConfirmedAt(b) \in Times
           /\ If(ReversalSentAt(b), "REVERSAL_SENT") \in Seq(TimedSteps)
           /\ If(ReversalConfirmedAt(b), "REVERSAL_CONFIRMED") \in Seq(TimedSteps)
           /\ Codes(If(ReversalSentAt(b), "REVERSAL_SENT")) = IF ReversalSentAt(b) = None THEN {} ELSE {"REVERSAL_SENT"}
           /\ Codes(If(ReversalConfirmedAt(b), "REVERSAL_CONFIRMED")) =
                 IF ReversalConfirmedAt(b) = None THEN {} ELSE {"REVERSAL_CONFIRMED"}
           /\ ReversalSteps(b) \in Seq(TimedSteps)
           /\ Codes(ReversalSteps(b)) = (IF ReversalSentAt(b) = None THEN {} ELSE {"REVERSAL_SENT"})
                                        \cup (IF ReversalConfirmedAt(b) = None THEN {} ELSE {"REVERSAL_CONFIRMED"})
<1>1. b.history \in Seq(Entries) /\ b.rev \in Revs \cup {None}
  BY DEF Books
<1>2. Reached(b, "REVERSED") \in Times
  BY <1>1, ReachedFacts
<1>3. b.rev # None => b.rev.sentAt \in Times /\ b.rev.ackedAt \in Times
  BY <1>1 DEF Revs
<1>4. ReversalSentAt(b) \in Times /\ ReversalConfirmedAt(b) \in Times
  BY <1>2, <1>3 DEF ReversalSentAt, ReversalConfirmedAt
<1>5. /\ If(ReversalSentAt(b), "REVERSAL_SENT") \in Seq(TimedSteps)
      /\ Codes(If(ReversalSentAt(b), "REVERSAL_SENT")) = IF ReversalSentAt(b) = None THEN {} ELSE {"REVERSAL_SENT"}
  BY <1>4, IfFacts, CodeNames, Zenon
<1>6. /\ If(ReversalConfirmedAt(b), "REVERSAL_CONFIRMED") \in Seq(TimedSteps)
      /\ Codes(If(ReversalConfirmedAt(b), "REVERSAL_CONFIRMED")) =
            IF ReversalConfirmedAt(b) = None THEN {} ELSE {"REVERSAL_CONFIRMED"}
  BY <1>4, IfFacts, CodeNames, Zenon
<1>7. /\ ReversalSteps(b) \in Seq(TimedSteps)
      /\ Codes(ReversalSteps(b)) = Codes(If(ReversalSentAt(b), "REVERSAL_SENT"))
                                   \cup Codes(If(ReversalConfirmedAt(b), "REVERSAL_CONFIRMED"))
  BY <1>5, <1>6, CodesJoin DEF ReversalSteps
<1> QED BY <1>4, <1>5, <1>6, <1>7

(* reversalQueued *)
LEMMA QueuedFacts ==
    ASSUME NEW b \in Books
    PROVE  /\ ReversalQueued(b) \in Seq(TimedSteps)
           /\ Codes(ReversalQueued(b)) = IF "REVERSAL_PENDING" \in Tos(b.history) THEN {"REVERSAL_QUEUED"} ELSE {}
<1>1. b.history \in Seq(Entries)
  BY DEF Books
<1>2. /\ Reached(b, "REVERSAL_PENDING") \in Times
      /\ Reached(b, "REVERSAL_PENDING") # None <=> "REVERSAL_PENDING" \in Tos(b.history)
  BY <1>1, ReachedFacts
<1>3. /\ ReversalQueued(b) \in Seq(TimedSteps)
      /\ Codes(ReversalQueued(b)) = IF Reached(b, "REVERSAL_PENDING") = None THEN {} ELSE {"REVERSAL_QUEUED"}
  BY <1>2, IfFacts, CodeNames DEF ReversalQueued
<1> QED BY <1>2, <1>3

(* What outcomeSteps tells, by what the history has. *)
QueuedCodes(seen) == IF "REVERSAL_PENDING" \in seen THEN {"REVERSAL_QUEUED"} ELSE {}
OutcomeCodes(sent, seen) ==
    CASE ~sent -> {"POS_RESULT"}
      [] sent /\ "TIMED_OUT" \in seen -> {"NO_RESPONSE", "POS_RESULT"} \cup QueuedCodes(seen)
      [] sent /\ "TIMED_OUT" \notin seen /\ "APPROVED" \in seen ->
            {"ISSUER_APPROVED", "POS_RESULT"} \cup QueuedCodes(seen)
      [] sent /\ "TIMED_OUT" \notin seen /\ "APPROVED" \notin seen /\ "DECLINED" \in seen ->
            {"ISSUER_DECLINED", "POS_RESULT"} \cup QueuedCodes(seen)
      [] OTHER -> {}

(* A step alone. *)
LEMMA OneFacts ==
    ASSUME NEW c \in StepCodes, NEW t \in Int
    PROVE  <<At(c, t)>> \in Seq(TimedSteps) /\ Codes(<<At(c, t)>>) = {c}
<1>1. At(c, t) \in TimedSteps /\ At(c, t).code = c
  BY DEF At, TimedSteps
<1> DEFINE s == <<At(c, t)>>
<1>2. s \in Seq(TimedSteps) /\ DOMAIN s = {1} /\ s[1].code = c
  BY <1>1
<1> HIDE DEF s
<1>3. Codes(s) = {c}
  BY <1>2 DEF Codes
<1> QED BY <1>2, <1>3 DEF s

(* outcomeSteps *)
LEMMA OutcomeFacts ==
    ASSUME NEW b \in Books
    PROVE  /\ OutcomeSteps(b) \in Seq(TimedSteps)
           /\ Codes(OutcomeSteps(b)) = OutcomeCodes(SentAt(b) # None, Tos(b.history))
<1> DEFINE seen == Tos(b.history)
           q == ReversalQueued(b)
           timedOut == Reached(b, "TIMED_OUT")
           approved == Reached(b, "APPROVED")
           declined == Reached(b, "DECLINED")
<1>0. b.history \in Seq(Entries)
  BY DEF Books
<1>1. /\ timedOut \in Times /\ (timedOut # None <=> "TIMED_OUT" \in seen)
      /\ approved \in Times /\ (approved # None <=> "APPROVED" \in seen)
      /\ declined \in Times /\ (declined # None <=> "DECLINED" \in seen)
  BY <1>0, ReachedFacts
<1>2. q \in Seq(TimedSteps) /\ Codes(q) = QueuedCodes(seen)
  BY QueuedFacts DEF QueuedCodes
<1>3. CASE SentAt(b) = None
  <2>1. OutcomeSteps(b) = <<At("POS_RESULT", StartOf(b))>>
    BY <1>3 DEF OutcomeSteps
  <2>2. OutcomeSteps(b) \in Seq(TimedSteps) /\ Codes(OutcomeSteps(b)) = {"POS_RESULT"}
    BY <2>1, StartFacts, OneFacts, CodeNames
  <2> QED BY <1>3, <2>2 DEF OutcomeCodes
<1>4. CASE SentAt(b) # None /\ timedOut # None
  <2> DEFINE first == <<At("NO_RESPONSE", timedOut)>>
             u == first \o q
             last == <<At("POS_RESULT", u[Len(u)].at)>>
  <2>1. OutcomeSteps(b) = Append(u, At("POS_RESULT", u[Len(u)].at))
    BY <1>4 DEF OutcomeSteps
  <2>2. first \in Seq(TimedSteps) /\ Codes(first) = {"NO_RESPONSE"} /\ Len(first) = 1
    BY <1>1, <1>4, OneFacts, CodeNames DEF Times
  <2> HIDE DEF first, q
  <2>3. u \in Seq(TimedSteps) /\ Codes(u) = {"NO_RESPONSE"} \cup QueuedCodes(seen)
    BY <1>2, <2>2, CodesJoin
  <2>4. Len(u) \in Nat \ {0}
    BY <1>2, <2>2
  <2> HIDE DEF u
  <2>5. u[Len(u)] \in TimedSteps
    BY <2>3, <2>4
  <2>6. u[Len(u)].at \in Int
    BY <2>5 DEF TimedSteps
  <2>7. last \in Seq(TimedSteps) /\ Codes(last) = {"POS_RESULT"}
    BY <2>6, OneFacts, CodeNames
  <2>8. OutcomeSteps(b) = u \o last
    <3>1. At("POS_RESULT", u[Len(u)].at) \in TimedSteps
      BY <2>6, CodeNames DEF At, TimedSteps
    <3> QED BY <2>1, <2>3, <3>1, AppendIsConcat
  <2> HIDE DEF last
  <2>9. OutcomeSteps(b) \in Seq(TimedSteps) /\ Codes(OutcomeSteps(b)) = Codes(u) \cup Codes(last)
    BY <2>3, <2>7, <2>8, CodesJoin
  <2>10. Codes(OutcomeSteps(b)) = {"NO_RESPONSE", "POS_RESULT"} \cup QueuedCodes(seen)
    BY <2>3, <2>7, <2>9
  <2>11. OutcomeCodes(SentAt(b) # None, seen) = {"NO_RESPONSE", "POS_RESULT"} \cup QueuedCodes(seen)
    BY <1>1, <1>4 DEF OutcomeCodes
  <2> QED BY <2>9, <2>10, <2>11
<1>5. CASE SentAt(b) # None /\ timedOut = None /\ approved # None
  <2> DEFINE first == <<At("ISSUER_APPROVED", approved), At("POS_RESULT", approved)>>
  <2>1. OutcomeSteps(b) = first \o q
    BY <1>5 DEF OutcomeSteps
  <2>2. first \in Seq(TimedSteps) /\ Codes(first) = {"ISSUER_APPROVED", "POS_RESULT"}
    BY <1>1, <1>5, PairFacts, CodeNames DEF Times
  <2> HIDE DEF first, q
  <2>3. OutcomeSteps(b) \in Seq(TimedSteps) /\ Codes(OutcomeSteps(b)) = {"ISSUER_APPROVED", "POS_RESULT"} \cup QueuedCodes(seen)
    BY <1>2, <2>1, <2>2, CodesJoin
  <2>4. OutcomeCodes(SentAt(b) # None, seen) = {"ISSUER_APPROVED", "POS_RESULT"} \cup QueuedCodes(seen)
    BY <1>1, <1>5 DEF OutcomeCodes
  <2> QED BY <2>3, <2>4
<1>6. CASE SentAt(b) # None /\ timedOut = None /\ approved = None /\ declined # None
  <2> DEFINE first == <<At("ISSUER_DECLINED", declined), At("POS_RESULT", declined)>>
  <2>1. OutcomeSteps(b) = first \o q
    BY <1>6 DEF OutcomeSteps
  <2>2. first \in Seq(TimedSteps) /\ Codes(first) = {"ISSUER_DECLINED", "POS_RESULT"}
    BY <1>1, <1>6, PairFacts, CodeNames DEF Times
  <2> HIDE DEF first, q
  <2>3. OutcomeSteps(b) \in Seq(TimedSteps) /\ Codes(OutcomeSteps(b)) = {"ISSUER_DECLINED", "POS_RESULT"} \cup QueuedCodes(seen)
    BY <1>2, <2>1, <2>2, CodesJoin
  <2>4. OutcomeCodes(SentAt(b) # None, seen) = {"ISSUER_DECLINED", "POS_RESULT"} \cup QueuedCodes(seen)
    BY <1>1, <1>6 DEF OutcomeCodes
  <2> QED BY <2>3, <2>4
<1>7. CASE SentAt(b) # None /\ timedOut = None /\ approved = None /\ declined = None
  <2>1. OutcomeSteps(b) = <<>>
    BY <1>7 DEF OutcomeSteps
  <2>2. OutcomeSteps(b) \in Seq(TimedSteps) /\ Codes(OutcomeSteps(b)) = {}
    BY <2>1 DEF Codes
  <2>3. OutcomeCodes(SentAt(b) # None, seen) = {}
    BY <1>1, <1>7 DEF OutcomeCodes
  <2> QED BY <2>2, <2>3
<1> QED BY <1>3, <1>4, <1>5, <1>6, <1>7

(* What a journey tells, by what was read. *)
RequestCodes(sent) == {"POS_REQUEST", IF sent THEN "REQUEST_SENT" ELSE "LOCAL_DECLINE"}
SentCodes(b) == IF ReversalSentAt(b) = None THEN {} ELSE {"REVERSAL_SENT"}
ConfirmedCodes(b) == IF ReversalConfirmedAt(b) = None THEN {} ELSE {"REVERSAL_CONFIRMED"}
LateCodes(b) == IF b.row.lateAt = None THEN {} ELSE {"LATE_RESPONSE"}
TimedCodes(b) ==
    RequestCodes(SentAt(b) # None) \cup OutcomeCodes(SentAt(b) # None, Tos(b.history)) \cup SentCodes(b) \cup ConfirmedCodes(b)

(* The parts of a journey tell nothing twice about the reversal. *)
LEMMA PartsApart ==
    ASSUME NEW sent \in BOOLEAN, NEW seen
    PROVE  RequestCodes(sent) \cup OutcomeCodes(sent, seen)
           \subseteq StepCodes \ {"REVERSAL_SENT", "REVERSAL_CONFIRMED", "LATE_RESPONSE"}
<1>1. RequestCodes(sent) \subseteq StepCodes \ {"REVERSAL_SENT", "REVERSAL_CONFIRMED", "LATE_RESPONSE"}
  BY DEF RequestCodes, StepCodes
<1>2. QueuedCodes(seen) \subseteq {"REVERSAL_QUEUED"}
  BY DEF QueuedCodes
<1>3. OutcomeCodes(sent, seen) \subseteq {"POS_RESULT", "NO_RESPONSE", "ISSUER_APPROVED", "ISSUER_DECLINED"} \cup QueuedCodes(seen)
  BY DEF OutcomeCodes
<1>4. OutcomeCodes(sent, seen) \subseteq {"POS_RESULT", "NO_RESPONSE", "ISSUER_APPROVED", "ISSUER_DECLINED", "REVERSAL_QUEUED"}
  BY <1>2, <1>3
<1>5. {"POS_RESULT", "NO_RESPONSE", "ISSUER_APPROVED", "ISSUER_DECLINED", "REVERSAL_QUEUED"}
         \subseteq StepCodes \ {"REVERSAL_SENT", "REVERSAL_CONFIRMED", "LATE_RESPONSE"}
  BY DEF StepCodes
<1> QED BY <1>1, <1>4, <1>5

(* BuildJourney's steps before their offsets: the reversal is queued, sent and confirmed in this order. *)
LEMMA TimedFacts ==
    ASSUME NEW b \in Books, NEW timed, timed = RequestSteps(b) \o OutcomeSteps(b) \o ReversalSteps(b)
    PROVE  /\ timed \in Seq(TimedSteps)
           /\ Codes(timed) = TimedCodes(b)
           /\ "REVERSAL_QUEUED" \in Codes(timed) /\ "REVERSAL_SENT" \in Codes(timed) =>
                 StepOf(timed, "REVERSAL_QUEUED") < StepOf(timed, "REVERSAL_SENT")
           /\ "REVERSAL_SENT" \in Codes(timed) /\ "REVERSAL_CONFIRMED" \in Codes(timed) =>
                 StepOf(timed, "REVERSAL_SENT") < StepOf(timed, "REVERSAL_CONFIRMED")
<1> DEFINE a == RequestSteps(b) \o OutcomeSteps(b)
           x == If(ReversalSentAt(b), "REVERSAL_SENT")
           y == If(ReversalConfirmedAt(b), "REVERSAL_CONFIRMED")
           before == RequestCodes(SentAt(b) # None) \cup OutcomeCodes(SentAt(b) # None, Tos(b.history))
<1>1. a \in Seq(TimedSteps) /\ Codes(a) = before
  <2>1. Codes(RequestSteps(b)) = RequestCodes(SentAt(b) # None)
    BY RequestFacts DEF RequestCodes
  <2> QED BY <2>1, RequestFacts, OutcomeFacts, CodesJoin
<1>2. x \in Seq(TimedSteps) /\ Codes(x) = SentCodes(b) /\ y \in Seq(TimedSteps) /\ Codes(y) = ConfirmedCodes(b)
  BY ReversalFacts DEF SentCodes, ConfirmedCodes
<1>3. "REVERSAL_SENT" \notin before /\ "REVERSAL_CONFIRMED" \notin before
  BY PartsApart, Zenon
<1>4. timed = a \o (x \o y)
  BY DEF ReversalSteps
<1> HIDE DEF a, x, y, before
<1>5. x \o y \in Seq(TimedSteps) /\ Codes(x \o y) = SentCodes(b) \cup ConfirmedCodes(b)
  BY <1>2, CodesJoin
<1>6. timed \in Seq(TimedSteps) /\ Codes(timed) = before \cup SentCodes(b) \cup ConfirmedCodes(b)
  <2>1. timed \in Seq(TimedSteps) /\ Codes(timed) = Codes(a) \cup Codes(x \o y)
    <3> DEFINE z == x \o y
    <3>1. timed = a \o z /\ z \in Seq(TimedSteps)
      BY <1>4, <1>5
    <3> HIDE DEF z
    <3>2. timed \in Seq(TimedSteps) /\ Codes(timed) = Codes(a) \cup Codes(z)
      BY <1>1, <3>1, CodesJoin
    <3> QED BY <3>2 DEF z
  <2> QED BY <1>1, <1>5, <2>1
<1>7. SentCodes(b) \subseteq {"REVERSAL_SENT"} /\ ConfirmedCodes(b) \subseteq {"REVERSAL_CONFIRMED"}
  BY DEF SentCodes, ConfirmedCodes
<1>8. ASSUME "REVERSAL_QUEUED" \in Codes(timed), "REVERSAL_SENT" \in Codes(timed)
      PROVE  StepOf(timed, "REVERSAL_QUEUED") < StepOf(timed, "REVERSAL_SENT")
  <2>1. "REVERSAL_QUEUED" \in Codes(a) /\ "REVERSAL_SENT" \in Codes(x \o y) /\ "REVERSAL_SENT" \notin Codes(a)
    BY <1>1, <1>3, <1>5, <1>6, <1>7, <1>8
  <2>2. StepOf(timed, "REVERSAL_QUEUED") \in 1..(StepOf(timed, "REVERSAL_SENT") - 1)
    <3> DEFINE z == x \o y
    <3>1. timed = a \o z /\ z \in Seq(TimedSteps) /\ "REVERSAL_SENT" \in Codes(z)
      BY <1>4, <1>5, <2>1
    <3> HIDE DEF z
    <3> QED BY <1>1, <2>1, <3>1, PlacesJoin
  <2>3. StepOf(timed, "REVERSAL_SENT") \in 1..Len(timed) /\ Len(timed) \in Nat
    BY <1>6, <1>8, FirstPlace, LenProperties, Zenon
  <2> QED BY <2>2, <2>3
<1>9. ASSUME "REVERSAL_SENT" \in Codes(timed), "REVERSAL_CONFIRMED" \in Codes(timed)
      PROVE  StepOf(timed, "REVERSAL_SENT") < StepOf(timed, "REVERSAL_CONFIRMED")
  <2>1. timed = (a \o x) \o y
    <3>1. (a \o x) \o y = a \o (x \o y)
      <4>1. a \in Seq(TimedSteps) /\ x \in Seq(TimedSteps) /\ y \in Seq(TimedSteps)
        BY <1>1, <1>2, Zenon
      <4> QED BY <4>1, ConcatAssociative
    <3> QED BY <1>4, <3>1, Zenon
  <2>2. a \o x \in Seq(TimedSteps) /\ Codes(a \o x) = before \cup SentCodes(b)
    BY <1>1, <1>2, CodesJoin
  <2>3. "REVERSAL_SENT" \in Codes(a \o x) /\ "REVERSAL_CONFIRMED" \in Codes(y)
        /\ "REVERSAL_CONFIRMED" \notin Codes(a \o x)
    BY <1>2, <1>3, <1>6, <1>7, <1>9, <2>2
  <2> DEFINE h == a \o x
  <2> HIDE DEF h
  <2>4. h \in Seq(TimedSteps) /\ "REVERSAL_SENT" \in Codes(h) /\ "REVERSAL_CONFIRMED" \notin Codes(h) /\ timed = h \o y
    BY <2>1, <2>2, <2>3 DEF h
  <2>5. StepOf(timed, "REVERSAL_SENT") \in 1..(StepOf(timed, "REVERSAL_CONFIRMED") - 1)
    BY <1>2, <2>3, <2>4, PlacesJoin
  <2>6. StepOf(timed, "REVERSAL_CONFIRMED") \in 1..Len(timed) /\ Len(timed) \in Nat
    BY <1>6, <1>9, FirstPlace, LenProperties, Zenon
  <2> QED BY <2>5, <2>6
<1> QED BY <1>6, <1>8, <1>9 DEF TimedCodes, before

(* BuildJourney: its steps are in order, and the late answer is put among them without moving them. *)
LEMMA StepsFacts ==
    ASSUME NEW b \in Books
    PROVE  /\ Steps(b) \in Seq(OffsetSteps)
           /\ Ordered(Steps(b))
           /\ Codes(Steps(b)) = TimedCodes(b) \cup LateCodes(b)
           /\ "REVERSAL_QUEUED" \in Codes(Steps(b)) /\ "REVERSAL_SENT" \in Codes(Steps(b)) =>
                 StepOf(Steps(b), "REVERSAL_QUEUED") < StepOf(Steps(b), "REVERSAL_SENT")
           /\ "REVERSAL_SENT" \in Codes(Steps(b)) /\ "REVERSAL_CONFIRMED" \in Codes(Steps(b)) =>
                 StepOf(Steps(b), "REVERSAL_SENT") < StepOf(Steps(b), "REVERSAL_CONFIRMED")
<1> DEFINE timed == RequestSteps(b) \o OutcomeSteps(b) \o ReversalSteps(b)
           w == WithOffsets(timed, StartOf(b))
           InOrder(s) == /\ "REVERSAL_QUEUED" \in Codes(s) /\ "REVERSAL_SENT" \in Codes(s) =>
                               StepOf(s, "REVERSAL_QUEUED") < StepOf(s, "REVERSAL_SENT")
                         /\ "REVERSAL_SENT" \in Codes(s) /\ "REVERSAL_CONFIRMED" \in Codes(s) =>
                               StepOf(s, "REVERSAL_SENT") < StepOf(s, "REVERSAL_CONFIRMED")
<1>1. timed \in Seq(TimedSteps) /\ Codes(timed) = TimedCodes(b) /\ InOrder(timed)
  BY TimedFacts, Zenon
<1>2. Steps(b) = IF b.row.lateAt = None THEN w ELSE InsertAtOffset(w, LateResponse(b))
  BY DEF Steps
<1> HIDE DEF timed
<1>3. /\ w \in Seq(OffsetSteps) /\ Len(w) = Len(timed) /\ Ordered(w)
      /\ \A i \in 1..Len(timed) : w[i].code = timed[i].code
  BY <1>1, StartFacts, OffsetsFacts
<1> HIDE DEF w
<1>4. Codes(w) = Codes(timed) /\ \A code : StepOf(w, code) = StepOf(timed, code)
  BY <1>1, <1>3, SameCodes
<1>5. Codes(w) = TimedCodes(b) /\ InOrder(w)
  BY <1>1, <1>4
<1>6. CASE b.row.lateAt = None
  <2>1. Steps(b) = w /\ LateCodes(b) = {}
    BY <1>2, <1>6 DEF LateCodes
  <2> QED BY <1>3, <1>5, <2>1
<1>7. CASE b.row.lateAt # None
  <2> DEFINE s == LateResponse(b)
             r == InsertAtOffset(w, s)
  <2>1. s \in OffsetSteps /\ s.code = "LATE_RESPONSE"
    <3>1. b.row.lateAt \in Int
      BY <1>7 DEF Books, Rows, Times
    <3>2. MsBetween(StartOf(b), b.row.lateAt) \in Nat
      BY <3>1, StartFacts, Duration, Zenon
    <3> QED BY <3>2, CodeNames DEF LateResponse, OffsetSteps
  <2>2. Steps(b) = r /\ LateCodes(b) = {"LATE_RESPONSE"}
    BY <1>2, <1>7 DEF LateCodes
  <2> HIDE DEF s
  <2>3. /\ r \in Seq(OffsetSteps) /\ Ordered(r) /\ Codes(r) = Codes(w) \cup {s.code}
        /\ \A c \in Codes(w) \ {s.code}, d \in Codes(w) \ {s.code} :
              StepOf(w, c) < StepOf(w, d) => StepOf(r, c) < StepOf(r, d)
    BY <1>3, <2>1, InsertKeeps
  <2> HIDE DEF r
  <2>4. Codes(r) = TimedCodes(b) \cup LateCodes(b)
    BY <1>5, <2>1, <2>2, <2>3
  <2>5. InOrder(r)
    BY <1>5, <2>1, <2>3
  <2> QED BY <2>2, <2>3, <2>4, <2>5
<1> QED BY <1>6, <1>7

-----------------------------------------------------------------------------
(***************************************************************************)
(* The records.                                                            *)
(***************************************************************************)
Ats == {"idle", "insert", "mark", "record sent", "send", "decide", "record", "follow up", "done"}
Doings == [at : Ats, outcome : Outcomes \cup {Outcome("NONE", "")}, current : Statuses]
Outs == {"TIMED_OUT", "APPROVED", "DECLINED"}
Reversing == {"REVERSAL_PENDING", "REVERSED"}

Typed ==
    /\ clock \in Int /\ doing \in Doings /\ row \in Rows /\ history \in Seq(Entries) /\ rev \in Revs \cup {None}
    /\ advised \in BOOLEAN

(* What the handler's step says of the row and the history. *)
HandlerInv ==
    /\ doing.at = "idle" => row.sentAt = None /\ row.status = "NONE"
    /\ doing.at = "insert" => row.status = "NONE"
    /\ doing.at = "mark" => row.status = "CREATED"
    /\ doing.at \in {"record sent", "send"} => row.status = "SENT"
    /\ doing.at \in {"idle", "insert", "mark", "record sent"} => Tos(history) = {}
    /\ doing.at = "send" => Tos(history) \subseteq {"SENT"}
    /\ doing.at = "decide" /\ row.status = "SENT" => Tos(history) \subseteq {"SENT"} /\ ~advised
    /\ doing.at = "decide" /\ row.status # "SENT" => "TIMED_OUT" \in Tos(history)
    /\ doing.at \in {"decide", "record"} => doing.outcome.status \in Outs
    /\ doing.at = "record" =>
          /\ Tos(history) \subseteq {"SENT", "REVERSAL_PENDING", "REVERSED"}
          /\ doing.current = doing.outcome.status
          /\ row.status = doing.outcome.status \/ (doing.outcome.status = "APPROVED" /\ row.status \in Reversing)
    /\ doing.at = "follow up" => doing.current \in {"SENT"} \cup Outs
    /\ advised => doing.at \in {"decide", "follow up", "done"}
    /\ row.sentAt = None => /\ Tos(history) = {}
                            /\ doing.at = "idle" \/ (doing.at = "done" /\ row.status = "DECLINED" /\ row.rc = "91")

(* The issuer has returned the money and owes no decision, or the 0420 missed the request. *)
Returned == missed \/ (~held /\ ~deciding)

(* How the row, its history and its reversal agree. *)
RecordInv ==
    /\ rev # None <=> row.status \in Reversing
    /\ rev # None <=> "REVERSAL_PENDING" \in Tos(history)
    /\ row.status = "REVERSED" <=> "REVERSED" \in Tos(history)
    /\ rev # None => /\ rev.status = "ACKED" <=> row.status = "REVERSED"
                     /\ rev.ackedAt # None <=> row.status = "REVERSED"
                     /\ row.status = "REVERSED" => rev.sentAt # None /\ Returned
    /\ "APPROVED" \in Tos(history) /\ "TIMED_OUT" \notin Tos(history) =>
          doing.at \in {"follow up", "done"} /\ row.status \in {"APPROVED"} \cup Reversing
    /\ "DECLINED" \in Tos(history) /\ "TIMED_OUT" \notin Tos(history) =>
          doing.at \in {"follow up", "done"} /\ row.status \in {"DECLINED"} \cup Reversing

IInv == Typed /\ HandlerInv /\ RecordInv

(* What no step takes back. *)
Grows ==
    /\ Tos(history) \subseteq Tos(history')
    /\ "TIMED_OUT" \notin Tos(history) /\ Tos(history) \cap {"APPROVED", "DECLINED"} # {} => "TIMED_OUT" \notin Tos(history')
    /\ "TIMED_OUT" \notin Tos(history) /\ "APPROVED" \notin Tos(history) /\ "DECLINED" \in Tos(history) =>
          "APPROVED" \notin Tos(history')
    /\ row'.type = row.type
    /\ row.status # "NONE" => row'.status # "NONE" /\ (row'.sentAt = None <=> row.sentAt = None)
    /\ row.status = "REVERSED" => row'.status = "REVERSED"
    /\ row.lateAt # None => row'.lateAt # None
    /\ rev # None => rev' # None /\ (rev.sentAt # None => rev'.sentAt # None)

(* RecordStateTransition adds a status to what the history has been through. *)
LEMMA Recorded ==
    ASSUME Typed, NEW status \in Statuses, Records(status)
    PROVE  history' \in Seq(Entries) /\ Tos(history') = Tos(history) \cup {status}
<1> DEFINE e == [to |-> status, at |-> clock]
<1>1. history \in Seq(Entries) /\ e \in Entries /\ e.to = status /\ history' = Append(history, e)
  BY DEF Typed, Entries, Records
<1> HIDE DEF e
<1>2. /\ history' \in Seq(Entries) /\ Len(history') = Len(history) + 1 /\ Len(history) \in Nat
      /\ DOMAIN history = 1..Len(history) /\ DOMAIN history' = 1..(Len(history) + 1)
      /\ \A i \in 1..Len(history) : history'[i] = history[i]
      /\ history'[Len(history) + 1] = e
  BY <1>1, AppendProperties, LenProperties
<1>3. \A i \in 1..(Len(history) + 1) : i \in 1..Len(history) \/ i = Len(history) + 1
  BY <1>2
<1>4. Len(history) + 1 \in 1..(Len(history) + 1) /\ \A i \in 1..Len(history) : i \in 1..(Len(history) + 1)
  BY <1>2
<1>5. Tos(history') = Tos(history) \cup {status}
  <2>1. Tos(history') \subseteq Tos(history) \cup {status}
    BY <1>1, <1>2, <1>3 DEF Tos
  <2>2. Tos(history) \subseteq Tos(history')
    BY <1>2, <1>4 DEF Tos
  <2>3. status \in Tos(history')
    BY <1>1, <1>2, <1>4 DEF Tos
  <2> QED BY <2>1, <2>2, <2>3
<1> QED BY <1>2, <1>5

(* Fields of the records. *)
LEMMA RowFields ==
    ASSUME NEW r \in Rows
    PROVE  r.type \in Types /\ r.status \in Statuses /\ r.rc \in Answers /\ r.createdAt \in Int
           /\ r.sentAt \in Times /\ r.lateAt \in Times
BY DEF Rows

(* Fields of a saf_queue row. *)
LEMMA RevFields ==
    ASSUME NEW v \in Revs
    PROVE  v # None /\ v.status \in RevStatuses /\ v.sentAt \in Times /\ v.ackedAt \in Times
BY JourneyAssumption DEF Revs, Times

(* Fields of what the handler is doing. *)
LEMMA DoingFields ==
    ASSUME NEW d \in Doings
    PROVE  d.at \in Ats /\ d.outcome \in Outcomes \cup {Outcome("NONE", "")} /\ d.current \in Statuses
BY Zenon DEF Doings

(* What mux.Send comes to. *)
LEMMA OutcomeParts == \A s, c : Outcome(s, c).status = s /\ Outcome(s, c).rc = c
BY DEF Outcome

(* The status and the response code of an outcome. *)
LEMMA OutcomeFields ==
    ASSUME NEW o \in Outcomes \cup {Outcome("NONE", "")}
    PROVE  /\ o.rc \in Answers /\ o.status \in Statuses
           /\ o \in Outcomes => o.status \in Outs
           /\ o \in Outcomes /\ o.rc = "96" => o = Outcome("DECLINED", "96")
<1>1. o \in {Outcome("APPROVED", "00"), Outcome("DECLINED", "05"), Outcome("DECLINED", "96"), Outcome("TIMED_OUT", ""),
             Outcome("NONE", "")}
  BY Zenon DEF Outcomes
<1>2. o.rc \in Answers /\ o.status \in Statuses
  <2>1. /\ Outcome("APPROVED", "00").rc = "00" /\ Outcome("APPROVED", "00").status = "APPROVED"
        /\ Outcome("DECLINED", "05").rc = "05" /\ Outcome("DECLINED", "05").status = "DECLINED"
        /\ Outcome("DECLINED", "96").rc = "96" /\ Outcome("DECLINED", "96").status = "DECLINED"
        /\ Outcome("TIMED_OUT", "").rc = "" /\ Outcome("TIMED_OUT", "").status = "TIMED_OUT"
        /\ Outcome("NONE", "").rc = "" /\ Outcome("NONE", "").status = "NONE"
    BY OutcomeParts, Zenon
  <2> QED BY <1>1, <2>1, Zenon DEF Answers, Statuses
<1>3. o \in Outcomes => o.status \in Outs /\ (o.rc = "96" => o = Outcome("DECLINED", "96"))
  <2>1. ASSUME o \in Outcomes
        PROVE  \/ o.status = "APPROVED" /\ o.rc = "00"
               \/ o.status = "DECLINED" /\ o.rc = "05"
               \/ o.status = "DECLINED" /\ o = Outcome("DECLINED", "96")
               \/ o.status = "TIMED_OUT" /\ o.rc = ""
    <3>1. \/ o = Outcome("APPROVED", "00") \/ o = Outcome("DECLINED", "05")
          \/ o = Outcome("DECLINED", "96") \/ o = Outcome("TIMED_OUT", "")
      BY <2>1, Zenon DEF Outcomes
    <3>2. CASE o = Outcome("APPROVED", "00")
      BY <3>2, OutcomeParts, Zenon
    <3>3. CASE o = Outcome("DECLINED", "05")
      BY <3>3, OutcomeParts, Zenon
    <3>4. CASE o = Outcome("DECLINED", "96")
      BY <3>4, OutcomeParts, Zenon
    <3>5. CASE o = Outcome("TIMED_OUT", "")
      BY <3>5, OutcomeParts, Zenon
    <3> QED BY <3>1, <3>2, <3>3, <3>4, <3>5, Zenon
  <2>2. "00" # "96" /\ "05" # "96" /\ "" # "96"
    OBVIOUS
  <2> QED BY <2>1, <2>2, Zenon DEF Outs
<1> QED BY <1>2, <1>3, Zenon

(* Where the handler goes. *)
LEMMA GoesTo ==
    ASSUME doing \in Doings, NEW step \in Ats, Goes(step)
    PROVE  doing' \in Doings /\ doing'.at = step /\ doing'.outcome = doing.outcome /\ doing'.current = doing.current
BY Zenon DEF Goes, Doings

(* The handler ends. *)
LEMMA GoesToDone ==
    ASSUME Done
    PROVE  doing' \in Doings /\ doing'.at = "done"
BY Zenon DEF Done, Idle, Doings, Ats, Statuses

(* The handler before it sends: declinedTransaction, sendPurchase and sendAndRecord. *)
LEMMA BeforeSend ==
    ASSUME IInv, LinkDown \/ Begin \/ Insert \/ MarkSent
    PROVE  IInv' /\ Grows
<1> USE DEF IInv
<1>1. UNCHANGED <<history, rev, advised, clock>> /\ Tos(history) = {} /\ ~advised
      /\ doing.at \in {"idle", "insert", "mark"} /\ row.status \in {"NONE", "CREATED"}
  BY Zenon DEF LinkDown, Begin, Insert, MarkSent, HandlerInv
<1>2. rev = None
  BY <1>1 DEF RecordInv
<1>3. CASE LinkDown
  <2>1. /\ row' \in Rows /\ row'.status = "DECLINED" /\ row'.rc = "91" /\ row'.type = row.type
        /\ row'.sentAt = row.sentAt /\ row'.lateAt = row.lateAt /\ row.status = "NONE"
    BY <1>3, Zenon DEF LinkDown, Typed, Rows, Answers, Statuses, HandlerInv
  <2>2. doing' \in Doings /\ doing'.at = "done"
    BY <1>3, GoesToDone DEF LinkDown
  <2>3. Typed'
    BY <1>1, <2>1, <2>2 DEF Typed
  <2>4. HandlerInv'
    BY <1>1, <2>1, <2>2, Zenon DEF HandlerInv
  <2>5. RecordInv' /\ Grows
    BY <1>1, <1>2, <2>1 DEF RecordInv, Grows, Reversing
  <2> QED BY <2>3, <2>4, <2>5
<1>4. CASE Begin
  <2>1. /\ row' \in Rows /\ row'.status = row.status /\ row'.type = row.type
        /\ row'.sentAt = clock /\ row'.lateAt = row.lateAt /\ row.status = "NONE" /\ row'.sentAt # None
    BY <1>4, JourneyAssumption, Zenon DEF Begin, Typed, Rows, Times, HandlerInv
  <2>2. doing' \in Doings /\ doing'.at = "insert"
    BY <1>4, GoesTo, Zenon DEF Begin, Typed, Ats
  <2>3. Typed'
    BY <1>1, <2>1, <2>2 DEF Typed
  <2>4. HandlerInv'
    BY <1>1, <2>1, <2>2, Zenon DEF HandlerInv
  <2>5. RecordInv' /\ Grows
    BY <1>1, <1>2, <2>1 DEF RecordInv, Grows, Reversing
  <2> QED BY <2>3, <2>4, <2>5
<1>5. CASE Insert
  <2>1. /\ row' \in Rows /\ row'.status = "CREATED" /\ row'.type = row.type
        /\ row'.sentAt = row.sentAt /\ row'.lateAt = row.lateAt /\ row.status = "NONE" /\ doing.at = "insert"
    BY <1>5, Zenon DEF Insert, Typed, Rows, Statuses, HandlerInv
  <2>2. doing' \in Doings /\ doing'.at = "mark"
    BY <1>5, GoesTo, Zenon DEF Insert, Typed, Ats
  <2>3. Typed'
    BY <1>1, <2>1, <2>2 DEF Typed
  <2>4. HandlerInv'
    BY <1>1, <2>1, <2>2 DEF HandlerInv
  <2>5. RecordInv' /\ Grows
    BY <1>1, <1>2, <2>1 DEF RecordInv, Grows, Reversing
  <2> QED BY <2>3, <2>4, <2>5
<1>6. CASE MarkSent
  <2>1. /\ row' \in Rows /\ row'.status = "SENT" /\ row'.type = row.type
        /\ row'.sentAt = row.sentAt /\ row'.lateAt = row.lateAt /\ row.status = "CREATED" /\ doing.at = "mark"
    BY <1>6, Zenon DEF MarkSent, Typed, Rows, Statuses, HandlerInv
  <2>2. doing' \in Doings /\ doing'.at = "record sent"
    BY <1>6, GoesTo, Zenon DEF MarkSent, Typed, Ats
  <2>3. Typed'
    BY <1>1, <2>1, <2>2, Zenon DEF Typed
  <2>4. HandlerInv'
    BY <1>1, <2>1, <2>2, Zenon DEF HandlerInv
  <2>5. RecordInv' /\ Grows
    BY <1>1, <1>2, <2>1 DEF RecordInv, Grows, Reversing
  <2> QED BY <2>3, <2>4, <2>5
<1> QED BY <1>3, <1>4, <1>5, <1>6

(* RecordStateTransition to SENT, and the send. *)
LEMMA Sending ==
    ASSUME IInv, RecordSent \/ Send
    PROVE  IInv' /\ Grows
<1> USE DEF IInv
<1>1. /\ UNCHANGED <<row, rev, advised, clock>> /\ ~advised /\ row.status = "SENT" /\ row.sentAt # None
      /\ Tos(history) \subseteq {"SENT"} /\ doing.at \in {"record sent", "send"}
  BY Zenon DEF RecordSent, Send, HandlerInv
<1>2. rev = None
  BY <1>1, Zenon DEF RecordInv, Reversing
<1>3. CASE RecordSent
  <2>1. history' \in Seq(Entries) /\ Tos(history') = Tos(history) \cup {"SENT"}
    BY <1>3, Recorded, Zenon DEF RecordSent, Statuses
  <2>2. doing' \in Doings /\ doing'.at = "send"
    BY <1>3, GoesTo, Zenon DEF RecordSent, Typed, Ats
  <2>3. Typed'
    BY <1>1, <2>1, <2>2, Zenon DEF Typed
  <2>4. HandlerInv'
    BY <1>1, <2>1, <2>2, Zenon DEF HandlerInv
  <2>5. RecordInv' /\ Grows
    BY <1>1, <1>2, <2>1, Zenon DEF RecordInv, Grows, Reversing
  <2> QED BY <2>3, <2>4, <2>5
<1>4. CASE Send
  <2>1. PICK o \in Outcomes : doing' = [doing EXCEPT !.at = "decide", !.outcome = Learns(o)]
    BY <1>4, Zenon DEF Send
  <2>2. Learns(o) \in Outcomes /\ Learns(o).status \in Outs
    <3>1. CASE row.type = "COMPLETION" /\ o.rc = "96"
      <4>1. Learns(o) = [Outcome("DECLINED", "96") EXCEPT !.status = "TIMED_OUT", !.rc = ""]
        BY <3>1, OutcomeFields, Zenon DEF Learns
      <4>2. [Outcome("DECLINED", "96") EXCEPT !.status = "TIMED_OUT", !.rc = ""] = Outcome("TIMED_OUT", "")
        <5>1. [Outcome("DECLINED", "96") EXCEPT !.status = "TIMED_OUT", !.rc = ""] \in [status : {"TIMED_OUT"}, rc : {""}]
          BY Zenon DEF Outcome
        <5>2. ASSUME NEW x \in [status : {"TIMED_OUT"}, rc : {""}] PROVE x = [status |-> "TIMED_OUT", rc |-> ""]
          BY Zenon
        <5> QED BY <5>1, <5>2, Zenon DEF Outcome
      <4>3. Learns(o) \in Outcomes
        BY <4>1, <4>2, Zenon DEF Outcomes
      <4> QED BY <4>3, OutcomeFields, Zenon
    <3>2. CASE ~(row.type = "COMPLETION" /\ o.rc = "96")
      <4>1. Learns(o) = o
        BY <3>2, Zenon DEF Learns
      <4> QED BY <4>1, OutcomeFields, Zenon
    <3> QED BY <3>1, <3>2, Zenon
  <2>3. doing' \in Doings /\ doing'.at = "decide" /\ doing'.outcome.status \in Outs
    BY <2>1, <2>2, Zenon DEF Typed, Doings, Ats
  <2>4. history' = history /\ doing.at = "send"
    BY <1>4, Zenon DEF Send
  <2>5. Typed'
    BY <1>1, <2>3, <2>4 DEF Typed
  <2>6. HandlerInv'
    BY <1>1, <2>3, <2>4, Zenon DEF HandlerInv
  <2>7. RecordInv' /\ Grows
    BY <1>1, <1>2, <2>4 DEF RecordInv, Grows, Reversing
  <2> QED BY <2>5, <2>6, <2>7
<1> QED BY <1>3, <1>4

(* recordStatus. *)
LEMMA Deciding ==
    ASSUME IInv, Decide
    PROVE  IInv' /\ Grows
<1> USE DEF IInv
<1>1. /\ UNCHANGED <<history, rev, advised, clock>> /\ doing.at = "decide" /\ doing.outcome.status \in Outs
      /\ row.sentAt # None /\ doing.outcome \in Outcomes \cup {Outcome("NONE", "")} /\ Returned' = Returned
  BY DoingFields, Zenon DEF Decide, HandlerInv, Typed, Returned, issuerVars
<1>2. CASE /\ row.status = "SENT"
           /\ row' = [row EXCEPT !.status = doing.outcome.status, !.rc = doing.outcome.rc]
           /\ doing' = [doing EXCEPT !.at = "record", !.current = doing.outcome.status]
  <2>1. doing.outcome.rc \in Answers /\ doing.outcome.status \in Statuses
    BY <1>1, OutcomeFields, Zenon
  <2>2. /\ row' \in Rows /\ row'.status = doing.outcome.status /\ row'.type = row.type
        /\ row'.sentAt = row.sentAt /\ row'.lateAt = row.lateAt
    BY <1>2, <2>1, Zenon DEF Typed, Rows
  <2>3. /\ doing' \in Doings /\ doing'.at = "record" /\ doing'.current = doing.outcome.status
        /\ doing'.outcome = doing.outcome
    BY <1>2, <2>1, Zenon DEF Typed, Doings, Ats
  <2>4. rev = None /\ Tos(history) \subseteq {"SENT"} /\ ~advised
    BY <1>1, <1>2, Zenon DEF RecordInv, HandlerInv, Reversing
  <2>5. Typed'
    BY <1>1, <2>2, <2>3, Zenon DEF Typed
  <2>6. HandlerInv'
    BY <1>1, <1>2, <2>2, <2>3, <2>4, Zenon DEF HandlerInv
  <2>7. RecordInv' /\ Grows
    BY <1>1, <1>2, <2>2, <2>4, Zenon DEF RecordInv, Grows, Reversing, Outs
  <2> QED BY <2>5, <2>6, <2>7
<1>3. CASE row.status # "SENT" /\ Done /\ UNCHANGED row
  <2>1. doing' \in Doings /\ doing'.at = "done" /\ "TIMED_OUT" \in Tos(history)
    BY <1>1, <1>3, GoesToDone, Zenon DEF HandlerInv
  <2>2. Typed'
    BY <1>1, <1>3, <2>1, Zenon DEF Typed
  <2>3. HandlerInv'
    BY <1>1, <1>3, <2>1, Zenon DEF HandlerInv
  <2>4. RecordInv' /\ Grows
    BY <1>1, <1>3, <2>1, Zenon DEF RecordInv, Grows
  <2> QED BY <2>2, <2>3, <2>4
<1>4. CASE doing' = [doing EXCEPT !.at = "follow up", !.current = "SENT"] /\ UNCHANGED row
  <2>1. doing' \in Doings /\ doing'.at = "follow up" /\ doing'.current = "SENT"
    BY <1>4, Zenon DEF Typed, Doings, Ats, Statuses
  <2>2. Typed'
    BY <1>1, <1>4, <2>1, Zenon DEF Typed
  <2>3. HandlerInv'
    BY <1>1, <1>4, <2>1, Zenon DEF HandlerInv
  <2>4. RecordInv' /\ Grows
    BY <1>1, <1>4, <2>1, Zenon DEF RecordInv, Grows
  <2> QED BY <2>2, <2>3, <2>4
<1> QED BY <1>2, <1>3, <1>4 DEF Decide

(* RecordStateTransition, which may fail. *)
LEMMA Recording ==
    ASSUME IInv, Record
    PROVE  IInv' /\ Grows
<1> USE DEF IInv
<1> DEFINE out == doing.outcome.status
<1>1. /\ UNCHANGED <<row, rev, advised, clock>> /\ Returned' = Returned /\ ~advised /\ doing.at = "record" /\ row.sentAt # None
      /\ out \in Outs /\ Tos(history) \subseteq {"SENT", "REVERSAL_PENDING", "REVERSED"} /\ doing.current = out
      /\ row.status = out \/ (out = "APPROVED" /\ row.status \in Reversing)
  BY Zenon DEF Record, HandlerInv, Returned, issuerVars
<1>2. history' \in Seq(Entries) /\ (Tos(history') = Tos(history) \cup {out} \/ Tos(history') = Tos(history))
  <2>1. CASE Records(out)
    BY <1>1, <2>1, Recorded DEF Statuses, Outs
  <2>2. CASE UNCHANGED history
    BY <2>2 DEF Typed
  <2> QED BY <2>1, <2>2, Zenon DEF Record
<1>3. doing' \in Doings /\ doing'.at = "follow up" /\ doing'.current = out
  BY <1>1, GoesTo, Zenon DEF Record, Typed, Ats
<1>4. Typed'
  BY <1>1, <1>2, <1>3, Zenon DEF Typed
<1>5. HandlerInv'
  BY <1>1, <1>2, <1>3, Zenon DEF HandlerInv
<1>6. RecordInv'
  <2>1. /\ "REVERSAL_PENDING" \in Tos(history') <=> "REVERSAL_PENDING" \in Tos(history)
        /\ "REVERSED" \in Tos(history') <=> "REVERSED" \in Tos(history)
    BY <1>1, <1>2 DEF Outs
  <2>2. /\ "APPROVED" \in Tos(history') => row.status \in {"APPROVED"} \cup Reversing
        /\ "DECLINED" \in Tos(history') => row.status \in {"DECLINED"} \cup Reversing
    BY <1>1, <1>2
  <2> QED BY <1>1, <1>3, <2>1, <2>2, Zenon DEF RecordInv
<1>7. Grows
  BY <1>1, <1>2 DEF Grows
<1> QED BY <1>4, <1>5, <1>6, <1>7

(* ReversalQueuer.Queue, for a handler that ends with it or one that is elsewhere: the row, its
   history and the saf_queue row change together. *)
LEMMA Queueing ==
    ASSUME IInv, NEW from, Queue(from), UNCHANGED <<advised, clock>>, row.sentAt # None,
           \/ doing.at = "follow up" /\ Done /\ row.status \in {"SENT"} \cup Outs
           \/ /\ doing.at \in {"decide", "record", "follow up", "done"} /\ UNCHANGED doing /\ row.status \in Outs
              /\ doing.at = "record" => row.status = "APPROVED"
    PROVE  IInv' /\ Grows
<1> USE DEF IInv
<1>1. /\ row' \in Rows /\ row'.status = "REVERSAL_PENDING" /\ row'.type = row.type
      /\ row'.sentAt = row.sentAt /\ row'.lateAt = row.lateAt /\ row.status \in {"SENT"} \cup Outs
  BY Zenon DEF Queue, Typed, Rows, Statuses
<1>2. history' \in Seq(Entries) /\ Tos(history') = Tos(history) \cup {"REVERSAL_PENDING"}
  BY Recorded, Zenon DEF Queue, Statuses
<1>3. rev' \in Revs /\ rev' # None /\ rev'.status = "PENDING" /\ rev'.sentAt = None /\ rev'.ackedAt = None
  <2>1. rev' \in Revs /\ rev'.status = "PENDING" /\ rev'.sentAt = None /\ rev'.ackedAt = None
    BY Zenon DEF Queue, Revs, Times, RevStatuses
  <2> QED BY <2>1, RevFields, Zenon
<1>4. rev = None /\ "REVERSED" \notin Tos(history)
  BY <1>1, Zenon DEF RecordInv, Reversing, Outs
<1>5. \/ doing.at = "follow up" /\ doing' \in Doings /\ doing'.at = "done"
      \/ /\ UNCHANGED doing /\ doing \in Doings /\ doing.at \in {"decide", "record", "follow up", "done"}
         /\ row.status \in Outs /\ (doing.at = "record" => row.status = "APPROVED")
  BY GoesToDone, Zenon DEF Typed
<1>6. Typed'
  BY <1>1, <1>2, <1>3, <1>5, Zenon DEF Typed
<1>7. HandlerInv'
  <2>1. CASE doing.at = "follow up" /\ doing' \in Doings /\ doing'.at = "done"
    BY <1>1, <2>1, Zenon DEF HandlerInv
  <2>2. CASE UNCHANGED doing /\ doing.at \in {"decide", "record", "follow up", "done"} /\ row.status \in Outs
             /\ (doing.at = "record" => row.status = "APPROVED")
    BY <1>1, <1>2, <2>2, Zenon DEF HandlerInv, Outs, Reversing
  <2> QED BY <1>5, <2>1, <2>2, Zenon
<1>8. RecordInv'
  <2>1. doing'.at \in {"follow up", "done"} \/ doing'.at = doing.at
    BY <1>5, Zenon
  <2> QED BY <1>1, <1>2, <1>3, <1>4, <2>1, Zenon DEF RecordInv, Reversing
<1>9. Grows
  BY <1>1, <1>2, <1>4, Zenon DEF Grows, Outs
<1> QED BY <1>6, <1>7, <1>8, <1>9, Zenon

(* The handler and the sweeper change none of the records. *)
LEMMA Standing ==
    ASSUME IInv, UNCHANGED <<row, history, rev>>, clock' \in Int, Returned => Returned', advised' \in BOOLEAN,
           \/ UNCHANGED doing
           \/ doing.at # "idle" /\ Done,
           \/ advised' => advised
           \/ doing'.at = "done" \/ (doing'.at = "decide" /\ row.status # "SENT")
    PROVE  IInv' /\ Grows
<1> USE DEF IInv
<1>1. \/ doing' = doing /\ doing \in Doings
      \/ doing.at # "idle" /\ doing' \in Doings /\ doing'.at = "done"
  BY GoesToDone DEF Typed
<1>2. Typed'
  BY <1>1 DEF Typed
<1>3. HandlerInv'
  <2>1. CASE doing' = doing
    BY <2>1, ZenonT(30) DEF HandlerInv
  <2>2. CASE doing.at # "idle" /\ doing'.at = "done"
    BY <2>2, Zenon DEF HandlerInv
  <2> QED BY <1>1, <2>1, <2>2
<1>4. RecordInv' /\ Grows
  BY <1>1, Zenon DEF RecordInv, Grows
<1> QED BY <1>2, <1>3, <1>4

(* finalizeSendResult, finalize and reverseIfOwed, and a handler that stops. *)
LEMMA Following ==
    ASSUME IInv, FollowUp \/ Stop
    PROVE  IInv' /\ Grows
<1> USE DEF IInv
<1>1. clock' \in Int /\ Returned' = Returned /\ doing.at # "idle" /\ Done /\ advised \in BOOLEAN /\ UNCHANGED clock
  <2>1. Done /\ doing.at # "idle" /\ UNCHANGED <<clock, held, deciding, missed>>
    BY Zenon DEF FollowUp, Stop, issuerVars
  <2>2. clock \in Int /\ advised \in BOOLEAN
    BY Zenon DEF Typed
  <2> QED BY <2>1, <2>2, Zenon DEF Returned
<1>2. \/ Queue(doing.current) /\ UNCHANGED advised /\ FollowUp
      \/ UNCHANGED <<row, history, rev>> /\ advised' \in BOOLEAN
  <2>1. CASE FollowUp
    BY <2>1, <1>1, Zenon DEF FollowUp
  <2>2. CASE Stop
    BY <2>2, <1>1 DEF Stop
  <2> QED BY <2>1, <2>2
<1>3. CASE Queue(doing.current) /\ UNCHANGED advised /\ FollowUp
  <2>1. doing.at = "follow up" /\ row.status = doing.current /\ row.sentAt # None /\ doing.current \in {"SENT"} \cup Outs
    BY <1>3, Zenon DEF FollowUp, Queue, HandlerInv
  <2> QED BY <1>1, <1>3, <2>1, Queueing, Zenon
<1>4. CASE UNCHANGED <<row, history, rev>> /\ advised' \in BOOLEAN
  <2>1. doing'.at = "done"
    BY <1>1, GoesToDone
  <2> QED BY <1>1, <1>4, <2>1, Standing
<1> QED BY <1>2, <1>3, <1>4

(* MarkTimedOut: the row and its history together, for a request that was sent. *)
LEMMA TimingOut ==
    ASSUME IInv, MarkTimedOut
    PROVE  IInv' /\ Grows
<1> USE DEF IInv
<1>1. /\ UNCHANGED <<clock, doing, rev, advised>> /\ doing.at \in {"decide", "done"} /\ row.status = "SENT"
      /\ row.sentAt # None /\ rev = None
  BY Zenon DEF MarkTimedOut, Orphan, HandlerInv, RecordInv, Reversing
<1>2. /\ row' \in Rows /\ row'.status = "TIMED_OUT" /\ row'.type = row.type
      /\ row'.sentAt = row.sentAt /\ row'.lateAt = row.lateAt
  BY DEF MarkTimedOut, Typed, Rows, Statuses
<1>3. history' \in Seq(Entries) /\ Tos(history') = Tos(history) \cup {"TIMED_OUT"}
  BY Recorded DEF MarkTimedOut, Statuses
<1>4. Typed'
  BY <1>1, <1>2, <1>3 DEF Typed
<1>5. HandlerInv'
  BY <1>1, <1>2, <1>3, Zenon DEF HandlerInv
<1>6. RecordInv' /\ Grows
  BY <1>1, <1>2, <1>3 DEF RecordInv, Grows, Reversing
<1> QED BY <1>4, <1>5, <1>6

(* The sweeper queues what an orphan owes, and cancelPurchase a reversal. *)
LEMMA Owing ==
    ASSUME IInv, SweepQueues \/ CancelPurchase
    PROVE  IInv' /\ Grows
<1> USE DEF IInv
<1>1. CASE SweepQueues
  <2>1. /\ UNCHANGED <<clock, doing>> /\ doing.at \in {"decide", "done"} /\ row.status \in {"TIMED_OUT", "DECLINED"}
        /\ row.sentAt # None /\ Returned' = Returned
    BY <1>1, Zenon DEF SweepQueues, Orphan, HandlerInv, Returned, issuerVars
  <2>2. CASE row.type = "COMPLETION"
    <3>1. advised' = TRUE /\ UNCHANGED <<row, history, rev>> /\ clock' \in Int
      BY <1>1, <2>2 DEF SweepQueues, Typed
    <3> QED BY <2>1, <3>1, Standing
  <2>3. CASE row.type # "COMPLETION"
    <3>1. Queue(row.status) /\ UNCHANGED advised
      BY <1>1, <2>3 DEF SweepQueues
    <3> QED BY <2>1, <3>1, Queueing, Zenon DEF Outs
  <2> QED BY <2>2, <2>3
<1>2. CASE CancelPurchase
  <2>1. /\ UNCHANGED <<clock, doing, advised>> /\ row.status = "APPROVED" /\ Queue("APPROVED") /\ row.sentAt # None
    BY <1>2, Zenon DEF CancelPurchase, HandlerInv
  <2>2. doing.at \in {"decide", "record", "follow up", "done"}
    BY <2>1, Zenon DEF HandlerInv, Typed, Doings, Ats
  <2> QED BY <2>1, <2>2, Queueing, Zenon DEF Outs
<1> QED BY <1>1, <1>2

(* assignNetworkIdentity and retryLater: only the saf_queue row changes, and a time once stored stays. *)
LEMMA Trying ==
    ASSUME IInv, AssignNetworkIdentity \/ RetryLater
    PROVE  IInv' /\ Grows
<1> USE DEF IInv
<1>1. /\ UNCHANGED <<clock, doing, row, history, advised>> /\ rev \in Revs /\ rev # None
      /\ rev.status \in {"PENDING", "IN_FLIGHT"}
  BY DEF AssignNetworkIdentity, RetryLater, Typed
<1>2. /\ rev' \in Revs /\ rev' # None /\ rev'.status \in {"IN_FLIGHT", "DEAD"} /\ rev'.ackedAt = rev.ackedAt
      /\ rev'.sentAt # None
  <2>1. CASE AssignNetworkIdentity
    <3>1. SecondOf(clock) \in Int
      BY JourneyAssumption DEF SecondOf, Typed
    <3>2. SecondOf(clock) # None
      BY <3>1, JourneyAssumption
    <3>3. /\ rev' \in Revs /\ rev'.status = "IN_FLIGHT" /\ rev'.ackedAt = rev.ackedAt /\ rev'.sentAt = SecondOf(clock)
      BY <1>1, <2>1, <3>1, Zenon DEF AssignNetworkIdentity, Revs, Times, RevStatuses
    <3> QED BY <3>2, <3>3, RevFields
  <2>2. CASE RetryLater
    <3>1. PICK status \in {"IN_FLIGHT", "DEAD"} : rev' = [rev EXCEPT !.status = status]
      BY <2>2 DEF RetryLater
    <3>2. /\ rev' \in Revs /\ rev'.status = status /\ rev'.ackedAt = rev.ackedAt /\ rev'.sentAt = rev.sentAt
      BY <1>1, <3>1 DEF Revs, Times, RevStatuses
    <3> QED BY <2>2, <3>2, RevFields DEF RetryLater
  <2> QED BY <2>1, <2>2
<1>3. row.status # "REVERSED"
  BY <1>1, Zenon DEF RecordInv
<1>4. Typed'
  BY <1>1, <1>2 DEF Typed
<1>5. HandlerInv'
  BY <1>1, ZenonT(30) DEF HandlerInv
<1>6. RecordInv' /\ Grows
  BY <1>1, <1>2, <1>3, Zenon DEF RecordInv, Grows
<1> QED BY <1>4, <1>5, <1>6

(* settle and MarkAcked of a 0420: the advice, the row and the history together. *)
LEMMA Acking ==
    ASSUME IInv, MarkAcked
    PROVE  IInv' /\ Grows
<1> USE DEF IInv
<1>1. /\ UNCHANGED <<clock, doing, advised>> /\ rev \in Revs /\ rev # None /\ Returned'
      /\ rev.status = "IN_FLIGHT" /\ rev.sentAt # None /\ clock \in Int
  BY Zenon DEF MarkAcked, Typed, Returned
<1>2. /\ rev' \in Revs /\ rev' # None /\ rev'.status = "ACKED" /\ rev'.ackedAt # None /\ rev'.sentAt = rev.sentAt
  <2>1. /\ rev' \in Revs /\ rev'.status = "ACKED" /\ rev'.ackedAt = clock /\ rev'.sentAt = rev.sentAt
    BY <1>1, Zenon DEF MarkAcked, Revs, Times, RevStatuses
  <2> QED BY <1>1, <2>1, RevFields, JourneyAssumption
<1>3. /\ row' \in Rows /\ row'.status = "REVERSED" /\ row'.type = row.type
      /\ row'.sentAt = row.sentAt /\ row'.lateAt = row.lateAt
  BY DEF MarkAcked, Typed, Rows, Statuses
<1>4. history' \in Seq(Entries) /\ Tos(history') = Tos(history) \cup {"REVERSED"}
  BY Recorded DEF MarkAcked, Statuses
<1>5. row.status = "REVERSAL_PENDING" /\ "REVERSAL_PENDING" \in Tos(history)
  BY <1>1, Zenon DEF RecordInv, Reversing
<1>6. Typed'
  BY <1>1, <1>2, <1>3, <1>4 DEF Typed
<1>7. HandlerInv'
  <2>1. doing.at = "record" => doing.outcome.status = "APPROVED"
    BY <1>5 DEF HandlerInv, Outs
  <2> QED BY <1>1, <1>3, <1>4, <1>5, <2>1, Zenon DEF HandlerInv, Reversing
<1>8. RecordInv' /\ Grows
  BY <1>1, <1>2, <1>3, <1>4, <1>5, Zenon DEF RecordInv, Grows, Reversing
<1> QED BY <1>6, <1>7, <1>8

(* MarkAcked of a 0220. *)
LEMMA AckingAdvice ==
    ASSUME IInv, AdviceAcked
    PROVE  IInv' /\ Grows
<1> USE DEF IInv
<1>1. /\ UNCHANGED <<clock, doing, rev, advised>> /\ advised /\ row.status = "TIMED_OUT"
      /\ doing.at \in {"decide", "follow up", "done"} /\ row.sentAt # None /\ rev = None
      /\ doing.at = "decide" => "TIMED_OUT" \in Tos(history)
  BY Zenon DEF AdviceAcked, HandlerInv, RecordInv, Reversing
<1>2. /\ row' \in Rows /\ row'.status = "APPROVED" /\ row'.type = row.type
      /\ row'.sentAt = row.sentAt /\ row'.lateAt = row.lateAt
  BY Zenon DEF AdviceAcked, Typed, Rows, Statuses, Answers
<1>3. history' \in Seq(Entries) /\ Tos(history') = Tos(history) \cup {"APPROVED"}
  BY Recorded DEF AdviceAcked, Statuses
<1>4. Typed'
  BY <1>1, <1>2, <1>3, Zenon DEF Typed
<1>5. HandlerInv'
  BY <1>1, <1>2, <1>3, Zenon DEF HandlerInv
<1>6. RecordInv' /\ Grows
  BY <1>1, <1>2, <1>3, Zenon DEF RecordInv, Grows, Reversing
<1> QED BY <1>4, <1>5, <1>6

(* RecordLateResponse, the clock, and an issuer that decides late: what it books then, the 0420 has
   missed. *)
LEMMA Passing ==
    ASSUME IInv, RecordLateResponse \/ Tick \/ IssuerDecides
    PROVE  IInv' /\ Grows
<1> USE DEF IInv
<1>1. CASE RecordLateResponse
  <2>1. UNCHANGED <<clock, doing, history, rev, advised>> /\ Returned' = Returned /\ clock \in Int /\ clock # None
    BY <1>1, JourneyAssumption DEF RecordLateResponse, Typed, Returned, issuerVars
  <2>2. /\ row' \in Rows /\ row'.status = row.status /\ row'.type = row.type /\ row'.sentAt = row.sentAt
        /\ row'.rc = row.rc /\ (row.lateAt # None => row'.lateAt # None)
    <3>1. CASE row' = row
      BY <3>1 DEF Typed
    <3>2. CASE row' = [row EXCEPT !.lateAt = clock]
      BY <2>1, <3>2 DEF Typed, Rows, Times
    <3> QED BY <1>1, <3>1, <3>2 DEF RecordLateResponse
  <2>3. Typed'
    BY <2>1, <2>2 DEF Typed
  <2>4. HandlerInv'
    BY <2>1, <2>2, Zenon DEF HandlerInv
  <2>5. RecordInv' /\ Grows
    BY <2>1, <2>2, Zenon DEF RecordInv, Grows
  <2> QED BY <2>3, <2>4, <2>5
<1>2. CASE Tick
  <2>1. clock' \in Int /\ UNCHANGED <<doing, row, history, rev, advised>> /\ Returned' = Returned /\ advised' \in BOOLEAN
    BY <1>2 DEF Tick, Typed, Returned, issuerVars
  <2> QED BY <2>1, Standing
<1>3. CASE IssuerDecides
  <2>1. clock' \in Int /\ UNCHANGED <<doing, row, history, rev, advised>> /\ advised' \in BOOLEAN
    BY <1>3, Zenon DEF IssuerDecides, Typed
  <2>2. Returned => Returned'
    BY <1>3, Zenon DEF IssuerDecides, Returned
  <2> QED BY <2>1, <2>2, Standing
<1> QED BY <1>1, <1>2, <1>3

(* A time is still one, or still missing, when it is moved. *)
LEMMA EarlierTimes ==
    ASSUME NEW u \in Times
    PROVE  /\ Earlier(u) \in Times /\ (Earlier(u) = None <=> u = None)
           /\ u \in Int => Earlier(u) \in Int
<1>1. CASE u = None
  BY <1>1, JourneyAssumption DEF Earlier, Times
<1>2. CASE u # None
  <2>1. u \in Int /\ Earlier(u) = u - Shift /\ Shift \in Int
    BY <1>2, JourneyAssumption DEF Earlier, Times
  <2>2. Earlier(u) \in Int
    BY <2>1
  <2> QED BY <1>2, <2>2, JourneyAssumption DEF Times
<1> QED BY <1>1, <1>2

(* Backdate moves the stored times and nothing else. *)
LEMMA Backdating ==
    ASSUME IInv, Backdate
    PROVE  IInv' /\ Grows
<1> USE DEF IInv
<1>1. UNCHANGED <<clock, doing, advised>> /\ Returned' = Returned
  BY DEF Backdate, Returned, issuerVars
<1>2. /\ row' \in Rows /\ row'.status = row.status /\ row'.type = row.type /\ row'.rc = row.rc
      /\ row'.sentAt = None <=> row.sentAt = None
      /\ row'.lateAt = None <=> row.lateAt = None
  <2>1. /\ Earlier(row.createdAt) \in Int /\ Earlier(row.sentAt) \in Times /\ Earlier(row.lateAt) \in Times
        /\ Earlier(row.sentAt) = None <=> row.sentAt = None
        /\ Earlier(row.lateAt) = None <=> row.lateAt = None
    BY EarlierTimes, RowFields, Zenon DEF Typed, Times
  <2>2. row' = [row EXCEPT !.createdAt = Earlier(row.createdAt), !.sentAt = Earlier(row.sentAt),
                           !.lateAt = Earlier(row.lateAt)]
    BY DEF Backdate
  <2> QED BY <2>1, <2>2, Zenon DEF Typed, Rows
<1>3. history' \in Seq(Entries) /\ Tos(history') = Tos(history)
  <2>1. /\ history \in Seq(Entries) /\ Len(history) \in Nat /\ DOMAIN history = 1..Len(history)
        /\ history' = [i \in DOMAIN history |-> [history[i] EXCEPT !.at = Earlier(history[i].at)]]
    BY LenProperties DEF Backdate, Typed
  <2>2. ASSUME NEW i \in DOMAIN history
        PROVE  history'[i] \in Entries /\ history'[i].to = history[i].to
    <3>1. history[i] \in Entries
      BY <2>1, ElementOfSeq
    <3>2. Earlier(history[i].at) \in Int
      BY <3>1, EarlierTimes DEF Entries, Times
    <3>3. history'[i] = [history[i] EXCEPT !.at = Earlier(history[i].at)]
      BY <2>1
    <3> QED BY <3>1, <3>2, <3>3 DEF Entries
  <2>3. DOMAIN history' = DOMAIN history
    BY <2>1
  <2>4. history' \in Seq(Entries)
    <3>1. history' \in [1..Len(history) -> Entries]
      BY <2>1, <2>2, <2>3
    <3> QED BY <2>1, <3>1
  <2> QED BY <2>2, <2>3, <2>4 DEF Tos
<1>4. /\ rev' \in Revs \cup {None} /\ (rev' = None <=> rev = None)
      /\ rev # None => /\ rev'.status = rev.status /\ rev'.sentAt = rev.sentAt
                       /\ rev'.ackedAt = None <=> rev.ackedAt = None
  <2>1. CASE rev = None
    BY <2>1 DEF Backdate
  <2>2. CASE rev # None
    <3>1. rev \in Revs /\ rev' = [rev EXCEPT !.ackedAt = Earlier(rev.ackedAt)]
      BY <2>2 DEF Backdate, Typed
    <3>2. Earlier(rev.ackedAt) \in Times /\ (Earlier(rev.ackedAt) = None <=> rev.ackedAt = None)
      BY <3>1, EarlierTimes, RevFields
    <3>3. rev' \in Revs /\ rev'.status = rev.status /\ rev'.sentAt = rev.sentAt /\ rev'.ackedAt = Earlier(rev.ackedAt)
      BY <3>1, <3>2 DEF Revs
    <3> QED BY <2>2, <3>2, <3>3, RevFields
  <2> QED BY <2>1, <2>2
<1>5. Typed'
  BY <1>1, <1>2, <1>3, <1>4 DEF Typed
<1>6. HandlerInv'
  BY <1>1, <1>2, <1>3, Zenon DEF HandlerInv
<1>7. RecordInv' /\ Grows
  BY <1>1, <1>2, <1>3, <1>4, Zenon DEF RecordInv, Grows
<1> QED BY <1>5, <1>6, <1>7

-----------------------------------------------------------------------------
(***************************************************************************)
(* The three reads.                                                        *)
(***************************************************************************)
Views == [at : {"idle", "history", "reversal"}, row : Rows \cup {None}, history : Seq(Entries)]

(* What was seen of the history, at any time, stays the story: an outcome is not replaced by one that
   is told before it. *)
Settled(seen) ==
    /\ seen \subseteq Tos(history)
    /\ "REVERSED" \in seen => "REVERSAL_PENDING" \in seen
    /\ "TIMED_OUT" \notin seen /\ seen \cap {"APPROVED", "DECLINED"} # {} => "TIMED_OUT" \notin Tos(history)
    /\ "TIMED_OUT" \notin seen /\ "APPROVED" \notin seen /\ "DECLINED" \in seen => "APPROVED" \notin Tos(history)

(* What the reads made so far have to do with the records. *)
ViewInv ==
    /\ view \in Views
    /\ view.at # "idle" =>
          /\ view.row \in Rows /\ row.status # "NONE" /\ view.row.type = row.type
          /\ view.row.sentAt = None <=> row.sentAt = None
          /\ view.row.status = "REVERSED" => row.status = "REVERSED"
          /\ view.row.lateAt # None => row.lateAt # None
    /\ view.at = "reversal" =>
          /\ Settled(Tos(view.history))
          /\ view.row.status = "REVERSED" => "REVERSED" \in Tos(view.history)
          /\ Tos(view.history) # {} => view.row.sentAt # None

(* What the reads behind the journey last answered have to do with the records, and with the reads
   made since. *)
Tells(b) ==
    /\ row.status # "NONE" /\ b.row.type = row.type
    /\ b.row.sentAt = None <=> row.sentAt = None
    /\ Settled(Tos(b.history))
    /\ b.row.status = "REVERSED" => "REVERSED" \in Tos(b.history)
    /\ Tos(b.history) # {} => b.row.sentAt # None
    /\ b.row.lateAt # None => row.lateAt # None /\ (view.at # "idle" => view.row.lateAt # None)
    /\ b.rev = None <=> "REVERSAL_PENDING" \notin Tos(b.history)
    /\ b.rev # None => /\ rev # None
                       /\ b.rev.sentAt # None => rev.sentAt # None
                       /\ b.rev.ackedAt # None => row.status = "REVERSED" /\ b.rev.sentAt # None
    /\ "REVERSED" \in Tos(b.history) => b.rev # None /\ b.rev.ackedAt # None
    /\ view.at = "reversal" => Tos(b.history) \subseteq Tos(view.history)

ShownInv == shown # None => \E b \in Books : shown = BuildJourney(b) /\ Tells(b)

JourneyInv == IInv /\ ViewInv /\ ShownInv

(* The story stays settled when the records grow. *)
LEMMA SettledStays ==
    ASSUME NEW seen, Settled(seen), Grows
    PROVE  Settled(seen)'
<1> DEFINE old == Tos(history)
           new == Tos(history')
<1>1. /\ old \subseteq new
      /\ "TIMED_OUT" \notin old /\ old \cap {"APPROVED", "DECLINED"} # {} => "TIMED_OUT" \notin new
      /\ "TIMED_OUT" \notin old /\ "APPROVED" \notin old /\ "DECLINED" \in old => "APPROVED" \notin new
  BY DEF Grows
<1>2. /\ seen \subseteq old
      /\ "REVERSED" \in seen => "REVERSAL_PENDING" \in seen
      /\ "TIMED_OUT" \notin seen /\ seen \cap {"APPROVED", "DECLINED"} # {} => "TIMED_OUT" \notin old
      /\ "TIMED_OUT" \notin seen /\ "APPROVED" \notin seen /\ "DECLINED" \in seen => "APPROVED" \notin old
  BY DEF Settled
<1> HIDE DEF old, new
<1>3. seen \subseteq new
  BY <1>1, <1>2
<1>4. ASSUME "TIMED_OUT" \notin seen, seen \cap {"APPROVED", "DECLINED"} # {}
      PROVE  "TIMED_OUT" \notin old /\ "TIMED_OUT" \notin new
  BY <1>1, <1>2, <1>4
<1>5. ASSUME "TIMED_OUT" \notin seen, "APPROVED" \notin seen, "DECLINED" \in seen
      PROVE  "APPROVED" \notin new
  <2>1. "TIMED_OUT" \notin old
    BY <1>4, <1>5
  <2> QED BY <1>1, <1>2, <1>5, <2>1
<1> QED BY <1>2, <1>3, <1>4, <1>5 DEF Settled, new

(* The reads keep their meaning when the records grow. *)
LEMMA ReadsStand ==
    ASSUME ViewInv, ShownInv, Grows, UNCHANGED <<view, shown>>
    PROVE  ViewInv' /\ ShownInv'
<1>1. /\ row'.type = row.type
      /\ row.status # "NONE" => row'.status # "NONE" /\ (row'.sentAt = None <=> row.sentAt = None)
      /\ row.status = "REVERSED" => row'.status = "REVERSED"
      /\ row.lateAt # None => row'.lateAt # None
      /\ rev # None => rev' # None /\ (rev.sentAt # None => rev'.sentAt # None)
  BY SMTT(30) DEF Grows
<1>2. ViewInv'
  <2>1. view.at = "reversal" => Settled(Tos(view.history))'
    BY SettledStays, Zenon DEF ViewInv
  <2> QED BY <1>1, <2>1 DEF ViewInv
<1>3. ASSUME NEW b \in Books, Tells(b)
      PROVE  Tells(b)'
  <2>1. Settled(Tos(b.history))'
    BY <1>3, SettledStays, Zenon DEF Tells
  <2> QED BY <1>1, <1>3, <2>1, Zenon DEF Tells
<1>4. ShownInv'
  BY <1>3 DEF ShownInv
<1> QED BY <1>2, <1>4

(* The first read: Get. *)
LEMMA ReadsRow ==
    ASSUME JourneyInv, GetRow
    PROVE  ViewInv' /\ ShownInv'
<1>1. /\ UNCHANGED <<row, history, rev, shown>> /\ view' = [NoView EXCEPT !.at = "history", !.row = row]
      /\ row.status # "NONE" /\ view.at = "idle" /\ row \in Rows
  BY DEF GetRow, recordVars, JourneyInv, IInv, Typed
<1>2. view' \in Views /\ view'.at = "history" /\ view'.row = row
  <2>1. NoView \in Views
    BY DEF NoView, Views
  <2> QED BY <1>1, <2>1, Zenon DEF Views
<1>3. ViewInv'
  BY <1>1, <1>2 DEF ViewInv
<1>4. ASSUME NEW b \in Books, Tells(b)
      PROVE  Tells(b)'
  BY <1>1, <1>2, <1>4 DEF Tells, Settled
<1> QED BY <1>1, <1>3, <1>4 DEF ShownInv, JourneyInv

(* The second read: ListStateHistory. *)
LEMMA ReadsHistory ==
    ASSUME JourneyInv, ListStateHistory
    PROVE  ViewInv' /\ ShownInv'
<1>1. /\ UNCHANGED <<row, history, rev, shown>> /\ view' = [view EXCEPT !.at = "reversal", !.history = history]
      /\ view.at = "history" /\ view \in Views /\ history \in Seq(Entries)
  BY DEF ListStateHistory, recordVars, JourneyInv, IInv, Typed, ViewInv
<1>2. view' \in Views /\ view'.at = "reversal" /\ view'.row = view.row /\ view'.history = history
  BY <1>1, Zenon DEF Views
<1>3. /\ view.row \in Rows /\ row.status # "NONE" /\ view.row.type = row.type
      /\ view.row.sentAt = None <=> row.sentAt = None
      /\ view.row.status = "REVERSED" => row.status = "REVERSED"
      /\ view.row.lateAt # None => row.lateAt # None
  BY <1>1 DEF JourneyInv, ViewInv
<1>4. /\ "REVERSED" \in Tos(history) => "REVERSAL_PENDING" \in Tos(history)
      /\ row.status = "REVERSED" => "REVERSED" \in Tos(history)
      /\ Tos(history) # {} => row.sentAt # None
  BY Zenon DEF JourneyInv, IInv, RecordInv, HandlerInv, Reversing
<1>5. Settled(Tos(view.history))'
  BY <1>1, <1>2, <1>4 DEF Settled
<1>6. ViewInv'
  BY <1>1, <1>2, <1>3, <1>4, <1>5 DEF ViewInv
<1>7. ASSUME NEW b \in Books, Tells(b)
      PROVE  Tells(b)'
  <2>1. Settled(Tos(b.history))' /\ Tos(b.history) \subseteq Tos(history)
    BY <1>1, <1>7 DEF Tells, Settled
  <2> QED BY <1>1, <1>2, <1>7, <2>1 DEF Tells
<1> QED BY <1>1, <1>6, <1>7 DEF ShownInv, JourneyInv

(* The book findReversal completes: the reversal is there when the history read has one, and is
   confirmed when it has that. *)
LEMMA BookRead ==
    ASSUME JourneyInv, view.at = "reversal", NEW b,
           b = [row |-> view.row, history |-> view.history,
                rev |-> IF Reached(view, "REVERSAL_PENDING") = None THEN None ELSE rev]
    PROVE  /\ b \in Books /\ b.row = view.row /\ b.history = view.history
           /\ b.rev = None <=> "REVERSAL_PENDING" \notin Tos(view.history)
           /\ b.rev # None => b.rev = rev
           /\ b.rev # None => (b.rev.ackedAt # None => row.status = "REVERSED" /\ b.rev.sentAt # None)
           /\ "REVERSED" \in Tos(view.history) => b.rev # None /\ b.rev.ackedAt # None
<1>1. /\ view.row \in Rows /\ view.history \in Seq(Entries) /\ rev \in Revs \cup {None} /\ Settled(Tos(view.history))
  BY SMTT(30) DEF JourneyInv, IInv, Typed, ViewInv, Views
<1>2. Reached(view, "REVERSAL_PENDING") # None <=> "REVERSAL_PENDING" \in Tos(view.history)
  BY <1>1, ReachedFacts
<1>3. /\ b.row = view.row /\ b.history = view.history
      /\ b.rev = IF "REVERSAL_PENDING" \in Tos(view.history) THEN rev ELSE None
      /\ b \in Books
  <2>1. b = [row |-> view.row, history |-> view.history,
             rev |-> IF "REVERSAL_PENDING" \in Tos(view.history) THEN rev ELSE None]
    BY <1>2
  <2> QED BY <1>1, <2>1, SMTT(30) DEF Books
<1>4. "REVERSAL_PENDING" \in Tos(view.history) => rev # None
  BY <1>1, Zenon DEF Settled, JourneyInv, IInv, RecordInv
<1>5. "REVERSED" \in Tos(view.history) => row.status = "REVERSED" /\ "REVERSAL_PENDING" \in Tos(view.history)
  BY <1>1, Zenon DEF Settled, JourneyInv, IInv, RecordInv
<1>6. rev # None => (rev.ackedAt # None <=> row.status = "REVERSED") /\ (row.status = "REVERSED" => rev.sentAt # None)
  BY Zenon DEF JourneyInv, IInv, RecordInv
<1> QED BY <1>3, <1>4, <1>5, <1>6

(* The third read, findReversal, and the answer. *)
LEMMA ReadsReversal ==
    ASSUME JourneyInv, FindReversal
    PROVE  ViewInv' /\ ShownInv'
<1> DEFINE b == [row |-> view.row, history |-> view.history,
                 rev |-> IF Reached(view, "REVERSAL_PENDING") = None THEN None ELSE rev]
<1>1. /\ UNCHANGED <<row, history, rev>> /\ view' = NoView /\ shown' = BuildJourney(b) /\ view.at = "reversal"
  BY DEF FindReversal, recordVars
<1>2. /\ b \in Books /\ b.row = view.row /\ b.history = view.history
      /\ b.rev = None <=> "REVERSAL_PENDING" \notin Tos(view.history)
      /\ b.rev # None => b.rev = rev
      /\ b.rev # None => (b.rev.ackedAt # None => row.status = "REVERSED" /\ b.rev.sentAt # None)
      /\ "REVERSED" \in Tos(view.history) => b.rev # None /\ b.rev.ackedAt # None
  BY <1>1, BookRead, Zenon
<1>3. PICK x : x = b
  BY Zenon
<1> HIDE DEF b
<1>4. view' \in Views /\ view'.at = "idle"
  BY <1>1 DEF NoView, Views
<1>5. ViewInv'
  BY <1>4 DEF ViewInv
<1>6. Tells(x)'
  <2>1. /\ Settled(Tos(x.history))' /\ row.status # "NONE" /\ view.row.type = row.type
        /\ view.row.sentAt = None <=> row.sentAt = None
        /\ view.row.status = "REVERSED" => "REVERSED" \in Tos(view.history)
        /\ Tos(view.history) # {} => view.row.sentAt # None
        /\ view.row.lateAt # None => row.lateAt # None
    BY <1>1, <1>2, <1>3, Zenon DEF JourneyInv, ViewInv, Settled
  <2> QED BY <1>1, <1>2, <1>3, <1>4, <2>1, Zenon DEF Tells
<1>7. x \in Books /\ shown' = BuildJourney(x)
  BY <1>1, <1>2, <1>3, Zenon
<1> QED BY <1>5, <1>6, <1>7 DEF ShownInv

(* Nothing is recorded, read or shown at first. *)
LEMMA JourneyInvInit == Init => JourneyInv
<1> SUFFICES ASSUME Init PROVE JourneyInv
  BY Zenon
<1>0. /\ clock = Start /\ doing = Idle /\ history = <<>> /\ rev = None /\ advised = FALSE
      /\ view = NoView /\ shown = None
  BY Zenon DEF Init
<1>1. PICK type \in Types : row = [type |-> type, status |-> "NONE", rc |-> "", createdAt |-> Start,
                                  sentAt |-> None, lateAt |-> None]
  BY Zenon DEF Init
<1>2. row \in Rows /\ row.status = "NONE" /\ row.sentAt = None
  <2>1. Start \in Int
    BY JourneyAssumption
  <2> QED BY <1>1, <2>1, Zenon DEF Rows, Statuses, Answers, Times
<1>3. doing \in Doings /\ doing.at = "idle"
  BY <1>0, Zenon DEF Idle, Doings, Ats, Statuses
<1>4. history \in Seq(Entries) /\ Tos(history) = {}
  BY <1>0 DEF Tos
<1>5. clock \in Int /\ rev = None /\ advised = FALSE /\ shown = None
  <2>1. Start \in Int
    BY JourneyAssumption
  <2> QED BY <1>0, <2>1
<1>6. view \in Views /\ view.at = "idle"
  BY <1>0 DEF NoView, Views
<1>7. Typed
  BY <1>2, <1>3, <1>4, <1>5, Zenon DEF Typed
<1>8. HandlerInv
  BY <1>2, <1>3, <1>4, <1>5, Zenon DEF HandlerInv
<1>9. RecordInv
  BY <1>2, <1>4, <1>5 DEF RecordInv, Reversing
<1> QED BY <1>5, <1>6, <1>7, <1>8, <1>9 DEF JourneyInv, IInv, ViewInv, ShownInv

(* Every step keeps the invariant. *)
LEMMA JourneyInvStep == JourneyInv /\ [Next]_vars => JourneyInv'
<1> SUFFICES ASSUME JourneyInv, [Next]_vars PROVE JourneyInv'
  OBVIOUS
<1>0. IInv /\ ViewInv /\ ShownInv
  BY DEF JourneyInv
<1>1. CASE Tick \/ IssuerDecides \/ Handler \/ Sweeper \/ CancelPurchase \/ Worker \/ RecordLateResponse \/ Backdate
  <2>1. CASE Tick \/ RecordLateResponse \/ IssuerDecides
    <3>1. UNCHANGED <<view, shown>>
      BY <2>1, Zenon DEF Tick, RecordLateResponse, IssuerDecides, readerVars
    <3> QED BY <1>0, <2>1, <3>1, Passing, ReadsStand DEF JourneyInv
  <2>2. CASE LinkDown \/ Begin \/ Insert \/ MarkSent
    <3>1. UNCHANGED <<view, shown>>
      BY <2>2, Zenon DEF LinkDown, Begin, Insert, MarkSent, readerVars
    <3> QED BY <1>0, <2>2, <3>1, BeforeSend, ReadsStand DEF JourneyInv
  <2>3. CASE RecordSent \/ Send
    <3>1. UNCHANGED <<view, shown>>
      BY <2>3, Zenon DEF RecordSent, Send, readerVars
    <3> QED BY <1>0, <2>3, <3>1, Sending, ReadsStand DEF JourneyInv
  <2>4. CASE Decide
    <3>1. UNCHANGED <<view, shown>>
      BY <2>4 DEF Decide, readerVars
    <3> QED BY <1>0, <2>4, <3>1, Deciding, ReadsStand DEF JourneyInv
  <2>5. CASE Record
    <3>1. UNCHANGED <<view, shown>>
      BY <2>5, Zenon DEF Record, readerVars
    <3> QED BY <1>0, <2>5, <3>1, Recording, ReadsStand DEF JourneyInv
  <2>6. CASE FollowUp \/ Stop
    <3>1. UNCHANGED <<view, shown>>
      BY <2>6, Zenon DEF FollowUp, Stop, readerVars
    <3> QED BY <1>0, <2>6, <3>1, Following, ReadsStand DEF JourneyInv
  <2>7. CASE MarkTimedOut
    <3>1. UNCHANGED <<view, shown>>
      BY <2>7 DEF MarkTimedOut, readerVars
    <3> QED BY <1>0, <2>7, <3>1, TimingOut, ReadsStand DEF JourneyInv
  <2>8. CASE SweepQueues \/ CancelPurchase
    <3>1. UNCHANGED <<view, shown>>
      BY <2>8 DEF SweepQueues, CancelPurchase, readerVars
    <3> QED BY <1>0, <2>8, <3>1, Owing, ReadsStand DEF JourneyInv
  <2>9. CASE AssignNetworkIdentity \/ RetryLater
    <3>1. UNCHANGED <<view, shown>>
      BY <2>9 DEF AssignNetworkIdentity, RetryLater, readerVars
    <3> QED BY <1>0, <2>9, <3>1, Trying, ReadsStand DEF JourneyInv
  <2>10. CASE MarkAcked
    <3>1. UNCHANGED <<view, shown>>
      BY <2>10 DEF MarkAcked, readerVars
    <3> QED BY <1>0, <2>10, <3>1, Acking, ReadsStand DEF JourneyInv
  <2>11. CASE AdviceAcked
    <3>1. UNCHANGED <<view, shown>>
      BY <2>11 DEF AdviceAcked, readerVars
    <3> QED BY <1>0, <2>11, <3>1, AckingAdvice, ReadsStand DEF JourneyInv
  <2>12. CASE Backdate
    <3>1. UNCHANGED <<view, shown>>
      BY <2>12 DEF Backdate, readerVars
    <3> QED BY <1>0, <2>12, <3>1, Backdating, ReadsStand DEF JourneyInv
  <2> QED BY <1>1, <2>1, <2>2, <2>3, <2>4, <2>5, <2>6, <2>7, <2>8, <2>9, <2>10, <2>11, <2>12
          DEF Handler, Sweeper, Worker
<1>2. ASSUME UNCHANGED <<clock, doing, row, history, rev, advised, issuerVars>>
      PROVE  IInv' /\ Grows
  <2>1. clock' \in Int /\ advised' \in BOOLEAN /\ Returned' = Returned
    BY <1>0, <1>2 DEF IInv, Typed, Returned, issuerVars
  <2> QED BY <1>0, <1>2, <2>1, Standing
<1>3. CASE Reader
  <2>1. UNCHANGED <<clock, doing, row, history, rev, advised, issuerVars>>
    BY <1>3 DEF Reader, GetRow, ListStateHistory, FindReversal, recordVars
  <2>2. ViewInv' /\ ShownInv'
    BY <1>3, ReadsRow, ReadsHistory, ReadsReversal DEF Reader
  <2> QED BY <1>2, <2>1, <2>2 DEF JourneyInv
<1>4. CASE UNCHANGED vars
  <2>1. UNCHANGED <<clock, doing, row, history, rev, advised, issuerVars>> /\ UNCHANGED <<view, shown>>
    BY <1>4, Zenon DEF vars, readerVars
  <2> QED BY <1>0, <1>2, <2>1, ReadsStand DEF JourneyInv
<1> QED BY <1>1, <1>3, <1>4 DEF Next

(* The invariant holds of every behaviour. *)
THEOREM JourneyInductive == Spec => []JourneyInv
BY JourneyInvInit, JourneyInvStep, PTL DEF Spec

-----------------------------------------------------------------------------
(***************************************************************************)
(* What a journey tells.                                                   *)
(***************************************************************************)
(* The journey of a book. *)
LEMMA JourneyOf ==
    ASSUME NEW b
    PROVE  /\ BuildJourney(b).status = b.row.status /\ BuildJourney(b).reached = Tos(b.history)
           /\ BuildJourney(b).steps = Steps(b) /\ BuildJourney(b).money = MoneyRows(b.row.type, Steps(b))
BY Zenon DEF BuildJourney, Tos

(* outcomeSteps, step by step. *)
LEMMA OutcomeMembers ==
    ASSUME NEW sent \in BOOLEAN, NEW seen
    PROVE  /\ OutcomeCodes(sent, seen)
                 \subseteq {"POS_RESULT", "NO_RESPONSE", "ISSUER_APPROVED", "ISSUER_DECLINED", "REVERSAL_QUEUED"}
           /\ "POS_RESULT" \in OutcomeCodes(sent, seen) <=> ~sent \/ seen \cap Outs # {}
           /\ "NO_RESPONSE" \in OutcomeCodes(sent, seen) <=> sent /\ "TIMED_OUT" \in seen
           /\ "ISSUER_APPROVED" \in OutcomeCodes(sent, seen) <=> sent /\ "TIMED_OUT" \notin seen /\ "APPROVED" \in seen
           /\ "ISSUER_DECLINED" \in OutcomeCodes(sent, seen) <=>
                 sent /\ "TIMED_OUT" \notin seen /\ "APPROVED" \notin seen /\ "DECLINED" \in seen
           /\ "REVERSAL_QUEUED" \in OutcomeCodes(sent, seen) <=>
                 sent /\ "REVERSAL_PENDING" \in seen /\ seen \cap Outs # {}
<1>1. QueuedCodes(seen) \subseteq {"REVERSAL_QUEUED"} /\ ("REVERSAL_QUEUED" \in QueuedCodes(seen) <=> "REVERSAL_PENDING" \in seen)
  BY DEF QueuedCodes
<1>2. seen \cap Outs # {} <=> "TIMED_OUT" \in seen \/ "APPROVED" \in seen \/ "DECLINED" \in seen
  BY DEF Outs
<1> HIDE DEF Outs
<1>3. CASE ~sent
  <2>1. OutcomeCodes(sent, seen) = {"POS_RESULT"}
    BY <1>3 DEF OutcomeCodes
  <2> QED BY <1>3, <2>1
<1>4. CASE sent /\ "TIMED_OUT" \in seen
  <2>1. OutcomeCodes(sent, seen) = {"NO_RESPONSE", "POS_RESULT"} \cup QueuedCodes(seen)
    BY <1>4 DEF OutcomeCodes
  <2> QED BY <1>1, <1>2, <1>4, <2>1, Zenon
<1>5. CASE sent /\ "TIMED_OUT" \notin seen /\ "APPROVED" \in seen
  <2>1. OutcomeCodes(sent, seen) = {"ISSUER_APPROVED", "POS_RESULT"} \cup QueuedCodes(seen)
    BY <1>5 DEF OutcomeCodes
  <2> QED BY <1>1, <1>2, <1>5, <2>1, Zenon
<1>6. CASE sent /\ "TIMED_OUT" \notin seen /\ "APPROVED" \notin seen /\ "DECLINED" \in seen
  <2>1. OutcomeCodes(sent, seen) = {"ISSUER_DECLINED", "POS_RESULT"} \cup QueuedCodes(seen)
    BY <1>6 DEF OutcomeCodes
  <2> QED BY <1>1, <1>2, <1>6, <2>1, Zenon
<1>7. CASE sent /\ "TIMED_OUT" \notin seen /\ "APPROVED" \notin seen /\ "DECLINED" \notin seen
  <2>1. OutcomeCodes(sent, seen) = {}
    BY <1>7 DEF OutcomeCodes
  <2> QED BY <1>2, <1>7, <2>1, Zenon
<1> QED BY <1>3, <1>4, <1>5, <1>6, <1>7, Zenon

(* What the reads of a journey agree on. *)
Whole(b) ==
    /\ Tos(b.history) # {} => b.row.sentAt # None
    /\ "REVERSED" \in Tos(b.history) => "REVERSAL_PENDING" \in Tos(b.history)
    /\ b.rev = None <=> "REVERSAL_PENDING" \notin Tos(b.history)
    /\ "REVERSED" \in Tos(b.history) => b.rev # None /\ b.rev.ackedAt # None

(* The steps a journey tells, by what was read. *)
LEMMA CodesTold ==
    ASSUME NEW b \in Books, Whole(b), NEW C, C = Codes(Steps(b)), NEW seen, seen = Tos(b.history)
    PROVE  /\ C \subseteq StepCodes
           /\ "POS_REQUEST" \in C
           /\ "REQUEST_SENT" \in C <=> b.row.sentAt # None
           /\ "LOCAL_DECLINE" \in C <=> b.row.sentAt = None
           /\ "POS_RESULT" \in C <=> b.row.sentAt = None \/ seen \cap Outs # {}
           /\ "NO_RESPONSE" \in C <=> "TIMED_OUT" \in seen
           /\ "ISSUER_APPROVED" \in C <=> "TIMED_OUT" \notin seen /\ "APPROVED" \in seen
           /\ "ISSUER_DECLINED" \in C <=> "TIMED_OUT" \notin seen /\ "APPROVED" \notin seen /\ "DECLINED" \in seen
           /\ "REVERSAL_QUEUED" \in C <=> "REVERSAL_PENDING" \in seen /\ seen \cap Outs # {}
           /\ "REVERSAL_SENT" \in C <=> b.rev # None /\ b.rev.sentAt # None
           /\ "REVERSAL_CONFIRMED" \in C <=> b.rev # None /\ b.rev.ackedAt # None
           /\ "LATE_RESPONSE" \in C <=> b.row.lateAt # None
<1> DEFINE sent == b.row.sentAt # None
<1>0. b.history \in Seq(Entries) /\ b.rev \in Revs \cup {None}
  BY DEF Books
<1>1. (SentAt(b) # None) = sent
  BY SentFacts, SMTT(30) DEF Whole
<1>2. ReversalSentAt(b) # None <=> b.rev # None /\ b.rev.sentAt # None
  <2>1. CASE b.rev = None
    <3>1. Reached(b, "REVERSED") = None
      BY <1>0, <2>1, ReachedFacts DEF Whole
    <3> QED BY <2>1, <3>1 DEF ReversalSentAt
  <2>2. CASE b.rev # None
    BY <2>2 DEF ReversalSentAt
  <2> QED BY <2>1, <2>2
<1>3. ReversalConfirmedAt(b) # None <=> b.rev # None /\ b.rev.ackedAt # None
  <2>1. CASE b.rev # None /\ b.rev.ackedAt # None
    BY <2>1 DEF ReversalConfirmedAt
  <2>2. CASE ~(b.rev # None /\ b.rev.ackedAt # None)
    <3>1. Reached(b, "REVERSED") = None
      BY <1>0, <2>2, ReachedFacts DEF Whole
    <3> QED BY <2>2, <3>1 DEF ReversalConfirmedAt
  <2> QED BY <2>1, <2>2
<1>4. C = RequestCodes(sent) \cup OutcomeCodes(sent, seen) \cup SentCodes(b) \cup ConfirmedCodes(b) \cup LateCodes(b)
  BY <1>1, StepsFacts DEF TimedCodes
<1>5. /\ RequestCodes(sent) \subseteq {"POS_REQUEST", "REQUEST_SENT", "LOCAL_DECLINE"}
      /\ "POS_REQUEST" \in RequestCodes(sent)
      /\ "REQUEST_SENT" \in RequestCodes(sent) <=> sent
      /\ "LOCAL_DECLINE" \in RequestCodes(sent) <=> ~sent
  BY DEF RequestCodes
<1>6. /\ SentCodes(b) \subseteq {"REVERSAL_SENT"} /\ ("REVERSAL_SENT" \in SentCodes(b) <=> ReversalSentAt(b) # None)
      /\ ConfirmedCodes(b) \subseteq {"REVERSAL_CONFIRMED"}
      /\ "REVERSAL_CONFIRMED" \in ConfirmedCodes(b) <=> ReversalConfirmedAt(b) # None
      /\ LateCodes(b) \subseteq {"LATE_RESPONSE"} /\ ("LATE_RESPONSE" \in LateCodes(b) <=> b.row.lateAt # None)
  BY DEF SentCodes, ConfirmedCodes, LateCodes
<1>7. /\ OutcomeCodes(sent, seen)
            \subseteq {"POS_RESULT", "NO_RESPONSE", "ISSUER_APPROVED", "ISSUER_DECLINED", "REVERSAL_QUEUED"}
      /\ "POS_RESULT" \in OutcomeCodes(sent, seen) <=> ~sent \/ seen \cap Outs # {}
      /\ "NO_RESPONSE" \in OutcomeCodes(sent, seen) <=> sent /\ "TIMED_OUT" \in seen
      /\ "ISSUER_APPROVED" \in OutcomeCodes(sent, seen) <=> sent /\ "TIMED_OUT" \notin seen /\ "APPROVED" \in seen
      /\ "ISSUER_DECLINED" \in OutcomeCodes(sent, seen) <=>
            sent /\ "TIMED_OUT" \notin seen /\ "APPROVED" \notin seen /\ "DECLINED" \in seen
      /\ "REVERSAL_QUEUED" \in OutcomeCodes(sent, seen) <=>
            sent /\ "REVERSAL_PENDING" \in seen /\ seen \cap Outs # {}
  BY OutcomeMembers, Zenon
<1>8. seen # {} => sent
  BY DEF Whole
<1> HIDE DEF sent
<1>9. C \subseteq StepCodes
  <2>1. C \subseteq {"POS_REQUEST", "REQUEST_SENT", "LOCAL_DECLINE", "POS_RESULT", "NO_RESPONSE", "ISSUER_APPROVED",
                     "ISSUER_DECLINED", "REVERSAL_QUEUED", "REVERSAL_SENT", "REVERSAL_CONFIRMED", "LATE_RESPONSE"}
    BY <1>4, <1>5, <1>6, <1>7
  <2> QED BY <2>1 DEF StepCodes
<1>10. /\ "POS_REQUEST" \in C
       /\ "REQUEST_SENT" \in C <=> sent
       /\ "LOCAL_DECLINE" \in C <=> ~sent
  BY <1>4, <1>5, <1>6, <1>7
<1>11. /\ "POS_RESULT" \in C <=> ~sent \/ seen \cap Outs # {}
       /\ "NO_RESPONSE" \in C <=> "TIMED_OUT" \in seen
       /\ "ISSUER_APPROVED" \in C <=> "TIMED_OUT" \notin seen /\ "APPROVED" \in seen
  BY <1>4, <1>5, <1>6, <1>7, <1>8
<1>12. /\ "ISSUER_DECLINED" \in C <=> "TIMED_OUT" \notin seen /\ "APPROVED" \notin seen /\ "DECLINED" \in seen
       /\ "REVERSAL_QUEUED" \in C <=> "REVERSAL_PENDING" \in seen /\ seen \cap Outs # {}
  BY <1>4, <1>5, <1>6, <1>7, <1>8
<1>13. /\ "REVERSAL_SENT" \in C <=> ReversalSentAt(b) # None
       /\ "REVERSAL_CONFIRMED" \in C <=> ReversalConfirmedAt(b) # None
       /\ "LATE_RESPONSE" \in C <=> b.row.lateAt # None
  BY <1>4, <1>5, <1>6, <1>7
<1> QED BY <1>2, <1>3, <1>9, <1>10, <1>11, <1>12, <1>13, Zenon DEF sent

(* A step is told when its place is not 0. *)
LEMMA Places ==
    ASSUME NEW b \in Books, NEW code
    PROVE  /\ code \in Codes(Steps(b)) => StepOf(Steps(b), code) \in Nat \ {0}
           /\ code \notin Codes(Steps(b)) => StepOf(Steps(b), code) = 0
<1>1. Steps(b) \in Seq(OffsetSteps)
  BY StepsFacts
<1>2. Len(Steps(b)) \in Nat
  BY <1>1, LenProperties
<1> DEFINE s == Steps(b)
<1> HIDE DEF s
<1>3. /\ code \in Codes(s) => StepOf(s, code) \in 1..Len(s)
      /\ code \notin Codes(s) => StepOf(s, code) = 0
  BY <1>1, FirstPlace DEF s
<1> QED BY <1>2, <1>3 DEF s

(* What Tells says of a book is whole. *)
LEMMA TellsWhole ==
    ASSUME NEW b, Tells(b)
    PROVE  Whole(b)
BY Zenon DEF Tells, Settled, Whole

(* Each journey answered is told in the order of its offsets, whatever the clocks say (withOffsets and
   insertAtOffset). *)
THEOREM JourneysInOrder == Spec => []OffsetsOrdered
<1>1. JourneyInv => OffsetsOrdered
  <2> SUFFICES ASSUME JourneyInv, shown # None
               PROVE  \A i \in 2..Len(shown.steps) : shown.steps[i - 1].offset <= shown.steps[i].offset
    BY Zenon DEF OffsetsOrdered
  <2>1. PICK b \in Books : shown = BuildJourney(b)
    BY DEF JourneyInv, ShownInv
  <2>2. shown.steps = Steps(b) /\ Ordered(Steps(b))
    BY <2>1, JourneyOf, StepsFacts, Zenon
  <2> QED BY <2>2, Zenon DEF Ordered
<1> QED BY <1>1, JourneyInductive, PTL

(* A journey tells one story of the reversal: queued, sent, confirmed, in that order, confirmed when
   the row was read as REVERSED, and what is told as confirmed the issuer does not hold, then or
   later, unless the 0420 missed a request that had no row yet (findReversal, reversalSteps, MarkAcked,
   and the LocateAndReverse that answers). *)
THEOREM ReversalsAreTold == Spec => []ReversalTold
<1>1. JourneyInv => ReversalTold
  <2> SUFFICES ASSUME JourneyInv, shown # None PROVE ReversalTold
    BY Zenon DEF ReversalTold
  <2>1. PICK b \in Books : shown = BuildJourney(b) /\ Tells(b)
    BY DEF JourneyInv, ShownInv
  <2> DEFINE C == Codes(Steps(b))
             seen == Tos(b.history)
             q == Place("REVERSAL_QUEUED")
             s == Place("REVERSAL_SENT")
             c == Place("REVERSAL_CONFIRMED")
  <2>2. /\ shown.status = b.row.status /\ shown.reached = seen
        /\ q = StepOf(Steps(b), "REVERSAL_QUEUED") /\ s = StepOf(Steps(b), "REVERSAL_SENT")
        /\ c = StepOf(Steps(b), "REVERSAL_CONFIRMED")
    BY <2>1, JourneyOf, Zenon DEF Place
  <2>3. /\ "REVERSAL_QUEUED" \in C <=> "REVERSAL_PENDING" \in seen /\ seen \cap Outs # {}
        /\ "REVERSAL_SENT" \in C <=> b.rev # None /\ b.rev.sentAt # None
        /\ "REVERSAL_CONFIRMED" \in C <=> b.rev # None /\ b.rev.ackedAt # None
    BY <2>1, TellsWhole, CodesTold, Zenon
  <2>4. /\ IF "REVERSAL_QUEUED" \in C THEN q \in Nat \ {0} ELSE q = 0
        /\ IF "REVERSAL_SENT" \in C THEN s \in Nat \ {0} ELSE s = 0
        /\ IF "REVERSAL_CONFIRMED" \in C THEN c \in Nat \ {0} ELSE c = 0
    BY <2>2, Places, Zenon
  <2>5. /\ "REVERSAL_QUEUED" \in C /\ "REVERSAL_SENT" \in C => q < s
        /\ "REVERSAL_SENT" \in C /\ "REVERSAL_CONFIRMED" \in C => s < c
    BY <2>2, StepsFacts, Zenon
  <2> HIDE DEF C, q, s, c, seen
  <2>6. shown.status = "REVERSED" => c > 0
    <3>1. b.row.status = "REVERSED" => b.rev # None /\ b.rev.ackedAt # None
      BY <2>1 DEF Tells, seen
    <3> QED BY <2>2, <2>3, <2>4, <3>1
  <2>7. c > 0 => s \in 1..(c - 1) /\ (held => missed)
    <3>1. ASSUME c > 0
          PROVE  "REVERSAL_CONFIRMED" \in C /\ "REVERSAL_SENT" \in C /\ row.status = "REVERSED"
      <4>1. "REVERSAL_CONFIRMED" \in C
        BY <2>4, <3>1
      <4>2. row.status = "REVERSED" /\ b.rev.sentAt # None
        BY <2>1, <2>3, <4>1, Zenon DEF Tells
      <4> QED BY <2>3, <4>1, <4>2
    <3>2. row.status = "REVERSED" => (held => missed)
      BY Zenon DEF JourneyInv, IInv, RecordInv, Reversing, Returned
    <3> QED BY <2>4, <2>5, <3>1, <3>2
  <2>8. s > 0 => \/ q \in 1..(s - 1)
                 \/ q = 0 /\ shown.reached \cap {"TIMED_OUT", "APPROVED", "DECLINED"} = {}
    <3>1. ASSUME s > 0
          PROVE  "REVERSAL_SENT" \in C /\ "REVERSAL_PENDING" \in seen
      <4>1. "REVERSAL_SENT" \in C
        BY <2>4, <3>1
      <4> QED BY <2>1, <2>3, <4>1, Zenon DEF Tells, seen
    <3>2. CASE seen \cap Outs # {}
      BY <2>3, <2>4, <2>5, <3>1, <3>2
    <3>3. CASE seen \cap Outs = {}
      <4>1. q = 0
        BY <2>3, <2>4, <3>3
      <4> QED BY <2>2, <3>3, <4>1 DEF Outs
    <3> QED BY <3>2, <3>3
  <2> QED BY <2>6, <2>7, <2>8, Zenon DEF ReversalTold, q, s, c
<1> QED BY <1>1, JourneyInductive, PTL

-----------------------------------------------------------------------------
(***************************************************************************)
(* The money.                                                              *)
(***************************************************************************)
(* What the rows of the money come to. *)
Total(money) == FoldFunction(LAMBDA m, sum : sum + m.delta, 0, money)

(* No row comes to nothing. *)
LEMMA TotalOfNone == Total(<<>>) = 0
<1> DEFINE money == <<>>
           S == DOMAIN money
           Body(i) == [T \in SUBSET S |-> IF T = {} THEN 0 ELSE LET x == CHOOSE x \in T : TRUE IN i[T \ {x}] + money[x].delta]
           iter == CHOOSE i : i = Body(i)
           g == [T \in SUBSET S |-> 0]
<1>1. S = {}
  OBVIOUS
<1>2. g = Body(g)
  BY <1>1
<1>3. iter = Body(iter)
  BY <1>2, Zenon
<1>4. Total(money) = iter[S]
  BY DEF Total, FoldFunction, FoldFunctionOnSet, MapThenFoldSet
<1> HIDE DEF iter
<1>5. iter[S] = 0
  BY <1>1, <1>3
<1> QED BY <1>4, <1>5

(* One row comes to its delta. *)
LEMMA TotalOfOne ==
    ASSUME NEW r, r.delta \in Int
    PROVE  Total(<<r>>) = r.delta
<1> DEFINE money == <<r>>
           S == DOMAIN money
           Body(i) == [T \in SUBSET S |-> IF T = {} THEN 0 ELSE LET x == CHOOSE x \in T : TRUE IN i[T \ {x}] + money[x].delta]
           iter == CHOOSE i : i = Body(i)
           g == [T \in SUBSET S |-> IF T = {} THEN 0 ELSE r.delta]
<1>1. S = {1} /\ money[1] = r
  OBVIOUS
<1>2. \A T \in SUBSET S : T # {} => T = {1} /\ (CHOOSE x \in T : TRUE) = 1
  BY <1>1, Zenon
<1>3. g = Body(g)
  BY <1>1, <1>2
<1>4. iter = Body(iter)
  BY <1>3, Zenon
<1>5. Total(money) = iter[S]
  BY DEF Total, FoldFunction, FoldFunctionOnSet, MapThenFoldSet
<1> HIDE DEF iter
<1>6. iter[{}] = 0
  BY <1>1, <1>4
<1>7. iter[S] = iter[{}] + r.delta
  BY <1>1, <1>2, <1>4
<1> QED BY <1>5, <1>6, <1>7

(* debitStep and moneyRows of a journey whose reversal is not confirmed. *)
LEMMA MoneyTold ==
    ASSUME NEW b \in Books, Whole(b), b.row.type \in Types,
           "REVERSAL_CONFIRMED" \notin Codes(Steps(b)),
           \/ Tos(b.history) \cap {"TIMED_OUT", "APPROVED"} # {}
           \/ {"DECLINED", "REVERSAL_PENDING"} \subseteq Tos(b.history)
    PROVE  Total(MoneyRows(b.row.type, Steps(b))) = MoneySign(b.row.type)
<1> DEFINE C == Codes(Steps(b))
           seen == Tos(b.history)
           sign == MoneySign(b.row.type)
           d == DebitStep(Steps(b))
           reversed == StepOf(Steps(b), "REVERSAL_CONFIRMED")
<1>1. sign \in {-1, 0, 1}
  BY Zenon DEF MoneySign
<1>2. reversed = 0
  BY Places
<1>3. d # 0
  <2>1. /\ "NO_RESPONSE" \in C <=> "TIMED_OUT" \in seen
        /\ "ISSUER_APPROVED" \in C <=> "TIMED_OUT" \notin seen /\ "APPROVED" \in seen
        /\ "ISSUER_DECLINED" \in C <=> "TIMED_OUT" \notin seen /\ "APPROVED" \notin seen /\ "DECLINED" \in seen
        /\ "REVERSAL_QUEUED" \in C <=> "REVERSAL_PENDING" \in seen /\ seen \cap Outs # {}
    BY CodesTold, Zenon
  <2>2. /\ IF "NO_RESPONSE" \in C THEN StepOf(Steps(b), "NO_RESPONSE") > 0 ELSE StepOf(Steps(b), "NO_RESPONSE") = 0
        /\ IF "ISSUER_APPROVED" \in C THEN StepOf(Steps(b), "ISSUER_APPROVED") > 0 ELSE StepOf(Steps(b), "ISSUER_APPROVED") = 0
        /\ IF "ISSUER_DECLINED" \in C THEN StepOf(Steps(b), "ISSUER_DECLINED") > 0 ELSE StepOf(Steps(b), "ISSUER_DECLINED") = 0
        /\ IF "REVERSAL_QUEUED" \in C THEN StepOf(Steps(b), "REVERSAL_QUEUED") > 0 ELSE StepOf(Steps(b), "REVERSAL_QUEUED") = 0
    BY Places
  <2> HIDE DEF C
  <2>3. CASE "TIMED_OUT" \in seen
    BY <2>1, <2>2, <2>3 DEF DebitStep
  <2>4. CASE "TIMED_OUT" \notin seen /\ "APPROVED" \in seen
    BY <2>1, <2>2, <2>4 DEF DebitStep
  <2>5. CASE "TIMED_OUT" \notin seen /\ "APPROVED" \notin seen
    <3>1. "DECLINED" \in seen /\ "REVERSAL_PENDING" \in seen
      BY <2>5
    <3>2. seen \cap Outs # {}
      BY <3>1 DEF Outs
    <3> HIDE DEF seen
    <3> QED BY <2>1, <2>2, <2>5, <3>1, <3>2 DEF DebitStep
  <2> QED BY <2>3, <2>4, <2>5
<1>4. CASE sign = 0
  <2>1. MoneyRows(b.row.type, Steps(b)) = <<>>
    BY <1>4 DEF MoneyRows
  <2> QED BY <1>4, <2>1, TotalOfNone
<1>5. CASE sign # 0
  <2>1. MoneyRows(b.row.type, Steps(b)) = <<MoneyRow(sign, d)>> \o <<>>
    <3>1. MoneyRows(b.row.type, Steps(b)) =
             IF d = 0 \/ sign = 0 THEN <<>>
             ELSE <<MoneyRow(sign, d)>> \o (IF reversed > 0 THEN <<MoneyRow(-sign, reversed)>> ELSE <<>>)
      BY Zenon DEF MoneyRows
    <3> HIDE DEF sign, d, reversed
    <3> QED BY <1>2, <1>3, <1>5, <3>1
  <2> HIDE DEF sign, d
  <2>2. <<MoneyRow(sign, d)>> \o <<>> = <<MoneyRow(sign, d)>>
    OBVIOUS
  <2>3. MoneyRow(sign, d).delta = sign /\ sign \in Int
    BY <1>1 DEF MoneyRow
  <2>4. Total(<<MoneyRow(sign, d)>>) = sign
    BY <2>3, TotalOfOne
  <2> QED BY <2>1, <2>2, <2>4 DEF sign
<1> QED BY <1>4, <1>5

(* Money the issuer holds, or gave, is in each journey answered whose reads found an outcome that
   owes it, unless the 0420 missed the request (debitStep, moneyRows and LocateAndReverse). *)
THEOREM MoneyIsShown == Spec => []NothingHidden
<1>1. JourneyInv => NothingHidden
  <2> SUFFICES ASSUME JourneyInv, shown # None, held, ~missed,
                      \/ shown.reached \cap {"TIMED_OUT", "APPROVED"} # {}
                      \/ {"DECLINED", "REVERSAL_PENDING"} \subseteq shown.reached
               PROVE  Net = MoneySign(row.type)
    BY Zenon DEF NothingHidden
  <2>1. PICK b \in Books : shown = BuildJourney(b) /\ Tells(b)
    BY DEF JourneyInv, ShownInv
  <2>2. shown.reached = Tos(b.history) /\ shown.money = MoneyRows(b.row.type, Steps(b))
    BY <2>1, JourneyOf, Zenon
  <2>3. b.row.type = row.type /\ b.row.type \in Types
    BY <2>1, RowFields, Zenon DEF Tells, JourneyInv, IInv, Typed
  <2>4. "REVERSAL_CONFIRMED" \notin Codes(Steps(b))
    <3>1. row.status # "REVERSED"
      BY Zenon DEF JourneyInv, IInv, RecordInv, Reversing, Returned
    <3>2. ~(b.rev # None /\ b.rev.ackedAt # None)
      BY <2>1, <3>1, Zenon DEF Tells
    <3> QED BY <2>1, <3>2, TellsWhole, CodesTold, Zenon
  <2>5. Total(MoneyRows(b.row.type, Steps(b))) = MoneySign(b.row.type)
    BY <2>1, <2>2, <2>3, <2>4, TellsWhole, MoneyTold, Zenon
  <2> QED BY <2>2, <2>3, <2>5, Zenon DEF Net, Total
<1> QED BY <1>1, JourneyInductive, PTL

-----------------------------------------------------------------------------
(* Of two journeys, the one read later tells all that the other does. *)
LEMMA LaterTellsMore ==
    ASSUME NEW a \in Books, NEW b \in Books, Whole(a), Whole(b),
           Tos(a.history) \subseteq Tos(b.history), a.row.sentAt = None <=> b.row.sentAt = None,
           "TIMED_OUT" \notin Tos(a.history) /\ Tos(a.history) \cap {"APPROVED", "DECLINED"} # {} =>
              "TIMED_OUT" \notin Tos(b.history),
           "TIMED_OUT" \notin Tos(a.history) /\ "APPROVED" \notin Tos(a.history) /\ "DECLINED" \in Tos(a.history) =>
              "APPROVED" \notin Tos(b.history),
           a.row.lateAt # None => b.row.lateAt # None,
           a.rev # None /\ a.rev.sentAt # None => b.rev # None /\ b.rev.sentAt # None,
           a.rev # None /\ a.rev.ackedAt # None => b.rev # None /\ b.rev.ackedAt # None
    PROVE  Codes(Steps(a)) \subseteq Codes(Steps(b))
<1> DEFINE A == Codes(Steps(a))
           B == Codes(Steps(b))
           x == Tos(a.history)
           y == Tos(b.history)
<1>1. /\ A \subseteq StepCodes
      /\ "REQUEST_SENT" \in A <=> a.row.sentAt # None
      /\ "LOCAL_DECLINE" \in A <=> a.row.sentAt = None
      /\ "POS_RESULT" \in A <=> a.row.sentAt = None \/ x \cap Outs # {}
      /\ "NO_RESPONSE" \in A <=> "TIMED_OUT" \in x
      /\ "ISSUER_APPROVED" \in A <=> "TIMED_OUT" \notin x /\ "APPROVED" \in x
      /\ "ISSUER_DECLINED" \in A <=> "TIMED_OUT" \notin x /\ "APPROVED" \notin x /\ "DECLINED" \in x
      /\ "REVERSAL_QUEUED" \in A <=> "REVERSAL_PENDING" \in x /\ x \cap Outs # {}
      /\ "REVERSAL_SENT" \in A <=> a.rev # None /\ a.rev.sentAt # None
      /\ "REVERSAL_CONFIRMED" \in A <=> a.rev # None /\ a.rev.ackedAt # None
      /\ "LATE_RESPONSE" \in A <=> a.row.lateAt # None
  BY CodesTold, Zenon
<1>2. /\ "POS_REQUEST" \in B
      /\ "REQUEST_SENT" \in B <=> b.row.sentAt # None
      /\ "LOCAL_DECLINE" \in B <=> b.row.sentAt = None
      /\ "POS_RESULT" \in B <=> b.row.sentAt = None \/ y \cap Outs # {}
      /\ "NO_RESPONSE" \in B <=> "TIMED_OUT" \in y
      /\ "ISSUER_APPROVED" \in B <=> "TIMED_OUT" \notin y /\ "APPROVED" \in y
      /\ "ISSUER_DECLINED" \in B <=> "TIMED_OUT" \notin y /\ "APPROVED" \notin y /\ "DECLINED" \in y
      /\ "REVERSAL_QUEUED" \in B <=> "REVERSAL_PENDING" \in y /\ y \cap Outs # {}
      /\ "REVERSAL_SENT" \in B <=> b.rev # None /\ b.rev.sentAt # None
      /\ "REVERSAL_CONFIRMED" \in B <=> b.rev # None /\ b.rev.ackedAt # None
      /\ "LATE_RESPONSE" \in B <=> b.row.lateAt # None
  BY CodesTold, Zenon
<1> HIDE DEF A, B
<1>3. x \cap Outs # {} => y \cap Outs # {}
  BY SMTT(30)
<1>4. /\ "REQUEST_SENT" \in A => "REQUEST_SENT" \in B
      /\ "LOCAL_DECLINE" \in A => "LOCAL_DECLINE" \in B
      /\ "POS_RESULT" \in A => "POS_RESULT" \in B
      /\ "REVERSAL_QUEUED" \in A => "REVERSAL_QUEUED" \in B
      /\ "REVERSAL_SENT" \in A => "REVERSAL_SENT" \in B
      /\ "REVERSAL_CONFIRMED" \in A => "REVERSAL_CONFIRMED" \in B
      /\ "LATE_RESPONSE" \in A => "LATE_RESPONSE" \in B
  BY <1>1, <1>2, <1>3, Zenon
<1>5. /\ "NO_RESPONSE" \in A => "NO_RESPONSE" \in B
      /\ "ISSUER_APPROVED" \in A => "ISSUER_APPROVED" \in B
      /\ "ISSUER_DECLINED" \in A => "ISSUER_DECLINED" \in B
  BY <1>1, <1>2, Zenon
<1> QED BY <1>1, <1>2, <1>4, <1>5, Zenon DEF StepCodes, A, B

(* A client that asks again is told all it was told before: the records only grow in what they say,
   and the second answer is read later than the first (reached, outcomeSteps and findReversal). *)
THEOREM JourneysGrow == Spec => StepsGrow
<1> DEFINE Told(j) == {j.steps[i].code : i \in DOMAIN j.steps}
<1>1. ASSUME JourneyInv, FindReversal, shown # None
      PROVE  Told(shown) \subseteq Told(shown')
  <2> DEFINE b == [row |-> view.row, history |-> view.history,
                   rev |-> IF Reached(view, "REVERSAL_PENDING") = None THEN None ELSE rev]
  <2>1. shown' = BuildJourney(b) /\ view.at = "reversal"
    BY <1>1 DEF FindReversal
  <2>2. /\ b \in Books /\ b.row = view.row /\ b.history = view.history
        /\ b.rev = None <=> "REVERSAL_PENDING" \notin Tos(view.history)
        /\ b.rev # None => b.rev = rev
        /\ "REVERSED" \in Tos(view.history) => b.rev # None /\ b.rev.ackedAt # None
    BY <1>1, <2>1, BookRead, Zenon
  <2> HIDE DEF b
  <2>3. PICK a \in Books : shown = BuildJourney(a) /\ Tells(a)
    BY <1>1 DEF JourneyInv, ShownInv
  <2>4. /\ Settled(Tos(view.history)) /\ (Tos(view.history) # {} => view.row.sentAt # None)
        /\ view.row.sentAt = None <=> row.sentAt = None
    BY <1>1, <2>1, SMTT(30) DEF JourneyInv, ViewInv
  <2>5. Whole(b)
    BY <2>2, <2>4, Zenon DEF Whole, Settled
  <2>6. /\ Tos(a.history) \subseteq Tos(b.history) /\ (a.row.sentAt = None <=> b.row.sentAt = None)
        /\ a.row.lateAt # None => b.row.lateAt # None
    BY <2>1, <2>2, <2>3, <2>4, Zenon DEF Tells
  <2>7. Tos(b.history) \subseteq Tos(history)
    BY <2>2, <2>4, Zenon DEF Settled
  <2>8. /\ "TIMED_OUT" \notin Tos(a.history) /\ Tos(a.history) \cap {"APPROVED", "DECLINED"} # {} =>
              "TIMED_OUT" \notin Tos(b.history)
        /\ "TIMED_OUT" \notin Tos(a.history) /\ "APPROVED" \notin Tos(a.history) /\ "DECLINED" \in Tos(a.history) =>
              "APPROVED" \notin Tos(b.history)
    BY <2>3, <2>7, Zenon DEF Tells, Settled
  <2>9. ASSUME a.rev # None
        PROVE  /\ b.rev # None
               /\ a.rev.sentAt # None => b.rev.sentAt # None
               /\ a.rev.ackedAt # None => b.rev.ackedAt # None
    <3>1. "REVERSAL_PENDING" \in Tos(a.history) /\ rev # None
      BY <2>3, <2>9, Zenon DEF Tells
    <3>2. b.rev # None /\ b.rev = rev
      BY <2>2, <2>6, <3>1, Zenon
    <3>3. row.status = "REVERSED" => rev.ackedAt # None
      BY <1>1, <3>1, Zenon DEF JourneyInv, IInv, RecordInv
    <3> QED BY <2>3, <2>9, <3>2, <3>3, Zenon DEF Tells
  <2>10. Codes(Steps(a)) \subseteq Codes(Steps(b))
    BY <2>2, <2>3, <2>5, <2>6, <2>8, <2>9, TellsWhole, LaterTellsMore, Zenon
  <2>11. shown.steps = Steps(a) /\ shown'.steps = Steps(b)
    BY <2>1, <2>3, JourneyOf, Zenon
  <2> QED BY <2>10, <2>11, Zenon DEF Codes
<1>2. JourneyInv /\ [Next]_vars => [shown # None => Told(shown) \subseteq Told(shown')]_shown
  <2> SUFFICES ASSUME JourneyInv, Next, shown # None, shown' # shown
               PROVE  Told(shown) \subseteq Told(shown')
    BY Zenon DEF vars, readerVars
  <2>1. FindReversal
    BY Zenon DEF Next, Tick, IssuerDecides, Handler, LinkDown, Begin, Insert, MarkSent, RecordSent, Send, Decide,
           Record, FollowUp, Stop, Sweeper, MarkTimedOut, SweepQueues, CancelPurchase, Worker, AssignNetworkIdentity, RetryLater, MarkAcked,
           AdviceAcked, RecordLateResponse, Backdate, Reader, GetRow, ListStateHistory, readerVars
  <2> QED BY <1>1, <2>1, Zenon
<1> QED BY <1>2, JourneyInductive, PTL DEF Spec, StepsGrow
=============================================================================
