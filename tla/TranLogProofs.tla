---------------------------- MODULE TranLogProofs ----------------------------
(***************************************************************************)
(* Theorems about TranLog.  The RRNs are unique for every number of        *)
(* requests, STANs, restarts and rows, and a client that follows the       *)
(* cursors of a list is shown every row that was there once.               *)
(***************************************************************************)
EXTENDS TranLog, FiniteSetTheorems, SequenceTheorems, TLAPS

(***************************************************************************)
(* Counting.                                                               *)
(***************************************************************************)
(* Division by the number of STANs, or by the ticks of an hour. *)
LEMMA Division ==
    ASSUME NEW m \in Nat \ {0}, NEW n \in Nat
    PROVE  /\ n \div m \in Nat /\ n % m \in 0..(m - 1)
           /\ n = m * (n \div m) + (n % m)
<1>1. n % m \in 0..(m - 1)
  BY SMT
<1>2. n = m * (n \div m) + (n % m)
  BY SMT
<1>3. n \div m \in Int
  BY SMT
<1>4. n \div m >= 0
  BY SMT
<1> QED BY <1>1, <1>2, <1>3, <1>4

(* Quotients do not decrease, and neither do the remainders of one quotient. *)
LEMMA DivisionOrder ==
    ASSUME NEW m \in Nat \ {0}, NEW a \in Nat, NEW b \in Nat
    PROVE  /\ a <= b => a \div m <= b \div m
           /\ a <= b /\ a \div m = b \div m => a % m <= b % m
           /\ a \div m = b \div m /\ a % m = b % m => a = b
<1>1. a <= b => a \div m <= b \div m
  BY SMT
<1>2. a <= b /\ a \div m = b \div m => a % m <= b % m
  BY SMT
<1>3. a \div m = b \div m /\ a % m = b % m => a = b
  BY SMT
<1> QED BY <1>1, <1>2, <1>3

(* The count's remainder goes up by one, until it wraps. *)
LEMMA DivisionNext ==
    ASSUME NEW m \in Nat \ {0}, NEW n \in Nat, (n + 1) % m # 0
    PROVE  (n + 1) % m = (n % m) + 1 /\ (n + 1) \div m = n \div m
<1>1. (n + 1) \div m = n \div m
  BY SMT
<1>2. n = m * (n \div m) + (n % m) /\ n + 1 = m * ((n + 1) \div m) + ((n + 1) % m)
  BY Division
<1>3. n \div m \in Nat /\ n % m \in Nat /\ (n + 1) % m \in Nat
  BY Division
<1>4. (n + 1) % m = (n % m) + 1
  BY <1>1, <1>2, <1>3
<1> QED BY <1>1, <1>4

(* A count that has not wrapped is its own STAN. *)
LEMMA DivisionSmall ==
    ASSUME NEW m \in Nat \ {0}, NEW n \in 0..(m - 1)
    PROVE  n % m = n
BY Division, SMT

(* A set of naturals that is bounded has a greatest element. *)
LEMMA Greatest ==
    ASSUME NEW S \in SUBSET Nat, NEW n \in Nat, \A s \in S : s <= n, S # {}
    PROVE  Max(S) \in S /\ \A s \in S : s <= Max(S)
<1>1. \E x \in S : \A y \in S : x >= y
  <2> DEFINE T == {k \in Nat : \A s \in S : s <= k}
  <2>1. T \subseteq Nat /\ n \in T
    OBVIOUS
  <2>2. PICK k \in T : \A y \in T : ~(<<y, k>> \in OpToRel(<, Nat))
    BY <2>1, WFMin, NatLessThanWellFounded, Zenon
  <2>3. \A y \in T : ~(y < k)
    BY <2>2, Zenon DEF OpToRel
  <2>4. k \in S
    <3>1. SUFFICES ASSUME k \notin S PROVE FALSE
      OBVIOUS
    <3>2. \A s \in S : s \in Nat /\ s <= k /\ s # k
      BY <3>1
    <3>3. PICK s \in S : TRUE
      BY Zenon
    <3>5. k - 1 \in Nat /\ k - 1 < k
      BY <3>2, <3>3
    <3>6. \A z \in S : z <= k - 1
      BY <3>2
    <3>4. k - 1 \in T
      BY <3>5, <3>6
    <3> QED BY <2>3, <3>4, <3>5
  <2> QED BY <2>4
<1> QED BY <1>1, Zenon DEF Max

(***************************************************************************)
(* Types.                                                                  *)
(***************************************************************************)
Stamps == [prefix : Nat, stan : 0..(Modulus - 1)]
Rows == [rrn : Stamps, createdAt : Nat, status : {"SENT", "APPROVED", "DECLINED"}, sent : BOOLEAN]
InHand == [at : {"idle", "numbered", "begin", "insert"}, count : Nat, rrn : Stamps \cup {None},
           createdAt : Nat, status : {"SENT", "DECLINED"}]

TypeOK ==
    /\ clock \in Nat /\ stan \in Nat /\ link \in {"boot", "down", "up"}
    /\ req \in [Requests -> InHand]
    /\ \A r \in Requests : req[r].at \in {"begin", "insert"} => req[r].rrn \in Stamps
    /\ log \in Seq(Rows) /\ events \in Seq(BOOLEAN)

(* The hour is a number that does not go back. *)
LEMMA HourFacts ==
    ASSUME NEW a \in Nat, NEW b \in Nat, a <= b
    PROVE  a \div TicksPerHour \in Nat /\ b \div TicksPerHour \in Nat /\ a \div TicksPerHour <= b \div TicksPerHour
BY TranLogAssumption, Division, DivisionOrder

(* A STAN is below the modulus, and the counter has a round. *)
LEMMA StanFacts ==
    ASSUME NEW n \in Nat
    PROVE  STAN(n) \in 0..(Modulus - 1) /\ n \div Modulus \in Nat
BY TranLogAssumption, Division, Zenon DEF STAN

(* A request before its first step. *)
LEMMA IdleFacts ==
    /\ Idle \in InHand
    /\ Idle.at = "idle" /\ Idle.count = 0 /\ Idle.rrn = None /\ Idle.createdAt = 0 /\ Idle.status = "SENT"
BY DEF Idle, InHand

(* What each step of a request makes of its entry. *)
LEMMA DrawEntry ==
    ASSUME TypeOK, NEW r \in Requests, Draw(r)
    PROVE  /\ req[r].at = "idle" /\ stan' = stan + 1
           /\ req'[r] \in InHand /\ req'[r].at = "numbered" /\ req'[r].count = stan' /\ req'[r].status = "SENT"
           /\ req' = [req EXCEPT ![r] = req'[r]]
<1> DEFINE c == [Idle EXCEPT !.at = "numbered", !.count = stan']
<1>1. stan' = stan + 1 /\ stan' \in Nat /\ req' = [req EXCEPT ![r] = c] /\ req[r].at = "idle"
  BY DEF Draw, NextSTAN, TypeOK
<1>2. c \in InHand /\ c.at = "numbered" /\ c.count = stan' /\ c.status = "SENT"
  BY <1>1, Zenon DEF Idle, InHand
<1> HIDE DEF c
<1>3. req'[r] = c
  BY <1>1 DEF TypeOK
<1> QED BY <1>1, <1>2, <1>3, Zenon

(* recordLinkDown: an RRN with STAN 0. *)
LEMMA LinkDownEntry ==
    ASSUME TypeOK, NEW r \in Requests, LinkDown(r)
    PROVE  /\ req[r].at = "idle"
           /\ req'[r] \in InHand /\ req'[r].at = "begin" /\ req'[r].status = "DECLINED" /\ req'[r].rrn \in Stamps
           /\ req' = [req EXCEPT ![r] = req'[r]]
<1> DEFINE x == BuildRRN(Hour, 0)
           c == [Idle EXCEPT !.at = "begin", !.rrn = x, !.status = "DECLINED"]
<1>1. req' = [req EXCEPT ![r] = c] /\ req[r].at = "idle"
  BY DEF LinkDown
<1>2. Hour \in Nat
  BY HourFacts DEF Hour, TypeOK
<1>3. x \in Stamps
  BY <1>2, TranLogAssumption DEF BuildRRN, Stamps
<1> HIDE DEF x
<1>4. c \in InHand /\ c.at = "begin" /\ c.status = "DECLINED" /\ c.rrn = x
  BY <1>3, Zenon DEF Idle, InHand
<1> HIDE DEF c
<1>5. req'[r] = c
  BY <1>1 DEF TypeOK
<1> QED BY <1>1, <1>3, <1>4, <1>5, Zenon

(* buildRRN from the hour and the STAN drawn before. *)
LEMMA NameEntry ==
    ASSUME TypeOK, NEW r \in Requests, Name(r)
    PROVE  /\ req[r].at = "numbered"
           /\ req'[r] \in InHand /\ req'[r].at = "begin" /\ req'[r].status = req[r].status
           /\ req'[r].rrn = BuildRRN(Hour, STAN(req[r].count)) /\ req'[r].rrn \in Stamps
           /\ req' = [req EXCEPT ![r] = req'[r]]
<1> DEFINE x == BuildRRN(Hour, STAN(req[r].count))
           c == [req[r] EXCEPT !.at = "begin", !.rrn = x]
<1>1. req' = [req EXCEPT ![r].at = "begin", ![r].rrn = x] /\ req[r].at = "numbered"
  BY DEF Name
<1>2. Hour \in Nat /\ req[r] \in InHand /\ req[r].count \in Nat
  <2>1. Hour \in Nat
    BY HourFacts DEF Hour, TypeOK
  <2>2. req[r] \in InHand
    BY DEF TypeOK
  <2> QED BY <2>1, <2>2 DEF InHand
<1>3. x \in Stamps
  BY <1>2, StanFacts DEF BuildRRN, Stamps
<1> HIDE DEF x
<1>4. req' = [req EXCEPT ![r] = c]
  <2>1. req \in [Requests -> InHand]
    BY DEF TypeOK
  <2>2. [[req EXCEPT ![r].at = "begin"] EXCEPT ![r].rrn = x] = [req EXCEPT ![r] = c]
    BY <2>1, Zenon
  <2> QED BY <1>1, <2>2
<1>5. c \in InHand /\ c.at = "begin" /\ c.status = req[r].status /\ c.rrn = x
  BY <1>2, <1>3, Zenon DEF InHand
<1> HIDE DEF c
<1>6. req'[r] = c
  BY <1>4 DEF TypeOK
<1> QED BY <1>1, <1>3, <1>4, <1>5, <1>6, Zenon DEF x

(* The INSERT begins with that RRN. *)
LEMMA BeginEntry ==
    ASSUME TypeOK, NEW r \in Requests, BeginInsert(r)
    PROVE  /\ req[r].at = "begin"
           /\ req'[r] \in InHand /\ req'[r].at = "insert" /\ req'[r].status = req[r].status
           /\ req'[r].rrn = req[r].rrn
           /\ req' = [req EXCEPT ![r] = req'[r]]
<1> DEFINE c == [req[r] EXCEPT !.at = "insert", !.createdAt = clock]
<1>1. req' = [req EXCEPT ![r] = c] /\ req[r].at = "begin"
  BY Zenon DEF BeginInsert, TypeOK
<1>2. c \in InHand /\ c.at = "insert" /\ c.status = req[r].status /\ c.rrn = req[r].rrn
  BY Zenon DEF TypeOK, InHand
<1> HIDE DEF c
<1>3. req'[r] = c
  BY <1>1 DEF TypeOK
<1> QED BY <1>1, <1>2, <1>3, Zenon

(* The row that an insert commits. *)
LEMMA CommitEntry ==
    ASSUME TypeOK, NEW r \in Requests, CommitInsert(r)
    PROVE  /\ req[r].at = "insert" /\ req' = [req EXCEPT ![r] = Idle]
           /\ log' \in Seq(Rows) /\ Len(log') = Len(log) + 1
           /\ \A i \in 1..Len(log) : log'[i] = log[i]
           /\ log'[Len(log) + 1].rrn = req[r].rrn /\ (log'[Len(log) + 1].sent <=> req[r].status = "SENT")
<1> DEFINE c == [rrn |-> req[r].rrn, createdAt |-> req[r].createdAt, status |-> req[r].status,
                 sent |-> req[r].status # "DECLINED"]
<1>1. req[r].at = "insert" /\ req' = [req EXCEPT ![r] = Idle] /\ log' = Append(log, c)
  BY DEF CommitInsert
<1>2. req[r] \in InHand /\ req[r].rrn \in Stamps
  BY <1>1 DEF TypeOK
<1>3. c \in Rows /\ c.rrn = req[r].rrn /\ (c.sent <=> req[r].status = "SENT")
  BY <1>2, Zenon DEF InHand, Rows
<1> HIDE DEF c
<1>4. log \in Seq(Rows)
  BY DEF TypeOK
<1>5. log' \in Seq(Rows) /\ Len(log') = Len(log) + 1 /\ log'[Len(log) + 1] = c
  BY <1>1, <1>3, <1>4, AppendProperties, SMTT(30)
<1>6. \A i \in 1..Len(log) : log'[i] = log[i]
  BY <1>1, <1>3, <1>4, AppendProperties
<1> QED BY <1>1, <1>3, <1>5, <1>6, SMTT(30)

(* A step of one request leaves the entries of the others. *)
LEMMA OtherEntries ==
    ASSUME TypeOK, NEW r \in Requests, NEW c \in InHand, req' = [req EXCEPT ![r] = c],
           c.at \in {"begin", "insert"} => c.rrn \in Stamps
    PROVE  /\ req' \in [Requests -> InHand] /\ req'[r] = c
           /\ \A q \in Requests \ {r} : req'[q] = req[q]
           /\ \A q \in Requests : req'[q].at \in {"begin", "insert"} => req'[q].rrn \in Stamps
<1>1. req \in [Requests -> InHand]
  BY DEF TypeOK
<1>2. req' \in [Requests -> InHand] /\ req'[r] = c /\ \A q \in Requests \ {r} : req'[q] = req[q]
  BY <1>1
<1> QED BY <1>2 DEF TypeOK

(* UpdateStatusFrom changes a status and nothing else. *)
LEMMA UpdateEntry ==
    ASSUME TypeOK, NEW id \in DOMAIN log, UpdateStatusFrom(id)
    PROVE  /\ log' \in Seq(Rows) /\ Len(log') = Len(log)
           /\ \A i \in DOMAIN log : /\ log'[i].rrn = log[i].rrn /\ log'[i].sent = log[i].sent
                                    /\ log'[i].createdAt = log[i].createdAt
                                    /\ log'[i].status = IF i = id THEN "APPROVED" ELSE log[i].status
<1> DEFINE c == [log[id] EXCEPT !.status = "APPROVED"]
<1>1. log \in Seq(Rows) /\ id \in 1..Len(log) /\ log[id] \in Rows
  BY LenProperties, ElementOfSeq DEF TypeOK
<1>2. log' = [log EXCEPT ![id] = c]
  BY DEF UpdateStatusFrom
<1>3. c \in Rows /\ c.rrn = log[id].rrn /\ c.sent = log[id].sent /\ c.createdAt = log[id].createdAt /\ c.status = "APPROVED"
  BY <1>1 DEF Rows
<1> HIDE DEF c
<1>4. /\ log' \in Seq(Rows) /\ Len(log') = Len(log)
      /\ \A i \in 1..Len(log) : log'[i] = IF i = id THEN c ELSE log[i]
  BY <1>1, <1>2, <1>3, ExceptSeq
<1>5. DOMAIN log = 1..Len(log)
  BY <1>1, LenProperties
<1> QED BY <1>3, <1>4, <1>5

(* The events: one more, or one committed. *)
LEMMA EventEntry ==
    ASSUME TypeOK, EventStep
    PROVE  /\ events' \in Seq(BOOLEAN) /\ DOMAIN events \subseteq DOMAIN events'
           /\ \A i \in DOMAIN events : events[i] => events'[i]
           /\ UNCHANGED <<clock, link, stan, req, log, walk, restarts, due, wrapped>>
<1>1. events \in Seq(BOOLEAN) /\ DOMAIN events = 1..Len(events) /\ Len(events) \in Nat
  BY LenProperties DEF TypeOK
<1>2. CASE AppendEvent
  <2>1. events' = Append(events, FALSE) /\ UNCHANGED <<clock, link, stan, req, log, walk, restarts, due, wrapped>>
    BY <1>2 DEF AppendEvent
  <2>2. /\ events' \in Seq(BOOLEAN) /\ Len(events') = Len(events) + 1
        /\ \A i \in 1..Len(events) : events'[i] = events[i]
    BY <1>1, <2>1, AppendProperties
  <2>3. DOMAIN events' = 1..Len(events')
    BY <2>2, LenProperties
  <2> QED BY <1>1, <2>1, <2>2, <2>3
<1>3. ASSUME NEW id \in DOMAIN events, CommitEvent(id)
      PROVE  /\ events' \in Seq(BOOLEAN) /\ DOMAIN events \subseteq DOMAIN events'
             /\ \A i \in DOMAIN events : events[i] => events'[i]
             /\ UNCHANGED <<clock, link, stan, req, log, walk, restarts, due, wrapped>>
  <2>1. events' = [events EXCEPT ![id] = TRUE] /\ UNCHANGED <<clock, link, stan, req, log, walk, restarts, due, wrapped>>
    BY <1>3 DEF CommitEvent
  <2>2. /\ events' \in Seq(BOOLEAN) /\ Len(events') = Len(events)
        /\ \A i \in 1..Len(events) : events'[i] = IF i = id THEN TRUE ELSE events[i]
    BY <1>1, <2>1, ExceptSeq
  <2>3. DOMAIN events' = 1..Len(events')
    BY <2>2, LenProperties
  <2> QED BY <1>1, <2>1, <2>2, <2>3
<1> QED BY <1>2, <1>3 DEF EventStep

(* The last STAN of the hour, as the log has it. *)
LEMMA LastSTAN ==
    ASSUME TypeOK, NEW h
    PROVE  /\ LastSTANInRRNPrefix(h) \in 0..(Modulus - 1)
           /\ \A i \in DOMAIN log : log[i].rrn.prefix = h => log[i].rrn.stan <= LastSTANInRRNPrefix(h)
<1> DEFINE S == {0} \cup {row.rrn.stan : row \in {r \in Range(log) : r.rrn.prefix = h}}
<1>1. \A i \in DOMAIN log : log[i] \in Rows
  BY LenProperties, ElementOfSeq DEF TypeOK
<1>2. \A row \in Range(log) : row \in Rows /\ row.rrn \in Stamps /\ row.rrn.stan \in 0..(Modulus - 1)
  BY <1>1 DEF Range, Rows, Stamps
<1>3. S \in SUBSET Nat /\ S # {} /\ \A s \in S : s <= Modulus - 1
  BY <1>2, TranLogAssumption
<1>4. Max(S) \in S /\ \A s \in S : s <= Max(S)
  <2>1. Modulus - 1 \in Nat
    BY TranLogAssumption
  <2> HIDE DEF S
  <2> QED BY <1>3, <2>1, Greatest, Zenon
<1>5. LastSTANInRRNPrefix(h) = Max(S)
  BY DEF LastSTANInRRNPrefix
<1>6. ASSUME NEW i \in DOMAIN log, log[i].rrn.prefix = h
      PROVE  log[i].rrn.stan \in S
  BY <1>6 DEF Range
<1> HIDE DEF S
<1>7. Max(S) \in 0..(Modulus - 1)
  <2>1. Max(S) \in Nat /\ Max(S) <= Modulus - 1
    BY <1>3, <1>4, Zenon
  <2>2. Modulus \in Nat
    BY TranLogAssumption
  <2> QED BY <2>1, <2>2
<1>8. \A i \in DOMAIN log : log[i].rrn.prefix = h => log[i].rrn.stan <= Max(S)
  BY <1>4, <1>6
<1> QED BY <1>5, <1>7, <1>8

(* Every step preserves the types. *)
LEMMA TypeStep ==
    ASSUME TypeOK, [Next]_vars
    PROVE  TypeOK'
<1>1. CASE Tick \/ Connection \/ DrawOther \/ UNCHANGED vars
  BY <1>1 DEF TypeOK, Tick, Connection, DrawOther, NextSTAN, vars
<1>2. CASE Resume
  <2>1. Hour \in Nat /\ LastSTANInRRNPrefix(Hour) \in Nat
    BY HourFacts, LastSTAN DEF Hour, TypeOK
  <2>2. Max({stan, LastSTANInRRNPrefix(Hour)}) \in Nat
    <3> DEFINE S == {stan, LastSTANInRRNPrefix(Hour)}
    <3>1. S \in SUBSET Nat /\ S # {} /\ \E n \in Nat : \A s \in S : s <= n
      BY <2>1 DEF TypeOK
    <3> HIDE DEF S
    <3>2. Max(S) \in S
      BY <3>1, Greatest
    <3> QED BY <3>1, <3>2 DEF S
  <2> QED BY <1>2, <2>2 DEF Resume, TypeOK
<1>3. CASE Restart
  <2>1. req' = [r \in Requests |-> Idle] /\ stan' = 0 /\ link' = "boot" /\ UNCHANGED <<clock, log, events>>
    BY <1>3 DEF Restart
  <2>2. req' \in [Requests -> InHand] /\ \A r \in Requests : req'[r].at = "idle"
    BY <2>1, IdleFacts
  <2> QED BY <2>1, <2>2 DEF TypeOK
<1>4. ASSUME NEW r \in Requests, Draw(r) \/ LinkDown(r) \/ Name(r) \/ BeginInsert(r) PROVE TypeOK'
  <2>1. /\ req'[r] \in InHand /\ req' = [req EXCEPT ![r] = req'[r]]
        /\ req'[r].at \in {"begin", "insert"} => req'[r].rrn \in Stamps
    BY <1>4, DrawEntry, LinkDownEntry, NameEntry, BeginEntry, Zenon DEF TypeOK
  <2>2. /\ req' \in [Requests -> InHand]
        /\ \A q \in Requests : req'[q].at \in {"begin", "insert"} => req'[q].rrn \in Stamps
    BY <2>1, OtherEntries
  <2>3. UNCHANGED <<clock, link, log, events>> /\ stan' \in Nat
    BY <1>4 DEF Draw, LinkDown, Name, BeginInsert, NextSTAN, TypeOK
  <2> QED BY <2>2, <2>3 DEF TypeOK
<1>5. ASSUME NEW r \in Requests, CommitInsert(r) PROVE TypeOK'
  <2>1. req' = [req EXCEPT ![r] = Idle] /\ log' \in Seq(Rows)
    BY <1>5, CommitEntry
  <2>2. /\ req' \in [Requests -> InHand]
        /\ \A q \in Requests : req'[q].at \in {"begin", "insert"} => req'[q].rrn \in Stamps
    BY <2>1, OtherEntries, IdleFacts, Zenon
  <2>3. UNCHANGED <<clock, link, stan, events>>
    BY <1>5 DEF CommitInsert
  <2> QED BY <2>1, <2>2, <2>3 DEF TypeOK
<1>6. CASE UpdateStep
  <2>1. PICK id \in DOMAIN log : UpdateStatusFrom(id)
    BY <1>6 DEF UpdateStep
  <2>2. log' \in Seq(Rows) /\ UNCHANGED <<clock, link, stan, req, events>>
    BY <2>1, UpdateEntry, Zenon DEF UpdateStatusFrom
  <2> QED BY <2>2 DEF TypeOK
<1>7. CASE EventStep
  <2>1. events' \in Seq(BOOLEAN) /\ UNCHANGED <<clock, link, stan, req, log>>
    BY <1>7, EventEntry
  <2> QED BY <2>1 DEF TypeOK
<1>8. CASE HandleListTransactions \/ HandleListNetworkEvents
  BY <1>8 DEF HandleListTransactions, HandleListNetworkEvents, ReadPage, TypeOK
<1> QED BY <1>1, <1>2, <1>3, <1>4, <1>5, <1>6, <1>7, <1>8 DEF Next, RequestStep

(***************************************************************************)
(* Numbers.                                                                *)
(***************************************************************************)
Numbered(r) == req[r].at = "numbered"
Named(r) == req[r].at \in {"begin", "insert"} /\ req[r].status = "SENT"

(* An RRN that a request which is to be sent, or was, has. *)
Used(x) ==
    \/ \E i \in DOMAIN log : log[i].sent /\ log[i].rrn = x
    \/ \E r \in Requests : Named(r) /\ req[r].rrn = x

(* Counts are drawn once, and no request outlives the gateway that drew its count. *)
CountInv ==
    /\ link = "boot" => stan = 0 /\ \A r \in Requests : ~Numbered(r) /\ ~Named(r)
    /\ \A r \in Requests : Numbered(r) => req[r].count <= stan /\ req[r].status = "SENT"
    /\ \A r, q \in Requests : r # q /\ Numbered(r) /\ Numbered(q) => req[r].count # req[q].count

(* In an hour that did not wrap, the RRNs of the hour are up to the count's, and none is that of a
   count a request has still to name. *)
HourInv ==
    /\ \A x \in Stamps : Used(x) => x.prefix <= Hour
    /\ Hour \notin wrapped /\ link # "boot" => \A x \in Stamps : Used(x) /\ x.prefix = Hour => x.stan <= STAN(stan)
    /\ Hour \notin wrapped => \A r \in Requests :
         Numbered(r) /\ req[r].count \div Modulus = stan \div Modulus => ~Used(BuildRRN(Hour, STAN(req[r].count)))

(* RRNUnique, for the requests whose rows are not yet inserted too. *)
UniqueInv ==
    /\ RRNUnique
    /\ \A i \in DOMAIN log, r \in Requests :
         log[i].sent /\ Named(r) /\ log[i].rrn = req[r].rrn => req[r].rrn.prefix \in wrapped
    /\ \A q, r \in Requests : q # r /\ Named(q) /\ Named(r) /\ req[q].rrn = req[r].rrn => req[r].rrn.prefix \in wrapped

NumberInv == CountInv /\ HourInv /\ UniqueInv

(* Steps that give nothing a number: time passes, the link comes and goes, a declined request or an
   INSERT begins, a status changes, a page is read. *)
LEMMA SameNumbers ==
    ASSUME TypeOK, TypeOK', NumberInv, clock <= clock', UNCHANGED <<stan, wrapped>>,
           link' = "boot" <=> link = "boot", DOMAIN log' = DOMAIN log,
           \A i \in DOMAIN log : log'[i].rrn = log[i].rrn /\ log'[i].sent = log[i].sent,
           \A r \in Requests : Numbered(r)' => Numbered(r) /\ req'[r].count = req[r].count /\ req'[r].status = req[r].status,
           \A r \in Requests : (Named(r)' <=> Named(r)) /\ (Named(r) => req'[r].rrn = req[r].rrn)
    PROVE  NumberInv'
<1>1. Hour \in Nat /\ Hour' \in Nat /\ Hour <= Hour'
  BY HourFacts, Zenon DEF Hour, TypeOK
<1>2. \A x : Used(x)' <=> Used(x)
  BY DEF Used
<1>3. CountInv'
  BY SMTT(30) DEF NumberInv, CountInv
<1>4. UniqueInv'
  BY SMTT(30) DEF NumberInv, UniqueInv, RRNUnique
<1>5. \A x \in Stamps : Used(x) => x.prefix <= Hour
  BY SMTT(30) DEF NumberInv, HourInv
<1>6. CASE Hour' = Hour
  <2>1. \A x \in Stamps : Used(x)' => x.prefix <= Hour'
    BY <1>2, <1>5, <1>6
  <2>2. Hour \notin wrapped /\ link' # "boot" => \A x \in Stamps : Used(x)' /\ x.prefix = Hour => x.stan <= STAN(stan)
    BY <1>2 DEF NumberInv, HourInv
  <2>3. Hour \notin wrapped => \A r \in Requests :
          Numbered(r)' /\ req'[r].count \div Modulus = stan \div Modulus => ~Used(BuildRRN(Hour, STAN(req'[r].count)))
    BY Zenon DEF NumberInv, HourInv
  <2>4. HourInv'
    BY <1>2, <1>6, <2>1, <2>2, <2>3, SMTT(30) DEF HourInv
  <2> QED BY <1>3, <1>4, <2>4, SMTT(30) DEF NumberInv
<1>7. CASE Hour' # Hour
  <2>1. Hour < Hour'
    BY <1>1, <1>7
  <2>2. \A x \in Stamps : x.prefix \in Nat
    BY DEF Stamps
  <2>3. \A x \in Stamps : Used(x) => x.prefix < Hour'
    BY <1>1, <1>5, <2>1, <2>2, SMTT(30)
  <2>4. \A n \in Nat : BuildRRN(Hour', STAN(n)) \in Stamps /\ BuildRRN(Hour', STAN(n)).prefix = Hour'
    BY <1>1, StanFacts, Zenon DEF BuildRRN, Stamps
  <2>5. \A n \in Nat : ~Used(BuildRRN(Hour', STAN(n)))
    BY <1>1, <2>3, <2>4
  <2>6. \A r \in Requests : req'[r].count \in Nat
    BY Zenon DEF TypeOK, InHand
  <2>7. \A x \in Stamps : Used(x)' => x.prefix <= Hour' /\ x.prefix # Hour'
    BY <1>1, <1>2, <2>2, <2>3, SMTT(30)
  <2>8. \A r \in Requests : (~Used(BuildRRN(Hour, STAN(req[r].count))))'
    BY <1>2, <2>5, <2>6, SMTT(30)
  <2> QED BY <1>3, <1>4, <2>7, <2>8, Zenon DEF NumberInv, HourInv
<1> QED BY <1>3, <1>4, <1>6, <1>7, Zenon DEF NumberInv

(* NextSTAN: a count beyond every STAN of the hour, unless it wraps. *)
LEMMA CountUp ==
    ASSUME TypeOK, TypeOK', NumberInv, NextSTAN, UNCHANGED <<clock, link, log>>,
           \A r \in Requests : Numbered(r)' => \/ req'[r].count = stan' /\ req'[r].status = "SENT"
                                               \/ req'[r] = req[r],
           \A r, q \in Requests : r # q => req'[r] = req[r] \/ req'[q] = req[q],
           \A r \in Requests : Named(r)' <=> Named(r),
           \A r \in Requests : Named(r) => req'[r].rrn = req[r].rrn
    PROVE  NumberInv'
<1>1. stan' = stan + 1 /\ link # "boot" /\ wrapped \subseteq wrapped' /\ (STAN(stan') = 0 => Hour \in wrapped')
  BY SMTT(30) DEF NextSTAN
<1>2. \A x : Used(x)' <=> Used(x)
  BY SMTT(30) DEF Used
<1>3. \A r \in Requests : req[r].count \in Nat /\ req'[r].count \in Nat
  BY DEF TypeOK, InHand
<1>4. \A r \in Requests : Numbered(r) => req[r].count <= stan /\ req[r].status = "SENT"
  BY Zenon DEF NumberInv, CountInv
<1>5. stan \in Nat
  BY DEF TypeOK
<1>6. CountInv'
  <2>1. \A r \in Requests : Numbered(r)' => req'[r].count <= stan' /\ req'[r].status = "SENT"
    BY <1>1, <1>3, <1>4, <1>5 DEF Numbered
  <2>2. ASSUME NEW r \in Requests, NEW q \in Requests, r # q, Numbered(r)', Numbered(q)', req'[r] = req[r]
        PROVE  req'[r].count # req'[q].count
    <3>1. req[r].count <= stan
      BY <1>4, <2>2 DEF Numbered
    <3>2. CASE req'[q] = req[q]
      BY <2>2, <3>2, Zenon DEF NumberInv, CountInv, Numbered
    <3>3. CASE req'[q].count = stan'
      BY <1>1, <1>3, <1>5, <2>2, <3>1, <3>3
    <3> QED BY <2>2, <3>2, <3>3, SMTT(30)
  <2>3. link' # "boot"
    BY <1>1, SMTT(30)
  <2> QED BY <2>1, <2>2, <2>3, Zenon DEF CountInv
<1>7. UniqueInv'
  BY <1>1 DEF NumberInv, UniqueInv, RRNUnique
<1>8. Hour' = Hour /\ Hour \in Nat
  <2>1. clock \in Nat
    BY DEF TypeOK
  <2> QED BY <2>1, HourFacts DEF Hour
<1>9. CASE Hour \in wrapped'
  BY <1>2, <1>6, <1>7, <1>8, <1>9, Zenon DEF NumberInv, HourInv
<1>10. CASE Hour \notin wrapped'
  <2>1. STAN(stan') = STAN(stan) + 1 /\ stan' \div Modulus = stan \div Modulus
    BY <1>1, <1>5, <1>10, DivisionNext, TranLogAssumption, Zenon DEF STAN
  <2>2. \A x \in Stamps : Used(x) /\ x.prefix = Hour => x.stan <= STAN(stan)
    BY <1>1, <1>10, SMTT(30) DEF NumberInv, HourInv
  <2>3. STAN(stan) \in Nat /\ \A x \in Stamps : x.stan \in Nat
    BY <1>5, StanFacts, SMTT(30) DEF Stamps
  <2>4. \A x \in Stamps : Used(x)' /\ x.prefix = Hour' => x.stan <= STAN(stan')
    BY <1>2, <1>8, <2>1, <2>2, <2>3, SMTT(30)
  <2>5. ASSUME NEW r \in Requests, Numbered(r)', req'[r].count \div Modulus = stan' \div Modulus
        PROVE  ~Used(BuildRRN(Hour, STAN(req'[r].count)))
    <3>1. CASE req'[r] = req[r]
      BY <1>1, <1>10, <2>1, <2>5, <3>1, SMTT(30) DEF NumberInv, HourInv, Numbered
    <3>2. CASE req'[r].count = stan'
      <4>1. BuildRRN(Hour, STAN(stan')) \in Stamps
        BY <1>1, <1>5, <1>8, StanFacts, SMTT(30) DEF BuildRRN, Stamps
      <4>2. BuildRRN(Hour, STAN(stan')).prefix = Hour /\ BuildRRN(Hour, STAN(stan')).stan = STAN(stan) + 1
        BY <2>1, SMTT(30) DEF BuildRRN
      <4>3. ~(STAN(stan) + 1 <= STAN(stan))
        BY <2>3, SMTT(30)
      <4> QED BY <2>2, <3>2, <4>1, <4>2, <4>3, Zenon
    <3> QED BY <2>5, <3>1, <3>2, Zenon
  <2>6. \A x \in Stamps : Used(x)' => x.prefix <= Hour'
    BY <1>2, <1>8, Zenon DEF NumberInv, HourInv
  <2>7. HourInv'
    BY <1>2, <1>8, <2>4, <2>5, <2>6, SMTT(30) DEF HourInv
  <2> QED BY <1>6, <1>7, <2>7, Zenon DEF NumberInv
<1> QED BY <1>9, <1>10, SMTT(30)

(* BuildRRN: the request's count is of this hour's round, or the hour has wrapped. *)
LEMMA NameNumbers ==
    ASSUME TypeOK, NumberInv, NEW r \in Requests, Name(r)
    PROVE  NumberInv'
<1> DEFINE c == req[r].count
           x == BuildRRN(Hour, STAN(c))
<1>1. /\ Numbered(r) /\ ~Numbered(r)' /\ ~Named(r) /\ Named(r)' /\ req'[r].rrn = x /\ x \in Stamps
      /\ \A q \in Requests \ {r} : req'[q] = req[q]
  <2>1. req[r].status = "SENT"
    BY NameEntry, SMTT(30) DEF NumberInv, CountInv, Numbered
  <2>2. \A q \in Requests \ {r} : req'[q] = req[q]
    BY NameEntry, OtherEntries, SMTT(30)
  <2> QED BY <2>1, <2>2, NameEntry, SMTT(30) DEF Numbered, Named
<1>2. /\ x.prefix = Hour /\ x.stan = STAN(c) /\ c \in Nat /\ stan \in Nat /\ c <= stan
      /\ \A q \in Requests : req[q].count \in Nat
  BY <1>1, Zenon DEF BuildRRN, TypeOK, InHand, NumberInv, CountInv
<1>3. /\ UNCHANGED <<clock, link, stan, log>> /\ Hour' = Hour /\ wrapped \subseteq wrapped'
      /\ Hour \notin wrapped' => stan \div Modulus = c \div Modulus
  BY DEF Name, Hour
<1>4. link # "boot"
  BY <1>1, SMTT(30) DEF NumberInv, CountInv
<1>5. Hour \notin wrapped' => ~Used(x)
  BY <1>1, <1>3, Zenon DEF NumberInv, HourInv
<1>6. \A y : Used(y)' => Used(y) \/ y = x
  BY <1>1, <1>3, Zenon DEF Used, Named
<1> HIDE DEF c, x
<1>7. CountInv'
  <2>1. \A q \in Requests : Numbered(q)' => Numbered(q) /\ q # r /\ req'[q] = req[q]
    BY <1>1 DEF Numbered
  <2> QED BY <1>3, <1>4, <2>1, Zenon DEF NumberInv, CountInv
<1>8. UniqueInv'
  <2>1. RRNUnique'
    BY <1>3, Zenon DEF NumberInv, UniqueInv, RRNUnique
  <2>2. \A q \in Requests : Named(q)' /\ q # r => Named(q) /\ req'[q] = req[q]
    BY <1>1, Zenon DEF Named
  <2>3. Used(x) => x.prefix \in wrapped'
    BY <1>2, <1>5
  <2>4. ASSUME NEW i \in DOMAIN log, NEW q \in Requests, log[i].sent, Named(q)', log[i].rrn = req'[q].rrn
        PROVE  req'[q].rrn.prefix \in wrapped'
    <3>1. CASE q = r
      BY <1>1, <2>3, <2>4, <3>1, SMTT(30) DEF Used
    <3>2. CASE q # r
      BY <1>3, <2>2, <2>4, <3>2, Zenon DEF NumberInv, UniqueInv
    <3> QED BY <3>1, <3>2
  <2>5. ASSUME NEW p \in Requests, NEW q \in Requests, p # q, Named(p)', Named(q)', req'[p].rrn = req'[q].rrn
        PROVE  req'[q].rrn.prefix \in wrapped'
    <3>1. CASE p = r \/ q = r
      BY <1>1, <2>2, <2>3, <2>5, <3>1, Zenon DEF Used
    <3>2. CASE p # r /\ q # r
      BY <1>3, <2>2, <2>5, <3>2, Zenon DEF NumberInv, UniqueInv
    <3> QED BY <3>1, <3>2
  <2> QED BY <1>3, <2>1, <2>4, <2>5, SMTT(30) DEF UniqueInv
<1>9. HourInv'
  <2>0. Hour \in Nat
    <3>1. clock \in Nat
      BY DEF TypeOK
    <3> QED BY <3>1, HourFacts DEF Hour
  <2>1. \A y \in Stamps : Used(y)' => y.prefix <= Hour
    BY <1>2, <1>6, <2>0 DEF NumberInv, HourInv
  <2>2. ASSUME Hour \notin wrapped'
        PROVE  \A y \in Stamps : Used(y)' /\ y.prefix = Hour => y.stan <= STAN(stan)
    <3>1. STAN(c) <= STAN(stan)
      BY <1>2, <1>3, <2>2, DivisionOrder, TranLogAssumption, Zenon DEF STAN
    <3>2. \A y \in Stamps : Used(y) /\ y.prefix = Hour => y.stan <= STAN(stan)
      BY <1>3, <1>4, <2>2 DEF NumberInv, HourInv
    <3> QED BY <1>2, <1>6, <3>1, <3>2
  <2>3. ASSUME Hour \notin wrapped', NEW q \in Requests, Numbered(q)', req'[q].count \div Modulus = stan \div Modulus
        PROVE  (~Used(BuildRRN(Hour, STAN(req[q].count))))'
    <3> DEFINE y == BuildRRN(Hour, STAN(req[q].count))
    <3>1. Numbered(q) /\ q # r /\ req'[q] = req[q]
      BY <1>1, <2>3, SMTT(30) DEF Numbered
    <3>2. ~Used(y)
      BY <1>3, <2>3, <3>1, Zenon DEF NumberInv, HourInv
    <3>3. req[q].count # c
      BY <1>1, <3>1, SMTT(30) DEF NumberInv, CountInv, c
    <3>4. STAN(req[q].count) # STAN(c)
      BY <1>2, <1>3, <2>3, <3>1, <3>3, DivisionOrder, TranLogAssumption, Zenon DEF STAN
    <3>5. y # x
      BY <1>2, <3>4 DEF BuildRRN
    <3>6. y' = y
      BY <1>3, <3>1 DEF BuildRRN, STAN
    <3> HIDE DEF y
    <3>7. ~Used(y)' /\ y' = y
      BY <1>6, <3>2, <3>5, <3>6
    <3> QED BY <3>7 DEF y
  <2> QED BY <1>3, <2>1, <2>2, <2>3, Zenon DEF HourInv
<1> QED BY <1>7, <1>8, <1>9 DEF NumberInv

(* Insert: the RRN is the row's, and no longer the request's. *)
LEMMA CommitNumbers ==
    ASSUME TypeOK, NumberInv, NEW r \in Requests, CommitInsert(r)
    PROVE  NumberInv'
<1> DEFINE n == Len(log) + 1
<1>1. /\ ~Numbered(r) /\ ~Numbered(r)' /\ ~Named(r)' /\ \A q \in Requests \ {r} : req'[q] = req[q]
  BY CommitEntry, OtherEntries, IdleFacts DEF Numbered, Named
<1>2. /\ DOMAIN log = 1..Len(log) /\ DOMAIN log' = 1..n /\ Len(log) \in Nat
      /\ \A i \in 1..Len(log) : log'[i] = log[i]
      /\ log'[n].rrn = req[r].rrn /\ (log'[n].sent <=> Named(r))
  <2>1. Len(log') = n /\ log' \in Seq(Rows) /\ log \in Seq(Rows)
    BY CommitEntry DEF TypeOK
  <2> QED BY <2>1, CommitEntry, LenProperties DEF Named
<1>3. UNCHANGED <<clock, link, stan, wrapped>> /\ Hour' = Hour
  BY DEF CommitInsert, Hour
<1> HIDE DEF n
<1>4. \A i \in DOMAIN log' : i = n \/ (i \in DOMAIN log /\ log'[i] = log[i])
  BY <1>2 DEF n
<1>5. \A q \in Requests : (Named(q)' => Named(q) /\ q # r /\ req'[q] = req[q]) /\ (Numbered(q)' => Numbered(q) /\ req'[q] = req[q])
  BY <1>1 DEF Named, Numbered
<1>6. \A x : Used(x)' => Used(x)
  BY <1>2, <1>4, <1>5, Zenon DEF Used
<1>7. CountInv'
  BY <1>3, <1>5, Zenon DEF NumberInv, CountInv
<1>8. HourInv'
  <2>1. \A x \in Stamps : Used(x)' => x.prefix <= Hour
    BY <1>6, Zenon DEF NumberInv, HourInv
  <2>2. Hour \notin wrapped /\ link # "boot" => \A x \in Stamps : Used(x)' /\ x.prefix = Hour => x.stan <= STAN(stan)
    BY <1>6, SMTT(30) DEF NumberInv, HourInv
  <2>3. ASSUME Hour \notin wrapped, NEW q \in Requests, Numbered(q)', req'[q].count \div Modulus = stan \div Modulus
        PROVE  ~Used(BuildRRN(Hour, STAN(req'[q].count)))
    BY <1>5, <2>3, Zenon DEF NumberInv, HourInv
  <2> QED BY <1>3, <1>6, <2>1, <2>2, <2>3, SMTT(30) DEF HourInv
<1>9. UniqueInv'
  <2>1. ASSUME NEW i \in DOMAIN log', NEW j \in DOMAIN log', i # j, log'[i].sent, log'[j].sent, log'[i].rrn = log'[j].rrn
        PROVE  log'[i].rrn.prefix \in wrapped
    <3>1. CASE i = n
      BY <1>2, <1>4, <2>1, <3>1, SMTT(30) DEF NumberInv, UniqueInv
    <3>2. CASE j = n
      BY <1>2, <1>4, <2>1, <3>2, SMTT(30) DEF NumberInv, UniqueInv
    <3>3. CASE i # n /\ j # n
      BY <1>4, <2>1, <3>3, SMTT(30) DEF NumberInv, UniqueInv, RRNUnique
    <3> QED BY <3>1, <3>2, <3>3
  <2>2. ASSUME NEW i \in DOMAIN log', NEW q \in Requests, log'[i].sent, Named(q)', log'[i].rrn = req'[q].rrn
        PROVE  req'[q].rrn.prefix \in wrapped
    <3>1. CASE i = n
      BY <1>2, <1>5, <2>2, <3>1, Zenon DEF NumberInv, UniqueInv
    <3>2. CASE i # n
      BY <1>4, <1>5, <2>2, <3>2, Zenon DEF NumberInv, UniqueInv
    <3> QED BY <3>1, <3>2
  <2>3. \A p, q \in Requests : p # q /\ Named(p)' /\ Named(q)' /\ req'[p].rrn = req'[q].rrn => req'[q].rrn.prefix \in wrapped
    BY <1>5, Zenon DEF NumberInv, UniqueInv
  <2>4. RRNUnique'
    BY <1>3, <2>1 DEF RRNUnique
  <2> QED BY <1>3, <2>2, <2>3, <2>4, Zenon DEF UniqueInv
<1> QED BY <1>7, <1>8, <1>9 DEF NumberInv

(* A restart loses the count and the requests under way. *)
LEMMA RestartNumbers ==
    ASSUME TypeOK, NumberInv, Restart
    PROVE  NumberInv'
<1>1. /\ link' = "boot" /\ stan' = 0 /\ UNCHANGED <<clock, log, wrapped>> /\ Hour' = Hour
      /\ \A r \in Requests : req'[r] = Idle
  BY DEF Restart, Hour
<1>2. \A r \in Requests : ~Numbered(r)' /\ ~Named(r)'
  BY <1>1, IdleFacts, SMTT(30) DEF Numbered, Named
<1>3. \A x : Used(x)' => Used(x)
  BY <1>1, <1>2 DEF Used
<1>4. CountInv'
  BY <1>1, <1>2 DEF CountInv
<1>5. HourInv'
  BY <1>1, <1>2, <1>3 DEF NumberInv, HourInv
<1>6. UniqueInv'
  BY <1>1, <1>2, SMTT(30) DEF NumberInv, UniqueInv, RRNUnique
<1> QED BY <1>4, <1>5, <1>6 DEF NumberInv

(* ResumeSTANAfter: the count goes on from the hour's last STAN. *)
LEMMA ResumeNumbers ==
    ASSUME TypeOK, NumberInv, Resume
    PROVE  NumberInv'
<1> DEFINE last == LastSTANInRRNPrefix(Hour)
<1>1. /\ link = "boot" /\ link' = "down" /\ UNCHANGED <<clock, req, log, wrapped>> /\ Hour' = Hour
      /\ stan' = Max({stan, last})
  BY DEF Resume, Hour
<1>2. stan = 0 /\ \A r \in Requests : ~Numbered(r) /\ ~Named(r)
  BY <1>1 DEF NumberInv, CountInv
<1>3. last \in 0..(Modulus - 1) /\ \A i \in DOMAIN log : log[i].rrn.prefix = Hour => log[i].rrn.stan <= last
  BY LastSTAN
<1> HIDE DEF last
<1>4. stan' = last
  <2> DEFINE S == {0, last}
  <2>1. S \in SUBSET Nat /\ S # {} /\ \E n \in Nat : \A s \in S : s <= n
    BY <1>3
  <2> HIDE DEF S
  <2>2. Max(S) \in S /\ \A s \in S : s <= Max(S)
    BY <2>1, Greatest
  <2>3. Max(S) = last
    BY <1>3, <2>2 DEF S
  <2> QED BY <1>1, <1>2, <2>3 DEF S
<1>5. STAN(stan') = last
  BY <1>3, <1>4, DivisionSmall, TranLogAssumption DEF STAN
<1>6. \A r \in Requests : ~Numbered(r)' /\ ~Named(r)'
  BY <1>1, <1>2 DEF Numbered, Named
<1>7. CountInv'
  BY <1>1, <1>6, SMTT(30) DEF CountInv
<1>8. HourInv'
  <2>1. \A x : Used(x)' => Used(x) /\ \E i \in DOMAIN log : log[i].rrn = x
    BY <1>1, <1>6, Zenon DEF Used
  <2>2. \A x \in Stamps : Used(x)' => x.prefix <= Hour
    BY <2>1 DEF NumberInv, HourInv
  <2>3. \A x \in Stamps : Used(x)' /\ x.prefix = Hour => x.stan <= last
    BY <1>3, <2>1
  <2> QED BY <1>1, <1>5, <1>6, <2>2, <2>3, Zenon DEF HourInv
<1>9. UniqueInv'
  BY <1>1, <1>6, Zenon DEF NumberInv, UniqueInv, RRNUnique
<1> QED BY <1>7, <1>8, <1>9 DEF NumberInv

(* The steps of one request. *)
LEMMA RequestNumbers ==
    ASSUME TypeOK, TypeOK', NumberInv, NEW r \in Requests,
           Draw(r) \/ LinkDown(r) \/ Name(r) \/ BeginInsert(r) \/ CommitInsert(r)
    PROVE  NumberInv'
<1>1. CASE Draw(r)
  <2>1. NextSTAN /\ UNCHANGED <<clock, link, log>>
    BY <1>1 DEF Draw
  <2>2. /\ req[r].at = "idle" /\ req'[r].at = "numbered" /\ req'[r].count = stan' /\ req'[r].status = "SENT"
        /\ \A q \in Requests \ {r} : req'[q] = req[q]
    BY <1>1, DrawEntry, OtherEntries, Zenon
  <2>3. \A q \in Requests : (Named(q)' <=> Named(q)) /\ (Named(q) => req'[q].rrn = req[q].rrn)
    BY <2>2, Zenon DEF Named
  <2>4. \A q \in Requests : Numbered(q)' => \/ req'[q].count = stan' /\ req'[q].status = "SENT"
                                            \/ req'[q] = req[q]
    BY <2>2, SMTT(30)
  <2>5. \A p, q \in Requests : p # q => req'[p] = req[p] \/ req'[q] = req[q]
    BY <2>2, Zenon
  <2> QED BY <2>1, <2>3, <2>4, <2>5, CountUp, Zenon
<1>2. CASE LinkDown(r) \/ BeginInsert(r)
  <2>1. UNCHANGED <<clock, link, stan, log, wrapped>> /\ clock \in Nat
    BY <1>2 DEF LinkDown, BeginInsert, TypeOK
  <2>2. /\ \A q \in Requests \ {r} : req'[q] = req[q]
        /\ ~Numbered(r)' /\ (Named(r)' <=> Named(r)) /\ (Named(r) => req'[r].rrn = req[r].rrn)
    <3>1. CASE LinkDown(r)
      <4>1. \A q \in Requests \ {r} : req'[q] = req[q]
        BY <3>1, LinkDownEntry, OtherEntries, ZenonT(30)
      <4> QED BY <3>1, <4>1, LinkDownEntry, Zenon DEF Numbered, Named
    <3>2. CASE BeginInsert(r)
      <4>1. \A q \in Requests \ {r} : req'[q] = req[q]
        BY <3>2, BeginEntry, OtherEntries, Zenon DEF TypeOK
      <4> QED BY <3>2, <4>1, BeginEntry, SMTT(30) DEF Numbered, Named
    <3> QED BY <1>2, <3>1, <3>2, Zenon
  <2>3. \A q \in Requests : (Named(q)' <=> Named(q)) /\ (Named(q) => req'[q].rrn = req[q].rrn)
    BY <2>2, Zenon DEF Named
  <2>4. \A q \in Requests : Numbered(q)' => Numbered(q) /\ req'[q].count = req[q].count /\ req'[q].status = req[q].status
    BY <2>2, Zenon DEF Numbered
  <2>5. clock <= clock'
    BY <2>1
  <2> QED BY <2>1, <2>3, <2>4, <2>5, SameNumbers, Zenon
<1> QED BY <1>1, <1>2, NameNumbers, CommitNumbers

(* Every step preserves the invariant of the numbers. *)
LEMMA NumberStep ==
    ASSUME TypeOK, NumberInv, [Next]_vars
    PROVE  NumberInv'
<1>0. TypeOK' /\ clock \in Nat
  BY TypeStep DEF TypeOK
<1>1. ASSUME UNCHANGED <<stan, req, wrapped>>, clock <= clock', link' = "boot" <=> link = "boot", DOMAIN log' = DOMAIN log,
             \A i \in DOMAIN log : log'[i].rrn = log[i].rrn /\ log'[i].sent = log[i].sent
      PROVE  NumberInv'
  <2>1. \A r \in Requests : Numbered(r)' => Numbered(r) /\ req'[r].count = req[r].count /\ req'[r].status = req[r].status
    BY <1>1 DEF Numbered
  <2>2. \A r \in Requests : (Named(r)' <=> Named(r)) /\ (Named(r) => req'[r].rrn = req[r].rrn)
    BY <1>1 DEF Named
  <2> QED BY <1>0, <1>1, <2>1, <2>2, SameNumbers, SMTT(30)
<1>2. CASE Tick
  BY <1>0, <1>1, <1>2 DEF Tick
<1>3. CASE Connection
  BY <1>0, <1>1, <1>3 DEF Connection
<1>4. CASE UNCHANGED vars
  BY <1>0, <1>1, <1>4 DEF vars
<1>5. CASE DrawOther
  <2>1. NextSTAN /\ UNCHANGED <<clock, link, log, req>>
    BY <1>5 DEF DrawOther
  <2>2. \A r \in Requests : req'[r] = req[r] /\ (Named(r)' <=> Named(r))
    BY <2>1 DEF Named
  <2> QED BY <1>0, <2>1, <2>2, CountUp
<1>6. CASE UpdateStep
  <2>1. PICK id \in DOMAIN log : UpdateStatusFrom(id)
    BY <1>6 DEF UpdateStep
  <2>2. UNCHANGED <<clock, link, stan, req, wrapped>>
    BY <2>1 DEF UpdateStatusFrom
  <2>3. DOMAIN log' = DOMAIN log /\ \A i \in DOMAIN log : log'[i].rrn = log[i].rrn /\ log'[i].sent = log[i].sent
    BY <2>1, UpdateEntry, LenProperties DEF TypeOK
  <2> QED BY <1>0, <1>1, <2>2, <2>3
<1>7. CASE EventStep
  <2>1. UNCHANGED <<clock, link, stan, req, log, wrapped>>
    BY <1>7, EventEntry
  <2> QED BY <1>0, <1>1, <2>1
<1>8. CASE HandleListTransactions \/ HandleListNetworkEvents
  <2>1. UNCHANGED <<clock, link, stan, req, log, wrapped>>
    BY <1>8 DEF HandleListTransactions, HandleListNetworkEvents, ReadPage
  <2> QED BY <1>0, <1>1, <2>1
<1>9. CASE RequestStep
  BY <1>0, <1>9, RequestNumbers DEF RequestStep
<1> QED BY <1>2, <1>3, <1>4, <1>5, <1>6, <1>7, <1>8, <1>9, ResumeNumbers, RestartNumbers DEF Next

(* The types and the numbers of every behaviour. *)
THEOREM Numbers == Spec => [](TypeOK /\ NumberInv)
<1>1. Init => TypeOK /\ NumberInv
  <2> SUFFICES ASSUME Init PROVE TypeOK /\ NumberInv
    OBVIOUS
  <2>1. /\ clock = 0 /\ stan = 0 /\ link = "boot" /\ log = <<>> /\ events = <<>>
        /\ req = [r \in Requests |-> Idle]
    BY DEF Init
  <2>2. req \in [Requests -> InHand] /\ \A r \in Requests : req[r].at = "idle"
    BY <2>1, IdleFacts
  <2>3. log \in Seq(Rows) /\ events \in Seq(BOOLEAN) /\ DOMAIN log = {}
    BY <2>1
  <2>4. TypeOK
    BY <2>1, <2>2, <2>3 DEF TypeOK
  <2>5. \A r \in Requests : ~Numbered(r) /\ ~Named(r)
    BY <2>2 DEF Numbered, Named
  <2>6. \A x : ~Used(x)
    BY <2>3, <2>5, SMTT(30) DEF Used
  <2>7. CountInv /\ HourInv /\ UniqueInv
    BY <2>1, <2>3, <2>5, <2>6, Zenon DEF CountInv, HourInv, UniqueInv, RRNUnique
  <2> QED BY <2>4, <2>7 DEF NumberInv
<1>2. TypeOK /\ NumberInv /\ [Next]_vars => TypeOK' /\ NumberInv'
  BY TypeStep, NumberStep
<1> QED BY <1>1, <1>2, PTL DEF Spec

(* NextSTAN, BuildRRN and ResumeSTANAfter: over any number of requests, restarts and hours, two
   requests that were sent have one RRN only in an hour in which the count wrapped. *)
THEOREM RRNsAreUnique == Spec => []RRNUnique
<1>1. TypeOK /\ NumberInv => RRNUnique
  BY DEF NumberInv, UniqueInv
<1> QED BY <1>1, Numbers, PTL

(***************************************************************************)
(* Pages.                                                                  *)
(***************************************************************************)
(* The ids of the list's table. *)
Ids == IF walk.list = "events" THEN DOMAIN events ELSE DOMAIN log

(* The rows of a page and of those after it. *)
Remaining == {id \in Listed : PastCursor(id)}

Newer(id) == {k \in Remaining : Before(Key(id), Key(k))}

(* (created_at, id) is a total order of the rows. *)
LEMMA KeyOrder ==
    ASSUME TypeOK
    PROVE  /\ \A a \in Ids : Key(a) \in Nat \X Nat /\ ~Before(Key(a), Key(a))
           /\ \A a, b \in Ids : a # b => Before(Key(a), Key(b)) \/ Before(Key(b), Key(a))
           /\ \A x, y, z \in Nat \X Nat : Before(x, y) /\ Before(y, z) => Before(x, z)
<1>1. \A a \in Ids : a \in Nat
  BY LenProperties DEF Ids, TypeOK
<1>2. \A a \in DOMAIN log : log[a].createdAt \in Nat
  <2>1. \A a \in DOMAIN log : log[a] \in Rows
    BY LenProperties, ElementOfSeq DEF TypeOK
  <2> QED BY <2>1 DEF Rows
<1>3. \A a \in Ids : Key(a) \in Nat \X Nat /\ Key(a)[2] = a
  BY <1>1, <1>2 DEF Key, Ids
<1>4. \A x \in Nat \X Nat : x[1] \in Nat /\ x[2] \in Nat
  OBVIOUS
<1>5. \A x, y, z \in Nat \X Nat : Before(x, y) /\ Before(y, z) => Before(x, z)
  BY <1>4 DEF Before
<1>6. \A x, y \in Nat \X Nat : x[2] # y[2] => Before(x, y) \/ Before(y, x)
  BY <1>4 DEF Before
<1>7. \A x \in Nat \X Nat : ~Before(x, x)
  BY <1>4 DEF Before
<1> QED BY <1>3, <1>5, <1>6, <1>7

(* The rows of the list are of its table, and finitely many. *)
LEMMA RemainingFacts ==
    ASSUME TypeOK
    PROVE  Remaining \subseteq Ids /\ IsFiniteSet(Remaining) /\ Cardinality(Remaining) \in Nat
<1>1. Remaining \subseteq Ids
  BY DEF Remaining, Listed, Ids
<1>2. IsFiniteSet(Ids)
  <2>1. \A k \in Nat : IsFiniteSet(1..k)
    BY FS_Interval
  <2>2. \E k \in Nat : DOMAIN log = 1..k
    BY LenProperties DEF TypeOK
  <2>3. \E k \in Nat : DOMAIN events = 1..k
    BY LenProperties DEF TypeOK
  <2> QED BY <2>1, <2>2, <2>3 DEF Ids
<1> QED BY <1>1, <1>2, FS_Subset, FS_CardinalityType

(* A row's place is the number of newer rows: no two have one place, and every place is taken. *)
LEMMA Places ==
    ASSUME TypeOK
    PROVE  /\ \A id \in Remaining : Cardinality(Newer(id)) \in 0..(Cardinality(Remaining) - 1)
           /\ \A a, b \in Remaining : Before(Key(a), Key(b)) => Cardinality(Newer(b)) < Cardinality(Newer(a))
           /\ \A i \in 0..(Cardinality(Remaining) - 1) : \E id \in Remaining : Cardinality(Newer(id)) = i
<1> DEFINE n == Cardinality(Remaining)
           place == [id \in Remaining |-> Cardinality(Newer(id))]
<1>1. Remaining \subseteq Ids /\ IsFiniteSet(Remaining) /\ n \in Nat
  BY RemainingFacts
<1>2. \A id \in Remaining : IsFiniteSet(Newer(id)) /\ Cardinality(Newer(id)) \in Nat
  BY <1>1, FS_Subset, FS_CardinalityType DEF Newer
<1>3. ASSUME NEW id \in Remaining
      PROVE  Cardinality(Newer(id)) \in 0..(n - 1)
  <2>1. Newer(id) \subseteq Remaining \ {id}
    BY <1>1, KeyOrder DEF Newer
  <2>2. IsFiniteSet(Remaining \ {id}) /\ Cardinality(Remaining \ {id}) = n - 1
    BY <1>1, FS_RemoveElement
  <2>3. Cardinality(Newer(id)) <= n - 1
    BY <2>1, <2>2, FS_Subset
  <2> QED BY <1>1, <1>2, <2>3
<1>4. ASSUME NEW a \in Remaining, NEW b \in Remaining, Before(Key(a), Key(b))
      PROVE  Cardinality(Newer(b)) < Cardinality(Newer(a))
  <2>1. Key(a) \in Nat \X Nat /\ Key(b) \in Nat \X Nat /\ \A k \in Remaining : Key(k) \in Nat \X Nat
    BY <1>1, KeyOrder
  <2>2. Newer(b) \subseteq Newer(a)
    BY <1>4, <2>1, KeyOrder DEF Newer
  <2>3. b \in Newer(a) /\ b \notin Newer(b)
    BY <1>1, <1>4, KeyOrder DEF Newer
  <2>4. Cardinality(Newer(b)) <= Cardinality(Newer(a)) /\ Cardinality(Newer(a)) # Cardinality(Newer(b))
    BY <1>2, <2>2, <2>3, FS_Subset
  <2> QED BY <1>2, <2>4
<1>5. \A a, b \in Remaining : a # b => Cardinality(Newer(a)) # Cardinality(Newer(b))
  BY <1>1, <1>2, <1>4, KeyOrder
<1>6. place \in Injection(Remaining, 0..(n - 1))
  BY <1>3, <1>5 DEF Injection, IsInjective
<1>7. IsFiniteSet(0..(n - 1)) /\ Cardinality(0..(n - 1)) = n
  BY <1>1, FS_Interval
<1> HIDE DEF place
<1>8. place \in Surjection(Remaining, 0..(n - 1))
  BY <1>1, <1>6, <1>7, FS_Injection
<1>9. \A i \in 0..(n - 1) : \E id \in Remaining : place[id] = i
  BY <1>8 DEF Surjection
<1>10. \A i \in 0..(n - 1) : \E id \in Remaining : Cardinality(Newer(id)) = i
  BY <1>9 DEF place
<1> QED BY <1>3, <1>4, <1>10

(* The lesser of two numbers. *)
LEMMA Lesser ==
    ASSUME NEW a \in Nat, NEW b \in Nat
    PROVE  Min({a, b}) = IF a <= b THEN a ELSE b
<1> DEFINE l == IF a <= b THEN a ELSE b
<1>1. l \in {a, b} /\ \A y \in {a, b} : l <= y
  OBVIOUS
<1>2. \A x \in {a, b} : (\A y \in {a, b} : x <= y) => x = l
  OBVIOUS
<1> HIDE DEF l
<1>3. Min({a, b}) = l
  BY <1>1, <1>2 DEF Min
<1> QED BY <1>3 DEF l

(* A page: rows of the list past the cursor, newest first; what it leaves out is older, and then the
   page is full. *)
LEMMA PageFacts ==
    ASSUME TypeOK
    PROVE  /\ Query \in Seq(Remaining) /\ Len(Query) \in 0..(PageSize + 1)
           /\ \A i, j \in 1..Len(Query) : i < j => Before(Key(Query[j]), Key(Query[i]))
           /\ \A id \in Remaining : \/ \E i \in 1..Len(Query) : id = Query[i]
                                    \/ /\ Len(Query) = PageSize + 1
                                       /\ \A i \in 1..Len(Query) : Before(Key(id), Key(Query[i]))
<1> DEFINE n == Cardinality(Remaining)
           m == Min({n, PageSize + 1})
<1>1. n \in Nat /\ Remaining \subseteq Ids
  BY RemainingFacts
<1>2. m = (IF n <= PageSize + 1 THEN n ELSE PageSize + 1) /\ PageSize \in Nat
  BY <1>1, Lesser, TranLogAssumption
<1>3. m \in Nat /\ m <= n /\ m <= PageSize + 1 /\ (m = n \/ m = PageSize + 1)
  BY <1>1, <1>2
<1>4. Query = [i \in 1..m |-> CHOOSE id \in Remaining : Cardinality(Newer(id)) = i - 1]
  BY DEF Query, Remaining, Newer
<1> HIDE DEF n, m
<1>5. \A i \in 1..m : Query[i] \in Remaining /\ Cardinality(Newer(Query[i])) = i - 1
  <2>1. ASSUME NEW i \in 1..m
        PROVE  Query[i] \in Remaining /\ Cardinality(Newer(Query[i])) = i - 1
    <3>1. i - 1 \in 0..(n - 1)
      BY <1>1, <1>3
    <3>2. \E id \in Remaining : Cardinality(Newer(id)) = i - 1
      BY <3>1, Places DEF n
    <3>3. Query[i] = CHOOSE id \in Remaining : Cardinality(Newer(id)) = i - 1
      BY <1>4
    <3> QED BY <3>2, <3>3
  <2> QED BY <2>1
<1>6. Query \in Seq(Remaining) /\ Len(Query) = m
  <2>1. Query \in [1..m -> Remaining]
    BY <1>4, <1>5
  <2> QED BY <1>3, <2>1
<1>7. \A a, b \in Remaining : Cardinality(Newer(a)) < Cardinality(Newer(b)) => Before(Key(b), Key(a))
  <2>1. ASSUME NEW a \in Remaining, NEW b \in Remaining, Cardinality(Newer(a)) < Cardinality(Newer(b))
        PROVE  Before(Key(b), Key(a))
    <3>1. Cardinality(Newer(a)) \in Nat /\ Cardinality(Newer(b)) \in Nat
      BY <1>1, Places DEF n
    <3>2. a # b /\ ~(Cardinality(Newer(b)) < Cardinality(Newer(a)))
      BY <2>1, <3>1
    <3>3. ~Before(Key(a), Key(b))
      BY <3>2, Places
    <3> QED BY <1>1, <3>2, <3>3, KeyOrder
  <2> QED BY <2>1
<1>8. \A i, j \in 1..m : i < j => Before(Key(Query[j]), Key(Query[i]))
  <2>1. ASSUME NEW i \in 1..m, NEW j \in 1..m, i < j
        PROVE  Before(Key(Query[j]), Key(Query[i]))
    <3>1. Cardinality(Newer(Query[i])) < Cardinality(Newer(Query[j]))
      BY <1>3, <1>5, <2>1
    <3> QED BY <1>5, <1>7, <3>1
  <2> QED BY <2>1
<1>9. ASSUME NEW id \in Remaining
      PROVE  \/ \E i \in 1..m : id = Query[i]
             \/ m = PageSize + 1 /\ \A i \in 1..m : Before(Key(id), Key(Query[i]))
  <2> DEFINE k == Cardinality(Newer(id))
  <2>1. k \in 0..(n - 1)
    BY Places DEF n
  <2>2. CASE k < m
    <3>1. k + 1 \in 1..m
      BY <1>3, <2>1, <2>2
    <3>2. Query[k + 1] \in Remaining /\ Cardinality(Newer(Query[k + 1])) = k
      BY <1>5, <2>1, <3>1
    <3>3. ~Before(Key(id), Key(Query[k + 1])) /\ ~Before(Key(Query[k + 1]), Key(id))
      <4>1. ~(k < k)
        BY <2>1
      <4> QED BY <3>2, <4>1, Places, SMTT(30)
    <3>4. id = Query[k + 1]
      BY <1>1, <3>2, <3>3, KeyOrder
    <3> QED BY <3>1, <3>4
  <2>3. CASE ~(k < m)
    <3>1. m = PageSize + 1
      BY <1>1, <1>3, <2>1, <2>3
    <3>2. \A i \in 1..m : Cardinality(Newer(Query[i])) < k
      BY <1>3, <1>5, <2>1, <2>3
    <3> QED BY <1>5, <1>7, <3>1, <3>2
  <2> QED BY <2>2, <2>3
<1> QED BY <1>2, <1>3, <1>6, <1>8, <1>9

(* The client has seen rows newest first; a row that is due it has seen, or the cursor has not passed. *)
WalkInv ==
    /\ walk \in [at : {"first", "next", "end"}, list : {"none", "transactions", "events"}, filter : Filters,
                 cursor : (Nat \X Nat) \cup {None}, seen : Seq(Nat)]
    /\ \A i \in 1..Len(walk.seen) : walk.seen[i] \in Ids
    /\ walk.at = "first" => walk.seen = <<>> /\ walk.cursor = None /\ due = {}
    /\ walk.at = "next" => Len(walk.seen) > 0 /\ walk.cursor = Key(walk.seen[Len(walk.seen)])
    /\ due \subseteq Listed
    /\ \A id \in due : \/ \E i \in 1..Len(walk.seen) : walk.seen[i] = id
                       \/ walk.at = "next" /\ Before(Key(id), walk.cursor)
    /\ ListedOnce

(* Steps that read no page keep the rows, their keys, and on the list those that are due. *)
LEMMA WalkKept ==
    ASSUME WalkInv, UNCHANGED walk, Ids \subseteq Ids', \A id \in Ids : Key(id)' = Key(id),
           due' \subseteq due, due' \subseteq Listed'
    PROVE  WalkInv'
<1>1. walk.seen \in Seq(Nat) /\ DOMAIN walk.seen = 1..Len(walk.seen) /\ Len(walk.seen) \in Nat
  BY LenProperties DEF WalkInv
<1>2. \A i \in 1..Len(walk.seen) : walk.seen[i] \in Ids /\ Key(walk.seen[i])' = Key(walk.seen[i])
  BY DEF WalkInv
<1>3. \A id \in due : id \in Ids /\ Key(id)' = Key(id)
  BY DEF WalkInv, Listed, Ids
<1>4. ListedOnce'
  BY <1>1, <1>2 DEF WalkInv, ListedOnce
<1>5. walk.at = "next" => Len(walk.seen) > 0 /\ walk.cursor = Key(walk.seen[Len(walk.seen)])'
  BY <1>1, <1>2 DEF WalkInv
<1>6. \A id \in due' : \/ \E i \in 1..Len(walk.seen) : walk.seen[i] = id
                       \/ walk.at = "next" /\ Before(Key(id)', walk.cursor)
  BY <1>3 DEF WalkInv
<1>7. walk.at = "first" => walk.seen = <<>> /\ walk.cursor = None /\ due' = {}
  BY DEF WalkInv
<1>8. /\ walk \in [at : {"first", "next", "end"}, list : {"none", "transactions", "events"}, filter : Filters,
                   cursor : (Nat \X Nat) \cup {None}, seen : Seq(Nat)]
      /\ \A i \in 1..Len(walk.seen) : walk.seen[i] \in Ids'
  BY DEF WalkInv
<1> QED BY <1>4, <1>5, <1>6, <1>7, <1>8 DEF WalkInv

(* What a page adds to the walk. *)
LEMMA PageRead ==
    ASSUME TypeOK, WalkInv, ReadPage
    PROVE  LET more == Len(Query) > PageSize
               m == IF more THEN PageSize ELSE Len(Query)
           IN  /\ walk' = [walk EXCEPT !.seen = walk'.seen, !.cursor = walk'.cursor, !.at = walk'.at]
               /\ walk'.seen \in Seq(Nat) /\ Len(walk'.seen) = Len(walk.seen) + m /\ m \in Nat
               /\ \A i \in 1..Len(walk.seen) : walk'.seen[i] = walk.seen[i]
               /\ \A i \in 1..m : walk'.seen[Len(walk.seen) + i] = Query[i]
               /\ walk'.cursor = IF more THEN Key(Query[PageSize]) ELSE None
               /\ walk'.at = IF more THEN "next" ELSE "end"
<1> DEFINE more == Len(Query) > PageSize
           m == IF more THEN PageSize ELSE Len(Query)
           t == SubSeq(Query, 1, Min({Len(Query), PageSize}))
           u == IF more THEN Key(Query[PageSize]) ELSE None
           a == IF more THEN "next" ELSE "end"
           s == walk.seen \o t
<1>1. walk' = [walk EXCEPT !.seen = s, !.cursor = u, !.at = a]
  BY DEF ReadPage, NextCursor
<1>2. Query \in Seq(Remaining) /\ Len(Query) \in Nat /\ PageSize \in Nat
  BY PageFacts, TranLogAssumption, LenProperties
<1>3. Min({Len(Query), PageSize}) = m /\ m \in Nat /\ m <= Len(Query)
  BY <1>2, Lesser
<1>4. \A i \in 1..Len(Query) : Query[i] \in Nat
  <2>1. Remaining \subseteq Nat
    BY RemainingFacts, LenProperties DEF Ids, TypeOK
  <2>2. \A i \in 1..Len(Query) : Query[i] \in Remaining
    BY <1>2, ElementOfSeq
  <2> QED BY <2>1, <2>2, Zenon
<1>5. t \in Seq(Nat) /\ Len(t) = m /\ \A i \in 1..m : t[i] = Query[i]
  <2> HIDE DEF m
  <2>1. \A i \in 1..m : Query[i] \in Nat
    BY <1>2, <1>3, <1>4
  <2>2. 1 \in Int /\ m \in Int
    BY <1>3
  <2>3. t = SubSeq(Query, 1, m)
    BY <1>3, Zenon
  <2>4. /\ SubSeq(Query, 1, m) \in Seq(Nat)
        /\ Len(SubSeq(Query, 1, m)) = IF 1 <= m THEN m - 1 + 1 ELSE 0
        /\ \A i \in 1..(m - 1 + 1) : SubSeq(Query, 1, m)[i] = Query[1 + i - 1]
    BY <2>1, <2>2, SubSeqProperties
  <2>5. Len(SubSeq(Query, 1, m)) = m
    BY <1>3, <2>4
  <2>6. \A i \in 1..m : i \in 1..(m - 1 + 1) /\ 1 + i - 1 = i
    BY <1>3
  <2>7. \A i \in 1..m : SubSeq(Query, 1, m)[i] = Query[i]
    BY <2>4, <2>6
  <2> QED BY <2>3, <2>4, <2>5, <2>7, Zenon
<1>6. walk.seen \in Seq(Nat) /\ Len(walk.seen) \in Nat
  BY LenProperties DEF WalkInv
<1> HIDE DEF more, m, t, u, a
<1>7. /\ s \in Seq(Nat) /\ Len(s) = Len(walk.seen) + m
      /\ \A i \in 1..Len(walk.seen) : s[i] = walk.seen[i]
      /\ \A i \in 1..m : s[Len(walk.seen) + i] = Query[i]
  <2> DEFINE l == Len(walk.seen)
  <2>1. /\ s \in Seq(Nat) /\ Len(s) = l + m
        /\ \A i \in 1..(l + m) : s[i] = IF i <= l THEN walk.seen[i] ELSE t[i - l]
    BY <1>5, <1>6, ConcatProperties, ZenonT(30)
  <2> HIDE DEF s, l
  <2>2. \A i \in 1..l : i \in 1..(l + m) /\ i <= l
    BY <1>3, <1>6 DEF l
  <2>3. \A i \in 1..m : l + i \in 1..(l + m) /\ ~(l + i <= l) /\ (l + i) - l = i
    BY <1>3, <1>6 DEF l
  <2> QED BY <1>5, <2>1, <2>2, <2>3, ZenonT(30) DEF l
<1> HIDE DEF s
<1>8. walk'.seen = s /\ walk'.cursor = u /\ walk'.at = a
  BY <1>1 DEF WalkInv
<1> QED BY <1>1, <1>3, <1>7, <1>8 DEF more, m, u, a

(* List and ListEvents *)
LEMMA ReadWalk ==
    ASSUME TypeOK, WalkInv, ReadPage
    PROVE  WalkInv'
<1> DEFINE more == Len(Query) > PageSize
           m == IF more THEN PageSize ELSE Len(Query)
           l == Len(walk.seen)
<1>1. /\ walk' = [walk EXCEPT !.seen = walk'.seen, !.cursor = walk'.cursor, !.at = walk'.at]
      /\ walk'.seen \in Seq(Nat) /\ Len(walk'.seen) = l + m /\ m \in Nat
      /\ \A i \in 1..l : walk'.seen[i] = walk.seen[i]
      /\ \A i \in 1..m : walk'.seen[l + i] = Query[i]
      /\ walk'.cursor = IF more THEN Key(Query[PageSize]) ELSE None
      /\ walk'.at = IF more THEN "next" ELSE "end"
  BY PageRead
<1>2. /\ Query \in Seq(Remaining) /\ Len(Query) \in 0..(PageSize + 1)
      /\ \A i \in 1..Len(Query) : Query[i] \in Remaining
      /\ \A i, j \in 1..Len(Query) : i < j => Before(Key(Query[j]), Key(Query[i]))
  BY PageFacts, ElementOfSeq
<1>3. PageSize \in Nat \ {0} /\ l \in Nat /\ walk.seen \in Seq(Nat) /\ DOMAIN walk.seen = 1..l
  BY TranLogAssumption, LenProperties DEF WalkInv
<1>4. /\ UNCHANGED <<log, events>> /\ walk.at # "end" /\ due' = IF walk.at = "first" THEN Listed ELSE due
      /\ walk'.list = walk.list /\ walk'.filter = walk.filter
  BY <1>1 DEF ReadPage, WalkInv
<1>5. Ids' = Ids /\ Listed' = Listed /\ \A id : Key(id)' = Key(id)
  BY <1>4, SMTT(30) DEF Ids, Listed, Key
<1>6. m <= Len(Query) /\ (more => m = PageSize /\ Len(Query) = PageSize + 1)
  BY <1>2, <1>3
<1>7. Remaining \subseteq Ids /\ \A id \in Ids : Key(id) \in Nat \X Nat
  BY RemainingFacts, KeyOrder
<1>8. \A id \in Remaining : \/ \E i \in 1..m : id = Query[i]
                            \/ more /\ Before(Key(id), Key(Query[PageSize]))
  <2>1. ASSUME NEW id \in Remaining, \A i \in 1..m : id # Query[i]
        PROVE  more /\ Before(Key(id), Key(Query[PageSize]))
    <3>1. CASE \E i \in 1..Len(Query) : id = Query[i]
      <4>1. PICK i \in 1..Len(Query) : id = Query[i]
        BY <3>1
      <4>2. i \notin 1..m
        BY <2>1, <4>1
      <4>3. more /\ PageSize \in 1..Len(Query) /\ PageSize < i
        BY <1>2, <1>3, <4>2
      <4> QED BY <1>2, <4>1, <4>3
    <3>2. CASE Len(Query) = PageSize + 1 /\ \A i \in 1..Len(Query) : Before(Key(id), Key(Query[i]))
      <4>1. more /\ PageSize \in 1..Len(Query)
        BY <1>3, <3>2
      <4> QED BY <3>2, <4>1
    <3> QED BY <3>1, <3>2, PageFacts
  <2> QED BY <2>1
<1> HIDE DEF more, m, l
<1>9. \A i \in 1..(l + m) : i \in 1..l \/ \E k \in 1..m : i = l + k
  <2>1. \A i \in 1..(l + m) : i \in 1..l \/ (i - l \in 1..m /\ i = l + (i - l))
    BY <1>1, <1>3
  <2> QED BY <2>1
<1>10. \A k \in 1..m : k \in 1..Len(Query) /\ Query[k] \in Remaining /\ l + k \in 1..(l + m)
  <2>1. l \in Nat /\ m \in Nat /\ Len(Query) \in Nat /\ m <= Len(Query)
    BY <1>1, <1>2, <1>3, <1>6
  <2>2. \A k \in 1..m : k \in 1..Len(Query) /\ l + k \in 1..(l + m)
    BY <2>1
  <2> QED BY <1>2, <2>2, Zenon
<1>11. \A i \in 1..(l + m) : walk'.seen[i] \in Ids
  <2>1. \A i \in 1..l : walk'.seen[i] \in Ids
    BY <1>1, Zenon DEF WalkInv, l
  <2>2. \A k \in 1..m : walk'.seen[l + k] \in Ids
    BY <1>1, <1>7, <1>10
  <2> QED BY <1>9, <2>1, <2>2
<1>12. ASSUME NEW i \in 1..l, NEW id \in Remaining
       PROVE  Before(Key(id), Key(walk.seen[i]))
  <2>1. walk.at = "next" /\ l \in 1..l
    <3>1. l # 0
      BY <1>3
    <3>2. walk.at # "first"
      BY <3>1 DEF WalkInv, l
    <3> QED BY <1>3, <1>4, <3>1, <3>2 DEF WalkInv
  <2>2. walk.cursor = Key(walk.seen[l]) /\ walk.seen[l] \in Ids /\ walk.seen[i] \in Ids
    BY <2>1 DEF WalkInv, l
  <2>3. walk.cursor # None
    BY <1>7, <2>2, TranLogAssumption
  <2>4. Before(Key(id), walk.cursor)
    BY <2>3 DEF Remaining, PastCursor
  <2>5. CASE i = l
    BY <2>2, <2>4, <2>5
  <2>6. CASE i # l
    <3>1. i < l
      BY <1>3, <2>6
    <3>2. Before(Key(walk.seen[l]), Key(walk.seen[i]))
      BY <1>3, <2>1, <3>1 DEF WalkInv, ListedOnce
    <3>3. Key(id) \in Nat \X Nat /\ Key(walk.seen[l]) \in Nat \X Nat /\ Key(walk.seen[i]) \in Nat \X Nat
      BY <1>7, <2>2
    <3> QED BY <2>2, <2>4, <3>2, <3>3, KeyOrder, SMTT(30)
  <2> QED BY <2>5, <2>6
<1>13. ListedOnce'
  <2>1. DOMAIN walk'.seen = 1..(l + m)
    BY <1>1, LenProperties
  <2>2. ASSUME NEW i \in 1..(l + m), NEW j \in 1..(l + m), i < j
        PROVE  Before(Key(walk'.seen[j]), Key(walk'.seen[i]))
    <3>1. CASE j \in 1..l
      <4>1. i \in 1..l
        BY <1>3, <2>2, <3>1
      <4> QED BY <1>1, <1>3, <2>2, <3>1, <4>1, Zenon DEF WalkInv, ListedOnce
    <3>2. ASSUME NEW k \in 1..m, j = l + k
          PROVE  Before(Key(walk'.seen[j]), Key(walk'.seen[i]))
      <4>1. walk'.seen[j] = Query[k] /\ Query[k] \in Remaining
        BY <1>1, <1>10, <3>2, Zenon
      <4>2. CASE i \in 1..l
        BY <1>1, <1>12, <4>1, <4>2
      <4>3. ASSUME NEW h \in 1..m, i = l + h
            PROVE  Before(Key(walk'.seen[j]), Key(walk'.seen[i]))
        <5>1. h < k
          BY <1>1, <1>3, <2>2, <3>2, <4>3
        <5>2. walk'.seen[i] = Query[h]
          BY <1>1, <4>3
        <5> QED BY <1>2, <1>10, <4>1, <5>1, <5>2, SMTT(30)
      <4> QED BY <1>9, <4>2, <4>3
    <3> QED BY <1>9, <3>1, <3>2
  <2> QED BY <1>5, <2>1, <2>2 DEF ListedOnce
<1>14. walk'.at = "next" => Len(walk'.seen) > 0 /\ walk'.cursor = Key(walk'.seen[Len(walk'.seen)])
  <2>1. SUFFICES ASSUME more PROVE Len(walk'.seen) > 0 /\ walk'.cursor = Key(walk'.seen[Len(walk'.seen)])
    BY <1>1
  <2>2. m = PageSize /\ m \in 1..m /\ l + m > 0
    BY <1>1, <1>3, <1>6, <2>1
  <2> QED BY <1>1, <2>1, <2>2
<1>15. ASSUME NEW id \in due'
       PROVE  \/ \E i \in 1..Len(walk'.seen) : walk'.seen[i] = id
              \/ walk'.at = "next" /\ Before(Key(id), walk'.cursor)
  <2>1. CASE id \in Remaining
    <3>1. CASE \E k \in 1..m : id = Query[k]
      BY <1>1, <1>10, <3>1
    <3>2. CASE more /\ Before(Key(id), Key(Query[PageSize]))
      BY <1>1, <3>2
    <3> QED BY <1>8, <2>1, <3>1, <3>2, SMTT(30)
  <2>2. CASE \E i \in 1..l : walk.seen[i] = id
    <3>1. \A i \in 1..l : i \in 1..(l + m)
      BY <1>1, <1>3
    <3> QED BY <1>1, <2>2, <3>1
  <2>3. CASE walk.at = "first"
    <3>1. id \in Listed /\ walk.cursor = None
      BY <1>4, <2>3 DEF WalkInv
    <3>2. id \in Remaining
      BY <3>1 DEF Remaining, PastCursor
    <3> QED BY <2>1, <3>2
  <2>4. CASE walk.at # "first"
    <3>1. id \in due /\ id \in Listed
      BY <1>4, <2>4 DEF WalkInv
    <3>2. CASE Before(Key(id), walk.cursor)
      <4>1. id \in Remaining
        BY <3>1, <3>2 DEF Remaining, PastCursor
      <4> QED BY <2>1, <4>1
    <3> QED BY <2>2, <3>1, <3>2, Zenon DEF WalkInv, l
  <2> QED BY <2>3, <2>4
<1>16. due' \subseteq Listed'
  BY <1>4, <1>5 DEF WalkInv
<1>17. walk' \in [at : {"first", "next", "end"}, list : {"none", "transactions", "events"}, filter : Filters,
                  cursor : (Nat \X Nat) \cup {None}, seen : Seq(Nat)]
  <2>1. walk'.cursor \in (Nat \X Nat) \cup {None}
    <3>1. more => PageSize \in 1..Len(Query)
      BY <1>3, <1>6
    <3>2. more => Key(Query[PageSize]) \in Nat \X Nat
      BY <1>2, <1>7, <3>1
    <3> QED BY <1>1, <3>2
  <2>2. walk'.at \in {"first", "next", "end"}
    BY <1>1
  <2>3. walk \in [at : {"first", "next", "end"}, list : {"none", "transactions", "events"}, filter : Filters,
                  cursor : (Nat \X Nat) \cup {None}, seen : Seq(Nat)]
    BY Zenon DEF WalkInv
  <2> QED BY <1>1, <2>1, <2>2, <2>3, Zenon
<1>18. walk'.at # "first"
  BY <1>1
<1> QED BY <1>1, <1>5, <1>11, <1>13, <1>14, <1>15, <1>16, <1>17, <1>18 DEF WalkInv

(* Every step preserves the invariant of the walk. *)
LEMMA WalkStep ==
    ASSUME TypeOK, WalkInv, [Next]_vars
    PROVE  WalkInv'
<1>0. due \subseteq Listed /\ due \subseteq Ids
  BY Zenon DEF WalkInv, Listed, Ids
<1>1. ASSUME UNCHANGED <<log, events, walk, due>> PROVE WalkInv'
  BY <1>0, <1>1, WalkKept, Zenon DEF Ids, Key, Listed
<1>2. CASE Tick \/ Resume \/ Connection \/ DrawOther \/ Restart \/ UNCHANGED vars
  BY <1>1, <1>2 DEF Tick, Resume, Connection, DrawOther, Restart, vars
<1>3. ASSUME NEW r \in Requests, Draw(r) \/ LinkDown(r) \/ Name(r) \/ BeginInsert(r) PROVE WalkInv'
  BY <1>1, <1>3 DEF Draw, LinkDown, Name, BeginInsert
<1>4. ASSUME NEW r \in Requests, CommitInsert(r) PROVE WalkInv'
  <2>1. UNCHANGED <<events, walk, due>>
    BY <1>4 DEF CommitInsert
  <2>2. DOMAIN log \subseteq DOMAIN log' /\ \A i \in DOMAIN log : log'[i] = log[i]
    <3>1. log \in Seq(Rows) /\ log' \in Seq(Rows) /\ Len(log') = Len(log) + 1
      BY <1>4, CommitEntry, SMTT(30) DEF TypeOK
    <3>2. DOMAIN log = 1..Len(log) /\ DOMAIN log' = 1..(Len(log) + 1) /\ Len(log) \in Nat
      BY <3>1, LenProperties
    <3> QED BY <1>4, <3>2, CommitEntry
  <2>3. Ids \subseteq Ids' /\ \A id \in Ids : Key(id)' = Key(id)
    BY <2>1, <2>2, SMTT(30) DEF Ids, Key
  <2>4. Listed \subseteq Listed'
    BY <2>1, <2>2, SMTT(30) DEF Listed
  <2> QED BY <1>0, <2>1, <2>3, <2>4, WalkKept
<1>5. CASE UpdateStep
  <2>1. PICK id \in DOMAIN log : UpdateStatusFrom(id)
    BY <1>5 DEF UpdateStep
  <2>2. UNCHANGED <<events, walk>> /\ due' = (IF walk.filter = "SENT" THEN due \ {id} ELSE due) /\ walk.list = "transactions"
    BY <2>1 DEF UpdateStatusFrom
  <2>3. /\ DOMAIN log' = DOMAIN log
        /\ \A i \in DOMAIN log : /\ log'[i].createdAt = log[i].createdAt
                                 /\ log'[i].status = IF i = id THEN "APPROVED" ELSE log[i].status
    BY <2>1, UpdateEntry, LenProperties, SMTT(30) DEF TypeOK
  <2>4. Ids \subseteq Ids' /\ \A i \in Ids : Key(i)' = Key(i)
    BY <2>2, <2>3 DEF Ids, Key
  <2>5. due' \subseteq due
    BY <2>2
  <2>6. ASSUME NEW i \in due' PROVE i \in Listed'
    <3>1. i \in DOMAIN log /\ walk.filter \in {None, log[i].status} /\ walk.filter \in {None, "SENT", "APPROVED"}
      BY <1>0, <2>2, <2>5 DEF Listed, WalkInv, Filters
    <3>2. i = id => walk.filter # "SENT"
      BY <2>2
    <3>3. walk.filter \in {None, log'[i].status}
      BY <2>3, <3>1, <3>2
    <3> QED BY <2>2, <2>3, <3>1, <3>3 DEF Listed
  <2> QED BY <2>2, <2>4, <2>5, <2>6, WalkKept
<1>6. CASE EventStep
  <2>1. /\ DOMAIN events \subseteq DOMAIN events' /\ \A i \in DOMAIN events : events[i] => events'[i]
        /\ UNCHANGED <<log, walk, due>>
    BY <1>6, EventEntry
  <2>2. Ids \subseteq Ids' /\ \A id \in Ids : Key(id)' = Key(id)
    BY <2>1, Zenon DEF Ids, Key
  <2>3. Listed \subseteq Listed'
    BY <2>1 DEF Listed
  <2> QED BY <1>0, <2>1, <2>2, <2>3, WalkKept
<1>7. CASE HandleListTransactions \/ HandleListNetworkEvents
  BY <1>7, ReadWalk DEF HandleListTransactions, HandleListNetworkEvents
<1> QED BY <1>2, <1>3, <1>4, <1>5, <1>6, <1>7 DEF Next, RequestStep

(* The pages of every behaviour. *)
THEOREM Pages == Spec => []WalkInv
<1>1. Init => WalkInv
  <2> SUFFICES ASSUME Init PROVE WalkInv
    OBVIOUS
  <2>1. PICK list \in {"none", "transactions", "events"} :
          \E filter \in (IF list = "transactions" THEN Filters ELSE {None}) :
             walk = [at |-> "first", list |-> list, filter |-> filter, cursor |-> None, seen |-> <<>>]
    BY DEF Init
  <2>2. PICK filter \in Filters :
          walk = [at |-> "first", list |-> list, filter |-> filter, cursor |-> None, seen |-> <<>>]
    BY <2>1 DEF Filters
  <2>3. due = {}
    BY DEF Init
  <2>4. walk \in [at : {"first", "next", "end"}, list : {"none", "transactions", "events"}, filter : Filters,
                  cursor : (Nat \X Nat) \cup {None}, seen : Seq(Nat)]
    BY <2>2
  <2>5. walk.at = "first" /\ walk.cursor = None /\ walk.seen = <<>> /\ Len(walk.seen) = 0 /\ DOMAIN walk.seen = {}
    BY <2>2
  <2> QED BY <2>3, <2>4, <2>5 DEF WalkInv, ListedOnce
<1>2. TypeOK /\ WalkInv /\ [Next]_vars => WalkInv'
  BY WalkStep
<1> QED BY <1>1, <1>2, Numbers, PTL DEF Spec

(* List and ListEvents: over any pages and any rows added between them, no row is given twice and
   none after an older one. *)
THEOREM RowsListedOnce == Spec => []ListedOnce
<1>1. WalkInv => ListedOnce
  BY DEF WalkInv
<1> QED BY <1>1, Pages, PTL

(* List and ListEvents: when the cursors end, every row that was on the list from the start and still
   is has been given. *)
THEOREM RowsNotSkipped == Spec => []NoneSkipped
<1>1. WalkInv => NoneSkipped
  <2> SUFFICES ASSUME WalkInv, walk.at = "end", NEW id \in due PROVE id \in Range(walk.seen)
    BY DEF NoneSkipped
  <2>1. \E i \in 1..Len(walk.seen) : walk.seen[i] = id
    BY DEF WalkInv
  <2>2. DOMAIN walk.seen = 1..Len(walk.seen)
    BY LenProperties DEF WalkInv
  <2> QED BY <2>1, <2>2 DEF Range
<1> QED BY <1>1, Pages, PTL
=============================================================================
