------------------------------ MODULE TranLog -------------------------------
(***************************************************************************)
(* The tran_log as a list: how its rows are numbered and how they are paged *)
(* through.  A request draws a STAN from the supervisor's counter, which   *)
(* wraps and which a restarted gateway resumes from the log, and builds    *)
(* its RRN from the hour and the STAN.  Its row takes created_at when its  *)
(* database transaction begins and is seen when it commits.  A client      *)
(* lists the transactions, or the network events, page after page while    *)
(* rows are added and change status.                                       *)
(***************************************************************************)
EXTENDS Integers, Sequences, FiniteSets, FiniteSetsExt

CONSTANTS
    Requests,       \* requests under way at once
    Modulus,        \* the STANs: 1000000 in the code
    TicksPerHour, MaxTime,
    PageSize,       \* limit
    MaxDraws,       \* bound on the STANs drawn by one gateway
    MaxRows,        \* bound on the rows, and on the events
    MaxRestarts,
    None

ASSUME TranLogAssumption ==
    /\ Modulus \in Nat \ {0} /\ TicksPerHour \in Nat \ {0} /\ PageSize \in Nat \ {0}
    /\ MaxTime \in Nat /\ MaxDraws \in Nat /\ MaxRows \in Nat /\ MaxRestarts \in Nat
    /\ None \notin (Nat \X Nat) \cup {"SENT", "APPROVED", "DECLINED"}

VARIABLES
    clock,
    link,       \* the supervisor: "boot" until Run has resumed the count, then "down" or "up"
    stan,       \* Supervisor.stan
    req,        \* the requests: their step, the count their STAN is of, RRN and created_at
    log,        \* tran_log, committed rows, by id
    events,     \* network_event: the ids assigned, and whether they are committed
    walk,       \* the client: the list it reads, its filter, the cursor it was given and the ids it saw
    restarts,
    due,        \* history: rows on the list since the first page was read
    wrapped     \* history: hours in which the count passed Modulus, or was found past it by a request
                \* between its STAN and its RRN

vars == <<clock, link, stan, req, log, events, walk, restarts, due, wrapped>>

Hour == clock \div TicksPerHour
Idle == [at |-> "idle", count |-> 0, rrn |-> None, createdAt |-> 0, status |-> "SENT"]
Filters == {None, "SENT", "APPROVED"}

Init ==
    /\ clock = 0 /\ link = "boot" /\ stan = 0
    /\ req = [r \in Requests |-> Idle]
    /\ log = <<>> /\ events = <<>> /\ restarts = 0 /\ due = {} /\ wrapped = {}
    /\ \E list \in {"none", "transactions", "events"} :
       \E filter \in (IF list = "transactions" THEN Filters ELSE {None}) :
        walk = [at |-> "first", list |-> list, filter |-> filter, cursor |-> None, seen |-> <<>>]

Tick ==
    /\ clock < MaxTime
    /\ clock' = clock + 1
    /\ UNCHANGED <<link, stan, req, log, events, walk, restarts, due, wrapped>>

(***************************************************************************)
(* Numbers                                                                 *)
(***************************************************************************)
(* BuildRRN; the year's digit, the day and the hour are one number. *)
BuildRRN(hour, n) == [prefix |-> hour, stan |-> n]

(* Variant: the count is resumed from the newest row. *)
LastSTANOfNewest(hour) ==
    LET own == SelectSeq(log, LAMBDA row : row.rrn.prefix = hour)
    IN  IF own = <<>> THEN 0 ELSE own[Len(own)].rrn.stan

(* LastSTANInRRNPrefix *)
LastSTANInRRNPrefix(hour) ==
    Max({0} \cup {row.rrn.stan : row \in {r \in Range(log) : r.rrn.prefix = hour}})

(* The start of Supervisor.Run, before the first connection, and ResumeSTANAfter. *)
Resume ==
    /\ link = "boot"
    /\ link' = "down"
    /\ stan' = Max({stan, LastSTANInRRNPrefix(Hour)})
    /\ UNCHANGED <<clock, req, log, events, walk, restarts, due, wrapped>>

(* runOnce connects and, at its end, drops the connection. *)
Connection ==
    /\ \/ link = "down" /\ link' = "up"
       \/ link = "up" /\ link' = "down"
    /\ UNCHANGED <<clock, stan, req, log, events, walk, restarts, due, wrapped>>

(* Bound: a behaviour follows the numbers, over restarts and with nobody reading, or a list; no page
   depends on a number. *)
Unread == walk.list = "none"

STAN(count) == count % Modulus

(* NextSTAN *)
NextSTAN ==
    /\ link = "up" /\ stan < MaxDraws
    /\ stan' = stan + 1
    /\ wrapped' = IF STAN(stan') = 0 THEN wrapped \cup {Hour} ELSE wrapped

(* A sign-on, an echo, an advice or a key change draws a STAN too. *)
DrawOther ==
    /\ Unread /\ NextSTAN
    /\ UNCHANGED <<clock, link, req, log, events, walk, restarts, due>>

Draw(r) ==
    /\ req[r].at = "idle" /\ NextSTAN /\ walk.list # "events"
    /\ req' = [req EXCEPT ![r] = [Idle EXCEPT !.at = "numbered", !.count = stan']]
    /\ UNCHANGED <<clock, link, log, events, walk, restarts, due>>

(* declinedTransaction: noSTAN. *)
LinkDown(r) ==
    /\ Unread /\ req[r].at = "idle" /\ link # "up"
    /\ req' = [req EXCEPT ![r] = [Idle EXCEPT !.at = "begin", !.rrn = BuildRRN(Hour, 0), !.status = "DECLINED"]]
    /\ UNCHANGED <<clock, link, stan, log, events, walk, restarts, due, wrapped>>

(* sendPurchase and the Create functions of advtxn: the hour is read after the STAN is drawn. *)
Name(r) ==
    /\ req[r].at = "numbered"
    /\ req' = [req EXCEPT ![r].at = "begin", ![r].rrn = BuildRRN(Hour, STAN(req[r].count))]
    /\ wrapped' = IF stan \div Modulus # req[r].count \div Modulus THEN wrapped \cup {Hour} ELSE wrapped
    /\ UNCHANGED <<clock, link, stan, log, events, walk, restarts, due>>

(***************************************************************************)
(* Rows                                                                    *)
(***************************************************************************)
(* The INSERT's transaction begins: created_at DEFAULT now(). *)
BeginInsert(r) ==
    /\ req[r].at = "begin" /\ Len(log) < MaxRows
    /\ req' = [req EXCEPT ![r].at = "insert", ![r].createdAt = clock]
    /\ UNCHANGED <<clock, link, stan, log, events, walk, restarts, due, wrapped>>

(* Insert and InsertCompletion: the row is seen by others. *)
CommitInsert(r) ==
    /\ req[r].at = "insert" /\ Len(log) < MaxRows
    /\ log' = Append(log, [rrn |-> req[r].rrn, createdAt |-> req[r].createdAt, status |-> req[r].status,
                           sent |-> req[r].status # "DECLINED"])
    /\ req' = [req EXCEPT ![r] = Idle]
    /\ UNCHANGED <<clock, link, stan, events, walk, restarts, due, wrapped>>

(* UpdateStatusFrom: a row the walk's filter no longer matches may be missed. *)
UpdateStatusFrom(id) ==
    /\ walk.list = "transactions" /\ log[id].status = "SENT"
    /\ log' = [log EXCEPT ![id].status = "APPROVED"]
    /\ due' = IF walk.filter = "SENT" THEN due \ {id} ELSE due
    /\ UNCHANGED <<clock, link, stan, req, events, walk, restarts, wrapped>>

(* AppendEvent: the id is assigned when the INSERT runs, the event seen once it commits. *)
AppendEvent ==
    /\ walk.list = "events" /\ Len(events) < MaxRows
    /\ events' = Append(events, FALSE)
    /\ UNCHANGED <<clock, link, stan, req, log, walk, restarts, due, wrapped>>

CommitEvent(id) ==
    /\ ~events[id]
    /\ events' = [events EXCEPT ![id] = TRUE]
    /\ UNCHANGED <<clock, link, stan, req, log, walk, restarts, due, wrapped>>

(* The gateway restarts: requests under way are gone, and the count is. *)
Restart ==
    /\ Unread /\ restarts < MaxRestarts
    /\ restarts' = restarts + 1
    /\ link' = "boot" /\ stan' = 0
    /\ req' = [r \in Requests |-> Idle]
    /\ UNCHANGED <<clock, log, events, walk, due, wrapped>>

(***************************************************************************)
(* Pages                                                                   *)
(***************************************************************************)
(* A row's place in the list's order: (created_at, id), and id alone for an event. *)
Key(id) == IF walk.list = "events" THEN <<0, id>> ELSE <<log[id].createdAt, id>>

(* The row comparison of SQL. *)
Before(a, b) == a[1] < b[1] \/ (a[1] = b[1] /\ a[2] < b[2])

(* The rows of the list: the WHERE of buildListQuery but for the cursor, and of ListEvents. *)
Listed ==
    IF walk.list = "events" THEN {id \in DOMAIN events : events[id]}
    ELSE {id \in DOMAIN log : walk.filter \in {None, log[id].status}}

(* Variant: the row of the cursor is read again. *)
PastCursorOrAt(id) == walk.cursor = None \/ ~Before(walk.cursor, Key(id))

PastCursor(id) == walk.cursor = None \/ Before(Key(id), walk.cursor)

(* ORDER BY, newest first, LIMIT limit+1: the i-th row is the one with i - 1 newer ones. *)
Query ==
    LET rows == {id \in Listed : PastCursor(id)}
        newer(id) == {k \in rows : Before(Key(id), Key(k))}
    IN  [i \in 1..Min({Cardinality(rows), PageSize + 1}) |->
            CHOOSE id \in rows : Cardinality(newer(id)) = i - 1]

(* Variant: the cursor is the row fetched to see whether there is a next page. *)
NextCursorOfExtra(page) == Key(page[PageSize + 1])

(* encodeCursor and decodeCursor keep both parts of the key. *)
NextCursor(page) == Key(page[PageSize])

(* List and ListEvents *)
ReadPage ==
    /\ walk.at # "end"
    /\ LET page == Query
           more == Len(page) > PageSize
       IN  walk' = [walk EXCEPT !.seen = @ \o SubSeq(page, 1, Min({Len(page), PageSize})),
                                !.cursor = IF more THEN NextCursor(page) ELSE None,
                                !.at = IF more THEN "next" ELSE "end"]
    /\ due' = IF walk.at = "first" THEN Listed ELSE due
    /\ UNCHANGED <<clock, link, stan, req, log, events, restarts, wrapped>>

HandleListTransactions == walk.list = "transactions" /\ ReadPage
HandleListNetworkEvents == walk.list = "events" /\ ReadPage

RequestStep == \E r \in Requests : Draw(r) \/ LinkDown(r) \/ Name(r) \/ BeginInsert(r) \/ CommitInsert(r)
UpdateStep == \E id \in DOMAIN log : UpdateStatusFrom(id)
EventStep == AppendEvent \/ \E id \in DOMAIN events : CommitEvent(id)

Next ==
    \/ Tick \/ Resume \/ Connection \/ DrawOther \/ Restart
    \/ RequestStep \/ UpdateStep \/ EventStep
    \/ HandleListTransactions \/ HandleListNetworkEvents

Spec == Init /\ [][Next]_vars

(***************************************************************************)
(* Properties                                                              *)
(***************************************************************************)
(* NextSTAN, BuildRRN and ResumeSTANAfter: two requests that were sent have one RRN only when the
   count wrapped in that hour, however requests, restarts and other draws interleave. *)
RRNUnique ==
    \A i, j \in DOMAIN log :
        i # j /\ log[i].sent /\ log[j].sent /\ log[i].rrn = log[j].rrn => log[i].rrn.prefix \in wrapped

(* List and ListEvents: a client that follows the cursors is given no row twice, and the rows newest
   first, while rows are added. *)
ListedOnce ==
    \A i, j \in DOMAIN walk.seen : i < j => Before(Key(walk.seen[j]), Key(walk.seen[i]))

(* List and ListEvents: it is given every row that was on the list when it began and still is. *)
NoneSkipped == walk.at = "end" => due \subseteq Range(walk.seen)
=============================================================================
