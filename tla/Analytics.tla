------------------------------ MODULE Analytics ------------------------------
(***************************************************************************)
(* The dashboard and the export of the owner's scans.                      *)
(*                                                                         *)
(* A dashboard is four SELECTs, one after the other, over rows that menu   *)
(* requests of every process insert meanwhile and that go with their       *)
(* restaurant.  The transaction is READ COMMITTED: each statement sees     *)
(* what is committed when it starts.  A part of the answer is kept as the  *)
(* set of scans it counts; GROUP BY only splits that set, so that the      *)
(* counts of a series add up to its size.                                  *)
(*                                                                         *)
(* A scan gets its timestamp when its row is inserted and is seen when it  *)
(* is committed, later.  Columns that no filter reads are left out, as are *)
(* the order of the rows and the format of the file.                       *)
(***************************************************************************)
EXTENDS Integers, FiniteSets

CONSTANTS
    Request,     \* dashboards and exports asked for
    Scan,        \* ids of scan_events
    Restaurant,  \* ids the owner's restaurants get, one after the other
    Agent,       \* user agents
    Limit,       \* user agents a dashboard lists
    Day,         \* bound: ticks of the clock in a day
    MaxTime,     \* bound: the clock
    Asked,       \* bound: the pairs <<from, to>> that are asked for
    None

ASSUME BoundsAssumption ==
    Limit \in Nat \ {0} /\ Day \in Nat \ {0} /\ MaxTime \in Nat /\ IsFiniteSet(Agent)

VARIABLES
    now,   \* the clock
    mine,  \* the owner's restaurant, None without one
    used,  \* ids of restaurants given so far
    scan,  \* scan[s]: the row s
    req    \* req[q]: the request q

vars == <<now, mine, used, scan, req>>

Time == 0..MaxTime

\* `from` and `to`: an instant, or None where the query has no such parameter.
Boundary == Time \cup {None}

ASSUME AskedAssumption == Asked \subseteq Boundary \X Boundary

Row == [st: {"unused", "inserted", "committed", "gone"},
        rest: Restaurant \cup {None}, at: Time, agent: Agent \cup {None}]

NoRow == [st |-> "unused", rest |-> None, at |-> 0, agent |-> None]

\* The parts of an answer and, as history: `base`, the restaurant's scans when it
\* was found; `calm`, no scan was committed or deleted since the first part.
Call == [at: {"idle", "total", "period", "hour", "agents", "answered", "export", "exported"},
         rest: Restaurant \cup {None}, from: Boundary, to: Boundary,
         total: SUBSET Scan, period: SUBSET Scan, hour: SUBSET Scan, agents: SUBSET Scan,
         rows: SUBSET Scan, base: SUBSET Scan, calm: BOOLEAN]

NoCall == [at |-> "idle", rest |-> None, from |-> None, to |-> None,
           total |-> {}, period |-> {}, hour |-> {}, agents |-> {},
           rows |-> {}, base |-> {}, calm |-> TRUE]

ASSUME NoneAssumption == None \notin Restaurant \cup Agent \cup Nat

TypeOK ==
    /\ now \in Time
    /\ used \subseteq Restaurant
    /\ mine \in used \cup {None}
    /\ scan \in [Scan -> Row]
    /\ req \in [Request -> Call]
    /\ \A q \in Request : req[q].at # "idle" => req[q].rest \in used

Init ==
    /\ now = 0
    /\ mine = None
    /\ used = {}
    /\ scan = [s \in Scan |-> NoRow]
    /\ req = [q \in Request |-> NoCall]

----------------------------------------------------------------------------
(* AnalyticsRepository *)

\* Faulty: the last microsecond is not taken off.
EndOfDayPast(t) == IF t % Day = 0 THEN t + Day ELSE t

\* _end_of_day: a plain date, which is parsed as its midnight, is advanced to the
\* last instant of its day.
EndOfDay(t) == IF t % Day = 0 THEN t + Day - 1 ELSE t

CommittedOf(r) == {s \in Scan : scan[s].st = "committed" /\ scan[s].rest = r}

\* Faulty: the bound is compared as it came.
MatchingToMidnight(q) ==
    {s \in CommittedOf(req[q].rest) :
        /\ req[q].from # None => scan[s].at >= req[q].from
        /\ req[q].to # None => scan[s].at <= req[q].to}

\* The filters of every query.
Matching(q) ==
    {s \in CommittedOf(req[q].rest) :
        /\ req[q].from # None => scan[s].at >= req[q].from
        /\ req[q].to # None => scan[s].at <= EndOfDay(req[q].to)}

By(S, a) == {s \in S : scan[s].agent = a}

\* GROUP BY user_agent ORDER BY count DESC LIMIT: any of the equal ones.
Top(S) ==
    {T \in SUBSET S :
        \E A \in SUBSET {scan[s].agent : s \in S} :
            /\ T = UNION {By(S, a) : a \in A}
            /\ Cardinality(A) <= Limit
            /\ \A b \in {scan[s].agent : s \in S} \ A :
                 /\ Cardinality(A) = Limit
                 /\ \A a \in A : Cardinality(By(S, b)) <= Cardinality(By(S, a))}

----------------------------------------------------------------------------
(* Menu requests and the owner's restaurant *)

\* What has been read is no longer all there is.
Disturb ==
    req' = [q \in Request |->
              [req[q] EXCEPT !.calm = @ /\ req[q].at \notin {"period", "hour", "agents"}]]

\* ScanEvent is flushed by commit(): the default of `timestamp` is computed, and
\* the row locks its restaurant's (a cached menu may be of a restaurant that has
\* gone: the foreign key refuses the row, and the request goes on without).
InsertScan(s, a) ==
    /\ scan[s].st = "unused"
    /\ mine # None
    /\ scan' = [scan EXCEPT ![s] = [st |-> "inserted", rest |-> mine, at |-> now, agent |-> a]]
    /\ UNCHANGED <<now, mine, used, req>>

CommitScan(s) ==
    /\ scan[s].st = "inserted"
    /\ scan' = [scan EXCEPT ![s].st = "committed"]
    /\ Disturb
    /\ UNCHANGED <<now, mine, used>>

\* The commit fails, or the process stops before it.
LoseScan(s) ==
    /\ scan[s].st = "inserted"
    /\ scan' = [scan EXCEPT ![s].st = "gone"]
    /\ UNCHANGED <<now, mine, used, req>>

CreateRestaurant(r) ==
    /\ mine = None
    /\ r \notin used
    /\ mine' = r
    /\ used' = used \cup {r}
    /\ UNCHANGED <<now, scan, req>>

\* ON DELETE CASCADE; rows that are inserted and not committed are waited for.
DeleteRestaurant ==
    /\ mine # None
    /\ \A s \in Scan : scan[s].st # "inserted"
    /\ mine' = None
    /\ scan' = [s \in Scan |-> IF s \in CommittedOf(mine)
                               THEN [scan[s] EXCEPT !.st = "gone"] ELSE scan[s]]
    /\ Disturb
    /\ UNCHANGED <<now, used>>

Tick ==
    /\ now < MaxTime
    /\ now' = now + 1
    /\ UNCHANGED <<mine, used, scan, req>>

----------------------------------------------------------------------------
(* AnalyticsService *)

\* The request finds the owner's restaurant (404 without one).
Find(q, at, from, to) ==
    /\ req[q].at = "idle"
    /\ mine # None
    /\ req' = [req EXCEPT ![q] = [NoCall EXCEPT !.at = at, !.rest = mine, !.from = from,
                                                !.to = to, !.base = CommittedOf(mine)]]
    /\ UNCHANGED <<now, mine, used, scan>>

\* get_analytics
GetAnalytics(q, from, to) == Find(q, "total", from, to)

\* export_analytics
ExportAnalytics(q, from, to) == Find(q, "export", from, to)

\* Faulty: _end_of_day is forgotten in the first query.
GetTotalScansToMidnight(q) ==
    /\ req[q].at = "total"
    /\ req' = [req EXCEPT ![q] = [@ EXCEPT !.at = "period", !.total = MatchingToMidnight(q)]]
    /\ UNCHANGED <<now, mine, used, scan>>

GetTotalScans(q) ==
    /\ req[q].at = "total"
    /\ req' = [req EXCEPT ![q] = [@ EXCEPT !.at = "period", !.total = Matching(q)]]
    /\ UNCHANGED <<now, mine, used, scan>>

\* Faulty: _end_of_day is forgotten in the second query.
GetScansByPeriodToMidnight(q) ==
    /\ req[q].at = "period"
    /\ req' = [req EXCEPT ![q] = [@ EXCEPT !.at = "hour", !.period = MatchingToMidnight(q)]]
    /\ UNCHANGED <<now, mine, used, scan>>

GetScansByPeriod(q) ==
    /\ req[q].at = "period"
    /\ req' = [req EXCEPT ![q] = [@ EXCEPT !.at = "hour", !.period = Matching(q)]]
    /\ UNCHANGED <<now, mine, used, scan>>

\* Faulty: the dates are forgotten in the third query.
GetScansByHourEver(q) ==
    /\ req[q].at = "hour"
    /\ req' = [req EXCEPT ![q] = [@ EXCEPT !.at = "agents", !.hour = CommittedOf(req[q].rest)]]
    /\ UNCHANGED <<now, mine, used, scan>>

GetScansByHour(q) ==
    /\ req[q].at = "hour"
    /\ req' = [req EXCEPT ![q] = [@ EXCEPT !.at = "agents", !.hour = Matching(q)]]
    /\ UNCHANGED <<now, mine, used, scan>>

GetTopUserAgents(q) ==
    /\ req[q].at = "agents"
    /\ \E T \in Top(Matching(q)) :
         req' = [req EXCEPT ![q] = [@ EXCEPT !.at = "answered", !.agents = T]]
    /\ UNCHANGED <<now, mine, used, scan>>

GetScanEventsForExport(q) ==
    /\ req[q].at = "export"
    /\ req' = [req EXCEPT ![q] = [@ EXCEPT !.at = "exported", !.rows = Matching(q)]]
    /\ UNCHANGED <<now, mine, used, scan>>

Answer(q) ==
    \/ GetTotalScans(q)
    \/ GetScansByPeriod(q)
    \/ GetScansByHour(q)
    \/ GetTopUserAgents(q)
    \/ GetScanEventsForExport(q)

Next ==
    \/ \E s \in Scan, a \in Agent : InsertScan(s, a)
    \/ \E s \in Scan : CommitScan(s) \/ LoseScan(s)
    \/ \E r \in Restaurant : CreateRestaurant(r)
    \/ DeleteRestaurant
    \/ Tick
    \/ \E q \in Request, a \in Asked :
         GetAnalytics(q, a[1], a[2]) \/ ExportAnalytics(q, a[1], a[2])
    \/ \E q \in Request : Answer(q)

Spec == Init /\ [][Next]_vars

----------------------------------------------------------------------------
(* Properties *)

\* A later part of a dashboard counts what an earlier one counted, and perhaps
\* more: total <= by period <= by hour.  Only when the restaurant has been deleted
\* between them does a later part lose scans, and then all of them.
PartsGrow ==
    \A q \in Request :
        LET Grows(a, b) == a \subseteq b \/ (b = {} /\ mine # req[q].rest)
        IN  /\ req[q].at \in {"hour", "agents", "answered"} => Grows(req[q].total, req[q].period)
            /\ req[q].at \in {"agents", "answered"} => Grows(req[q].period, req[q].hour)

\* The parts of a dashboard agree when no scan was committed or deleted while it
\* was computed: the totals are equal, and the user agents listed are all, unless
\* there are more than Limit.
CalmPartsAgree ==
    \A q \in Request : req[q].calm /\ req[q].at = "answered" =>
        /\ req[q].total = req[q].period
        /\ req[q].period = req[q].hour
        /\ req[q].agents \subseteq req[q].hour
        /\ Cardinality({scan[s].agent : s \in req[q].hour}) <= Limit
             => req[q].agents = req[q].hour

DayOf(t) == t \div Day

IsDate(t) == t # None /\ t % Day = 0

\* A dashboard asked for from one date to another counts scans of those days only,
\* and, while the restaurant is there, every one that was committed when it began.
DaysAreWhole ==
    \A q \in Request : req[q].at = "answered" /\ IsDate(req[q].from) /\ IsDate(req[q].to) =>
        LET InDays(s) == DayOf(scan[s].at) \in DayOf(req[q].from)..DayOf(req[q].to)
        IN  /\ \A s \in req[q].total : InDays(s)
            /\ mine = req[q].rest => {s \in req[q].base : InDays(s)} \subseteq req[q].total

\* Two exports, to a date and from the next one, have no scan in common, and miss
\* none that was committed before both.
ExportsMeet ==
    \A q, r \in Request :
        (/\ req[q].at = "exported" /\ IsDate(req[q].to) /\ req[q].from = None
         /\ req[r].at = "exported" /\ req[r].from = req[q].to + Day /\ req[r].to = None)
        => /\ req[q].rows \cap req[r].rows = {}
           /\ mine = req[q].rest /\ mine = req[r].rest
                => req[q].base \cap req[r].base \subseteq req[q].rows \cup req[r].rows

=============================================================================
