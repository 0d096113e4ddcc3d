--------------------------- MODULE AnalyticsProofs ---------------------------
(***************************************************************************)
(* Theorems about Analytics, for any number of requests, scans and         *)
(* restaurants, any length of a day and any window.                        *)
(*                                                                         *)
(* The scans that count are of the restaurant the owner has now (Live), so *)
(* what a request has counted still matches while that restaurant is there *)
(* (Present), and nothing matches once it has gone.  A calm request has    *)
(* counted exactly what matches now (Exact).                               *)
(***************************************************************************)
EXTENDS Analytics, FiniteSetTheorems, TLAPS

Live ==
    \A s \in Scan : scan[s].st \in {"inserted", "committed"} =>
        scan[s].rest = mine /\ mine # None

Named == \A s \in Scan : scan[s].st # "unused" => scan[s].agent \in Agent

Kept(q) == \A s \in req[q].hour : scan[s].st \in {"committed", "gone"}

Present(q) ==
    mine = req[q].rest /\ req[q].at # "idle" =>
        req[q].total \cup req[q].period \cup req[q].hour \subseteq Matching(q)

Exact(q) ==
    req[q].calm =>
        /\ req[q].at \in {"period", "hour", "agents"} => req[q].total = Matching(q)
        /\ req[q].at \in {"hour", "agents"} => req[q].period = Matching(q)
        /\ req[q].at = "agents" => req[q].hour = Matching(q)

Grows(q, a, b) == a \subseteq b \/ (b = {} /\ mine # req[q].rest)

Grown(q) ==
    /\ req[q].at \in {"hour", "agents", "answered"} => Grows(q, req[q].total, req[q].period)
    /\ req[q].at \in {"agents", "answered"} => Grows(q, req[q].period, req[q].hour)

Agrees(q) ==
    req[q].calm /\ req[q].at = "answered" =>
        /\ req[q].total = req[q].period
        /\ req[q].period = req[q].hour
        /\ req[q].agents \subseteq req[q].hour
        /\ Cardinality({scan[s].agent : s \in req[q].hour}) <= Limit
             => req[q].agents = req[q].hour

ReqInv(q) == Kept(q) /\ Present(q) /\ Exact(q) /\ Grown(q) /\ Agrees(q)

IInv == TypeOK /\ Live /\ Named /\ \A q \in Request : ReqInv(q)

----------------------------------------------------------------------------
(* Types *)

\* What a step may write into a request.
LEMMA CallParts ==
    ASSUME NEW c \in Call, NEW S \in SUBSET Scan, NEW b \in BOOLEAN
    PROVE  /\ [c EXCEPT !.calm = b] \in Call
           /\ [c EXCEPT !.at = "period", !.total = S] \in {d \in Call : d.rest = c.rest}
           /\ [c EXCEPT !.at = "hour", !.period = S] \in {d \in Call : d.rest = c.rest}
           /\ [c EXCEPT !.at = "agents", !.hour = S] \in {d \in Call : d.rest = c.rest}
           /\ [c EXCEPT !.at = "answered", !.agents = S] \in {d \in Call : d.rest = c.rest}
           /\ [c EXCEPT !.at = "exported", !.rows = S] \in {d \in Call : d.rest = c.rest}
BY DEF Call

LEMMA InitTypeOK == Init => TypeOK
<1> SUFFICES ASSUME Init PROVE TypeOK
  OBVIOUS
<1>1. 0 \in Time
  BY BoundsAssumption DEF Time
<1>2. NoRow \in Row /\ NoCall \in Call
  BY <1>1 DEF NoRow, Row, NoCall, Call, Boundary
<1>3. QED BY <1>1, <1>2 DEF Init, TypeOK, NoCall

\* The requests keep their type when one goes on with the same restaurant.
LEMMA GoOn ==
    ASSUME TypeOK, NEW q \in Request, NEW c \in Call, c.rest \in used,
           req' = [req EXCEPT ![q] = c], UNCHANGED <<now, mine, used, scan>>
    PROVE  TypeOK'
BY DEF TypeOK

LEMMA MatchingType ==
    ASSUME NEW q \in Request
    PROVE  Matching(q) \in SUBSET Scan
BY DEF Matching, CommittedOf

LEMMA DisturbType ==
    ASSUME TypeOK, Disturb
    PROVE  /\ req' \in [Request -> Call]
           /\ \A q \in Request : req'[q].at = req[q].at /\ req'[q].rest = req[q].rest
<1>1. ASSUME NEW q \in Request
      PROVE  /\ req'[q] \in Call
             /\ req'[q].at = req[q].at
             /\ req'[q].rest = req[q].rest
  <2>1. req[q] \in Call
    BY DEF TypeOK
  <2> DEFINE b == req[q].calm /\ req[q].at \notin {"period", "hour", "agents"}
  <2>2. req'[q] = [req[q] EXCEPT !.calm = b]
    BY DEF Disturb
  <2>3. b \in BOOLEAN
    OBVIOUS
  <2> HIDE DEF b
  <2>4. req'[q] \in Call
    BY <2>1, <2>2, <2>3, CallParts
  <2>5. QED BY <2>1, <2>2, <2>4 DEF Call
<1>2. req' \in [Request -> Call]
  BY <1>1 DEF Disturb
<1>3. QED BY <1>1, <1>2

LEMMA NextTypeOK == TypeOK /\ [Next]_vars => TypeOK'
<1> SUFFICES ASSUME TypeOK, [Next]_vars PROVE TypeOK'
  OBVIOUS
<1>1. ASSUME NEW s \in Scan, NEW a \in Agent, InsertScan(s, a) PROVE TypeOK'
  <2>1. [st |-> "inserted", rest |-> mine, at |-> now, agent |-> a] \in Row
    BY DEF TypeOK, Row
  <2>2. QED BY <1>1, <2>1 DEF InsertScan, TypeOK
<1>2. ASSUME NEW s \in Scan, CommitScan(s) PROVE TypeOK'
  <2>1. scan' \in [Scan -> Row]
    BY <1>2 DEF CommitScan, TypeOK, Row
  <2>2. QED BY <1>2, <2>1, DisturbType DEF CommitScan, TypeOK
<1>3. ASSUME NEW s \in Scan, LoseScan(s) PROVE TypeOK'
  BY <1>3 DEF LoseScan, TypeOK, Row
<1>4. ASSUME NEW r \in Restaurant, CreateRestaurant(r) PROVE TypeOK'
  BY <1>4 DEF CreateRestaurant, TypeOK
<1>5. CASE DeleteRestaurant
  <2>1. scan' \in [Scan -> Row]
    BY <1>5 DEF DeleteRestaurant, TypeOK, Row
  <2>2. QED BY <1>5, <2>1, DisturbType DEF DeleteRestaurant, TypeOK
<1>6. CASE Tick
  BY <1>6, BoundsAssumption DEF Tick, TypeOK, Time
<1>7. ASSUME NEW q \in Request, NEW at \in {"total", "export"},
             NEW from \in Boundary, NEW to \in Boundary, Find(q, at, from, to)
      PROVE  TypeOK'
  <2> DEFINE c == [NoCall EXCEPT !.at = at, !.rest = mine, !.from = from,
                                 !.to = to, !.base = CommittedOf(mine)]
  <2>1. mine \in used /\ mine \in Restaurant /\ CommittedOf(mine) \in SUBSET Scan
    BY <1>7 DEF Find, TypeOK, CommittedOf
  <2>2. c \in Call /\ c.rest \in used
    BY <2>1 DEF NoCall, Call, Boundary
  <2>3. req' = [req EXCEPT ![q] = c]
    BY <1>7 DEF Find
  <2> HIDE DEF c
  <2>4. QED BY <1>7, <2>2, <2>3, GoOn DEF Find
<1>8. ASSUME NEW q \in Request, Answer(q) PROVE TypeOK'
  <2>1. req[q] \in Call /\ (req[q].at # "idle" => req[q].rest \in used)
    BY DEF TypeOK
  <2>2. \E c \in Call : c.rest = req[q].rest /\ req' = [req EXCEPT ![q] = c]
    <3>1. CASE GetTotalScans(q)
      <4> DEFINE c == [req[q] EXCEPT !.at = "period", !.total = Matching(q)]
      <4>1. req' = [req EXCEPT ![q] = c]
        BY <3>1 DEF GetTotalScans
      <4>2. c \in Call /\ c.rest = req[q].rest
        BY <2>1, MatchingType, CallParts
      <4> HIDE DEF c
      <4>3. QED BY <4>1, <4>2
    <3>2. CASE GetScansByPeriod(q)
      <4> DEFINE c == [req[q] EXCEPT !.at = "hour", !.period = Matching(q)]
      <4>1. req' = [req EXCEPT ![q] = c]
        BY <3>2 DEF GetScansByPeriod
      <4>2. c \in Call /\ c.rest = req[q].rest
        BY <2>1, MatchingType, CallParts
      <4> HIDE DEF c
      <4>3. QED BY <4>1, <4>2
    <3>3. CASE GetScansByHour(q)
      <4> DEFINE c == [req[q] EXCEPT !.at = "agents", !.hour = Matching(q)]
      <4>1. req' = [req EXCEPT ![q] = c]
        BY <3>3 DEF GetScansByHour
      <4>2. c \in Call /\ c.rest = req[q].rest
        BY <2>1, MatchingType, CallParts
      <4> HIDE DEF c
      <4>3. QED BY <4>1, <4>2
    <3>4. CASE GetTopUserAgents(q)
      <4>1. PICK T \in Top(Matching(q)) : req' = [req EXCEPT ![q].at = "answered", ![q].agents = T]
        BY <3>4 DEF GetTopUserAgents
      <4>2. T \in SUBSET Scan
        BY <4>1, MatchingType DEF Top
      <4> DEFINE c == [req[q] EXCEPT !.at = "answered", !.agents = T]
      <4>3. req' = [req EXCEPT ![q] = c]
        BY <4>1
      <4>4. c \in Call /\ c.rest = req[q].rest
        BY <2>1, <4>2, CallParts
      <4> HIDE DEF c
      <4>5. QED BY <4>3, <4>4
    <3>5. CASE GetScanEventsForExport(q)
      <4> DEFINE c == [req[q] EXCEPT !.at = "exported", !.rows = Matching(q)]
      <4>1. req' = [req EXCEPT ![q] = c]
        BY <3>5 DEF GetScanEventsForExport
      <4>2. c \in Call /\ c.rest = req[q].rest
        BY <2>1, MatchingType, CallParts
      <4> HIDE DEF c
      <4>3. QED BY <4>1, <4>2
    <3>6. QED BY <1>8, <3>1, <3>2, <3>3, <3>4, <3>5 DEF Answer
  <2>3. req[q].at # "idle" /\ UNCHANGED <<now, mine, used, scan>>
    BY <1>8 DEF Answer, GetTotalScans, GetScansByPeriod, GetScansByHour,
                GetTopUserAgents, GetScanEventsForExport
  <2>4. QED BY <2>1, <2>2, <2>3, GoOn
<1>9. CASE UNCHANGED vars
  BY <1>9 DEF vars, TypeOK
<1>10. ASSUME NEW q \in Request, NEW a \in Asked,
              GetAnalytics(q, a[1], a[2]) \/ ExportAnalytics(q, a[1], a[2])
       PROVE  TypeOK'
  <2>1. a[1] \in Boundary /\ a[2] \in Boundary
    BY AskedAssumption
  <2>2. QED BY <1>7, <1>10, <2>1 DEF GetAnalytics, ExportAnalytics
<1>11. QED BY <1>1, <1>2, <1>3, <1>4, <1>5, <1>6, <1>8, <1>9, <1>10 DEF Next

----------------------------------------------------------------------------
(* Steps that leave the requests alone, or disturb them *)

\* Nothing that counts changes: a row is inserted or lost, time passes.
LEMMA SameScans ==
    ASSUME IInv, UNCHANGED <<mine, req>>,
           \A s \in Scan : scan[s].st \in {"committed", "gone"} => scan'[s] = scan[s],
           \A s \in Scan : scan'[s].st = "committed" => scan[s].st = "committed",
           Live'
    PROVE  \A q \in Request : ReqInv(q)'
<1> SUFFICES ASSUME NEW q \in Request PROVE ReqInv(q)'
  OBVIOUS
<1>1. ReqInv(q) /\ req[q] \in Call
  BY DEF IInv, TypeOK
<1>2. Matching(q)' = Matching(q)
  BY DEF Matching, CommittedOf
<1>3. req[q].hour \subseteq Scan
  BY <1>1 DEF Call
<1>4. \A s \in req[q].hour : scan'[s] = scan[s]
  BY <1>1, <1>3 DEF ReqInv, Kept
<1>5. {scan'[s].agent : s \in req[q].hour} = {scan[s].agent : s \in req[q].hour}
  BY <1>4
<1>6. Agrees(q)'
  BY <1>1, <1>5 DEF ReqInv, Agrees
<1>7. Kept(q)' /\ Present(q)' /\ Exact(q)' /\ Grown(q)'
  BY <1>1, <1>2, <1>4 DEF ReqInv, Kept, Present, Exact, Grown, Grows
<1>8. QED BY <1>6, <1>7 DEF ReqInv

\* What Disturb leaves of a request.
LEMMA Disturbed ==
    ASSUME TypeOK, Disturb, NEW q \in Request
    PROVE  /\ req'[q].at = req[q].at /\ req'[q].rest = req[q].rest
           /\ req'[q].from = req[q].from /\ req'[q].to = req[q].to
           /\ req'[q].total = req[q].total /\ req'[q].period = req[q].period
           /\ req'[q].hour = req[q].hour /\ req'[q].agents = req[q].agents
           /\ req'[q].calm => req[q].calm /\ req[q].at \notin {"period", "hour", "agents"}
<1> DEFINE b == req[q].calm /\ req[q].at \notin {"period", "hour", "agents"}
<1>1. req'[q] = [req[q] EXCEPT !.calm = b] /\ req[q] \in Call
  BY DEF Disturb, TypeOK
<1>2. req'[q].calm = b
  BY <1>1 DEF Call
<1>3. /\ req'[q].at = req[q].at /\ req'[q].rest = req[q].rest
      /\ req'[q].from = req[q].from /\ req'[q].to = req[q].to
      /\ req'[q].total = req[q].total /\ req'[q].period = req[q].period
      /\ req'[q].hour = req[q].hour /\ req'[q].agents = req[q].agents
  <2> HIDE DEF b
  <2>1. QED BY <1>1 DEF Call
<1>4. QED BY <1>2, <1>3

\* The scans of the restaurant grow, or the restaurant goes.
LEMMA OtherScans ==
    ASSUME IInv, Disturb,
           mine' = mine \/ mine' = None,
           \A s \in Scan : scan[s].st \in {"committed", "gone"} =>
              /\ scan'[s].st \in {"committed", "gone"}
              /\ scan'[s].agent = scan[s].agent,
           mine' = mine => \A s \in Scan : scan[s].st = "committed" => scan'[s] = scan[s]
    PROVE  \A q \in Request : ReqInv(q)'
<1> SUFFICES ASSUME NEW q \in Request PROVE ReqInv(q)'
  OBVIOUS
<1>1. ReqInv(q) /\ req[q] \in Call /\ (req[q].at # "idle" => req[q].rest # None)
  BY NoneAssumption DEF IInv, TypeOK
<1>2. /\ req'[q].at = req[q].at /\ req'[q].rest = req[q].rest
      /\ req'[q].from = req[q].from /\ req'[q].to = req[q].to
      /\ req'[q].total = req[q].total /\ req'[q].period = req[q].period
      /\ req'[q].hour = req[q].hour /\ req'[q].agents = req[q].agents
      /\ req'[q].calm => req[q].calm /\ req[q].at \notin {"period", "hour", "agents"}
  BY Disturbed DEF IInv
<1>3. \A s \in req[q].hour : /\ scan'[s].st \in {"committed", "gone"}
                             /\ scan'[s].agent = scan[s].agent
  BY <1>1 DEF ReqInv, Kept, Call
<1>4. Kept(q)'
  BY <1>2, <1>3 DEF Kept
<1>5. Present(q)'
  <2>1. mine' = mine => Matching(q) \subseteq Matching(q)'
    BY <1>2 DEF Matching, CommittedOf
  <2>2. QED BY <1>1, <1>2, <2>1 DEF ReqInv, Present
<1>6. Exact(q)'
  BY <1>2 DEF Exact
<1>7. Grown(q)'
  BY <1>1, <1>2 DEF ReqInv, Grown, Grows
<1>8. Agrees(q)'
  <2>1. {scan'[s].agent : s \in req'[q].hour} = {scan[s].agent : s \in req[q].hour}
    BY <1>2, <1>3
  <2>2. QED BY <1>1, <1>2, <2>1 DEF ReqInv, Agrees
<1>9. QED BY <1>4, <1>5, <1>6, <1>7, <1>8 DEF ReqInv

----------------------------------------------------------------------------
(* Steps of a request *)

\* The other requests stay as they are.
LEMMA OthersStay ==
    ASSUME IInv, NEW q \in Request, NEW c \in Call, req' = [req EXCEPT ![q] = c],
           UNCHANGED <<mine, scan>>, ReqInv(q)'
    PROVE  \A p \in Request : ReqInv(p)'
<1> SUFFICES ASSUME NEW p \in Request, p # q PROVE ReqInv(p)'
  OBVIOUS
<1>1. req'[p] = req[p] /\ ReqInv(p)
  BY DEF IInv, TypeOK
<1>2. Matching(p)' = Matching(p)
  BY <1>1 DEF Matching, CommittedOf
<1>3. QED BY <1>1, <1>2 DEF ReqInv, Kept, Present, Exact, Grown, Grows, Agrees

\* Nothing matches of a restaurant that has gone.
LEMMA GoneMatchesNothing ==
    ASSUME IInv, NEW q \in Request, mine # req[q].rest
    PROVE  Matching(q) = {}
BY DEF IInv, Live, Matching, CommittedOf

\* All user agents are listed when there are not more than Limit.
LEMMA TopIsAll ==
    ASSUME TypeOK, NEW S \in SUBSET Scan, \A s \in S : scan[s].st \in {"committed", "gone"},
           NEW T \in Top(S)
    PROVE  /\ T \subseteq S
           /\ Cardinality({scan[s].agent : s \in S}) <= Limit /\ {scan[s].agent : s \in S} \subseteq Agent
                => T = S
<1> DEFINE All == {scan[s].agent : s \in S}
<1>1. PICK A \in SUBSET All :
        /\ T = UNION {By(S, a) : a \in A}
        /\ Cardinality(A) <= Limit
        /\ \A b \in All \ A : Cardinality(A) = Limit
  BY DEF Top
<1>2. T \subseteq S
  BY <1>1 DEF By
<1>3. ASSUME Cardinality(All) <= Limit, All \subseteq Agent
      PROVE  T = S
  <2>1. IsFiniteSet(All)
    BY <1>3, BoundsAssumption, FS_Subset
  <2>2. A = All
    <3>1. CASE A # All
      <4>1. Cardinality(A) = Limit
        BY <1>1, <3>1
      <4>2. Cardinality(A) \in Nat /\ Cardinality(All) \in Nat /\ Cardinality(A) < Cardinality(All)
        BY <2>1, <3>1, FS_Subset, FS_CardinalityType
      <4>3. QED BY <1>3, <4>1, <4>2, BoundsAssumption
    <3>2. QED BY <3>1
  <2>3. \A s \in S : s \in By(S, scan[s].agent)
    BY DEF By
  <2>4. S \subseteq T
    BY <1>1, <2>2, <2>3
  <2>5. QED BY <1>2, <2>4
<1>4. QED BY <1>2, <1>3

LEMMA StepGetTotalScans ==
    ASSUME IInv, NEW q \in Request, GetTotalScans(q)
    PROVE  \A p \in Request : ReqInv(p)'
<1> DEFINE c == [req[q] EXCEPT !.at = "period", !.total = Matching(q)]
<1>1. req' = [req EXCEPT ![q] = c] /\ UNCHANGED <<mine, scan>>
  BY DEF GetTotalScans
<1>2. req[q] \in Call /\ ReqInv(q) /\ req[q].at = "total"
  BY DEF GetTotalScans, IInv, TypeOK
<1>3. c \in Call
  BY <1>2, MatchingType, CallParts
<1>4. req'[q] = c
  BY <1>1 DEF IInv, TypeOK
<1>5. /\ c.at = "period" /\ c.total = Matching(q)
      /\ c.rest = req[q].rest /\ c.from = req[q].from /\ c.to = req[q].to
      /\ c.calm = req[q].calm
      /\ c.period = req[q].period
      /\ c.hour = req[q].hour
      /\ c.agents = req[q].agents
  BY <1>2 DEF Call
<1> HIDE DEF c
<1>6. Matching(q)' = Matching(q)
  BY <1>1, <1>4, <1>5 DEF Matching, CommittedOf
<1>7. \A s \in Matching(q) : scan[s].st = "committed"
  BY DEF Matching, CommittedOf
<1>8. Kept(q)'
  BY <1>1, <1>2, <1>4, <1>5, <1>7 DEF ReqInv, Kept
<1>9. Present(q)'
  BY <1>1, <1>2, <1>4, <1>5, <1>6 DEF ReqInv, Present
<1>10. Exact(q)'
  BY <1>2, <1>4, <1>5, <1>6 DEF ReqInv, Exact
<1>11. Grown(q)' /\ Agrees(q)'
  BY <1>1, <1>2, <1>4, <1>5, GoneMatchesNothing DEF ReqInv, Present, Grown, Grows, Agrees
<1>12. QED BY <1>1, <1>3, <1>8, <1>9, <1>10, <1>11, OthersStay DEF ReqInv

LEMMA StepGetScansByPeriod ==
    ASSUME IInv, NEW q \in Request, GetScansByPeriod(q)
    PROVE  \A p \in Request : ReqInv(p)'
<1> DEFINE c == [req[q] EXCEPT !.at = "hour", !.period = Matching(q)]
<1>1. req' = [req EXCEPT ![q] = c] /\ UNCHANGED <<mine, scan>>
  BY DEF GetScansByPeriod
<1>2. req[q] \in Call /\ ReqInv(q) /\ req[q].at = "period"
  BY DEF GetScansByPeriod, IInv, TypeOK
<1>3. c \in Call
  BY <1>2, MatchingType, CallParts
<1>4. req'[q] = c
  BY <1>1 DEF IInv, TypeOK
<1>5. /\ c.at = "hour" /\ c.period = Matching(q)
      /\ c.rest = req[q].rest /\ c.from = req[q].from /\ c.to = req[q].to
      /\ c.calm = req[q].calm
      /\ c.total = req[q].total
      /\ c.hour = req[q].hour
      /\ c.agents = req[q].agents
  BY <1>2 DEF Call
<1> HIDE DEF c
<1>6. Matching(q)' = Matching(q)
  BY <1>1, <1>4, <1>5 DEF Matching, CommittedOf
<1>7. \A s \in Matching(q) : scan[s].st = "committed"
  BY DEF Matching, CommittedOf
<1>8. Kept(q)'
  BY <1>1, <1>2, <1>4, <1>5, <1>7 DEF ReqInv, Kept
<1>9. Present(q)'
  BY <1>1, <1>2, <1>4, <1>5, <1>6 DEF ReqInv, Present
<1>10. Exact(q)'
  BY <1>2, <1>4, <1>5, <1>6 DEF ReqInv, Exact
<1>11. Grown(q)' /\ Agrees(q)'
  BY <1>1, <1>2, <1>4, <1>5, GoneMatchesNothing DEF ReqInv, Present, Grown, Grows, Agrees
<1>12. QED BY <1>1, <1>3, <1>8, <1>9, <1>10, <1>11, OthersStay DEF ReqInv

LEMMA StepGetScansByHour ==
    ASSUME IInv, NEW q \in Request, GetScansByHour(q)
    PROVE  \A p \in Request : ReqInv(p)'
<1> DEFINE c == [req[q] EXCEPT !.at = "agents", !.hour = Matching(q)]
<1>1. req' = [req EXCEPT ![q] = c] /\ UNCHANGED <<mine, scan>>
  BY DEF GetScansByHour
<1>2. req[q] \in Call /\ ReqInv(q) /\ req[q].at = "hour"
  BY DEF GetScansByHour, IInv, TypeOK
<1>3. c \in Call
  BY <1>2, MatchingType, CallParts
<1>4. req'[q] = c
  BY <1>1 DEF IInv, TypeOK
<1>5. /\ c.at = "agents" /\ c.hour = Matching(q)
      /\ c.rest = req[q].rest /\ c.from = req[q].from /\ c.to = req[q].to
      /\ c.calm = req[q].calm
      /\ c.total = req[q].total
      /\ c.period = req[q].period
      /\ c.agents = req[q].agents
  BY <1>2 DEF Call
<1> HIDE DEF c
<1>6. Matching(q)' = Matching(q)
  BY <1>1, <1>4, <1>5 DEF Matching, CommittedOf
<1>7. \A s \in Matching(q) : scan[s].st = "committed"
  BY DEF Matching, CommittedOf
<1>8. Kept(q)'
  BY <1>1, <1>2, <1>4, <1>5, <1>7 DEF ReqInv, Kept
<1>9. Present(q)'
  BY <1>1, <1>2, <1>4, <1>5, <1>6 DEF ReqInv, Present
<1>10. Exact(q)'
  BY <1>2, <1>4, <1>5, <1>6 DEF ReqInv, Exact
<1>11. Grown(q)' /\ Agrees(q)'
  BY <1>1, <1>2, <1>4, <1>5, GoneMatchesNothing DEF ReqInv, Present, Grown, Grows, Agrees
<1>12. QED BY <1>1, <1>3, <1>8, <1>9, <1>10, <1>11, OthersStay DEF ReqInv

LEMMA StepGetScanEventsForExport ==
    ASSUME IInv, NEW q \in Request, GetScanEventsForExport(q)
    PROVE  \A p \in Request : ReqInv(p)'
<1> DEFINE c == [req[q] EXCEPT !.at = "exported", !.rows = Matching(q)]
<1>1. req' = [req EXCEPT ![q] = c] /\ UNCHANGED <<mine, scan>>
  BY DEF GetScanEventsForExport
<1>2. req[q] \in Call /\ ReqInv(q) /\ req[q].at = "export"
  BY DEF GetScanEventsForExport, IInv, TypeOK
<1>3. c \in Call
  BY <1>2, MatchingType, CallParts
<1>4. req'[q] = c
  BY <1>1 DEF IInv, TypeOK
<1>5. /\ c.at = "exported" /\ c.rows = Matching(q)
      /\ c.rest = req[q].rest /\ c.from = req[q].from /\ c.to = req[q].to
      /\ c.calm = req[q].calm
      /\ c.total = req[q].total
      /\ c.period = req[q].period
      /\ c.hour = req[q].hour
      /\ c.agents = req[q].agents
  BY <1>2 DEF Call
<1> HIDE DEF c
<1>6. Matching(q)' = Matching(q)
  BY <1>1, <1>4, <1>5 DEF Matching, CommittedOf
<1>7. \A s \in Matching(q) : scan[s].st = "committed"
  BY DEF Matching, CommittedOf
<1>8. Kept(q)'
  BY <1>1, <1>2, <1>4, <1>5, <1>7 DEF ReqInv, Kept
<1>9. Present(q)'
  BY <1>1, <1>2, <1>4, <1>5, <1>6 DEF ReqInv, Present
<1>10. Exact(q)'
  BY <1>2, <1>4, <1>5, <1>6 DEF ReqInv, Exact
<1>11. Grown(q)' /\ Agrees(q)'
  BY <1>1, <1>2, <1>4, <1>5, GoneMatchesNothing DEF ReqInv, Present, Grown, Grows, Agrees
<1>12. QED BY <1>1, <1>3, <1>8, <1>9, <1>10, <1>11, OthersStay DEF ReqInv

LEMMA StepGetTopUserAgents ==
    ASSUME IInv, NEW q \in Request, GetTopUserAgents(q)
    PROVE  \A p \in Request : ReqInv(p)'
<1>1. PICK T \in Top(Matching(q)) : req' = [req EXCEPT ![q] = [@ EXCEPT !.at = "answered", !.agents = T]]
  BY DEF GetTopUserAgents
<1> DEFINE c == [req[q] EXCEPT !.at = "answered", !.agents = T]
<1>2. req' = [req EXCEPT ![q] = c] /\ UNCHANGED <<mine, scan>>
  BY <1>1 DEF GetTopUserAgents
<1>3. req[q] \in Call /\ ReqInv(q) /\ req[q].at = "agents"
  BY DEF GetTopUserAgents, IInv, TypeOK
<1>4. Matching(q) \in SUBSET Scan /\ \A s \in Matching(q) : scan[s].st = "committed"
  BY DEF Matching, CommittedOf
<1>5. {scan[s].agent : s \in Matching(q)} \subseteq Agent
  BY <1>4 DEF IInv, Named
<1>6. /\ T \subseteq Matching(q)
      /\ Cardinality({scan[s].agent : s \in Matching(q)}) <= Limit => T = Matching(q)
  BY <1>4, <1>5, TopIsAll DEF IInv
<1>7. c \in Call
  BY <1>3, <1>4, <1>6, CallParts
<1>8. req'[q] = c
  BY <1>2 DEF IInv, TypeOK
<1>9. /\ c.at = "answered" /\ c.agents = T
      /\ c.rest = req[q].rest /\ c.from = req[q].from /\ c.to = req[q].to
      /\ c.calm = req[q].calm
      /\ c.total = req[q].total /\ c.period = req[q].period /\ c.hour = req[q].hour
  BY <1>3 DEF Call
<1> HIDE DEF c
<1>10. Matching(q)' = Matching(q)
  BY <1>2, <1>8, <1>9 DEF Matching, CommittedOf
<1>11. Kept(q)' /\ Present(q)' /\ Exact(q)' /\ Grown(q)'
  BY <1>2, <1>3, <1>8, <1>9, <1>10 DEF ReqInv, Kept, Present, Exact, Grown, Grows
<1>12. Agrees(q)'
  <2>1. CASE req[q].calm
    <3>1. /\ req[q].total = Matching(q) /\ req[q].period = Matching(q)
          /\ req[q].hour = Matching(q)
      BY <1>3, <2>1 DEF ReqInv, Exact
    <3>2. {scan'[s].agent : s \in req'[q].hour} = {scan[s].agent : s \in Matching(q)}
      BY <1>2, <1>8, <1>9, <3>1
    <3>3. QED BY <1>6, <1>8, <1>9, <3>1, <3>2 DEF Agrees
  <2>2. CASE ~req[q].calm
    BY <1>8, <1>9, <2>2 DEF Agrees
  <2>3. QED BY <2>1, <2>2
<1>13. QED BY <1>2, <1>7, <1>11, <1>12, OthersStay DEF ReqInv

\* A request that begins has counted nothing.
LEMMA StepFind ==
    ASSUME IInv, NEW q \in Request, NEW at \in {"total", "export"},
           NEW from \in Boundary, NEW to \in Boundary, Find(q, at, from, to)
    PROVE  \A p \in Request : ReqInv(p)'
<1> DEFINE c == [NoCall EXCEPT !.at = at, !.rest = mine, !.from = from,
                               !.to = to, !.base = CommittedOf(mine)]
<1>1. req' = [req EXCEPT ![q] = c] /\ UNCHANGED <<mine, scan>>
  BY DEF Find
<1>2. mine \in Restaurant /\ CommittedOf(mine) \in SUBSET Scan
  BY DEF Find, IInv, TypeOK, CommittedOf
<1>3. c \in Call /\ c.at = at /\ c.total = {} /\ c.period = {} /\ c.hour = {} /\ c.agents = {}
  BY <1>2 DEF NoCall, Call, Boundary
<1>4. req'[q] = c
  BY <1>1 DEF IInv, TypeOK
<1> HIDE DEF c
<1>5. ReqInv(q)'
  BY <1>3, <1>4 DEF ReqInv, Kept, Present, Exact, Grown, Grows, Agrees
<1>6. QED BY <1>1, <1>3, <1>5, OthersStay

----------------------------------------------------------------------------
(* The invariant *)

LEMMA InitIInv == Init => IInv
<1> SUFFICES ASSUME Init PROVE IInv
  OBVIOUS
<1>1. TypeOK
  BY InitTypeOK
<1>2. \A s \in Scan : scan[s].st = "unused"
  BY DEF Init, NoRow
<1>3. \A q \in Request : req[q].at = "idle" /\ req[q].hour = {}
  BY DEF Init, NoCall
<1>4. \A q \in Request : ReqInv(q)
  BY <1>3 DEF ReqInv, Kept, Present, Exact, Grown, Grows, Agrees
<1>5. QED BY <1>1, <1>2, <1>4 DEF IInv, Live, Named

LEMMA NextIInv == IInv /\ [Next]_vars => IInv'
<1> SUFFICES ASSUME IInv, [Next]_vars PROVE IInv'
  OBVIOUS
<1>1. TypeOK' /\ scan \in [Scan -> Row]
  BY NextTypeOK DEF IInv, TypeOK
<1>2. ASSUME NEW s \in Scan, NEW a \in Agent, InsertScan(s, a) PROVE IInv'
  <2> DEFINE row == [st |-> "inserted", rest |-> mine, at |-> now, agent |-> a]
  <2>1. scan' = [scan EXCEPT ![s] = row] /\ scan[s].st = "unused"
    BY <1>2 DEF InsertScan
  <2>2. scan'[s] = row /\ \A t \in Scan : t # s => scan'[t] = scan[t]
    BY <1>1, <2>1
  <2>3. row.st = "inserted" /\ row.rest = mine /\ row.agent = a
    OBVIOUS
  <2> HIDE DEF row
  <2>4. Live' /\ Named'
    BY <1>2, <2>2, <2>3 DEF InsertScan, IInv, Live, Named
  <2>5. \A q \in Request : ReqInv(q)'
    BY <1>2, <2>1, <2>2, <2>3, <2>4, SameScans DEF InsertScan
  <2>6. QED BY <1>1, <2>4, <2>5 DEF IInv
<1>3. ASSUME NEW s \in Scan, CommitScan(s) PROVE IInv'
  <2>1. scan' = [scan EXCEPT ![s].st = "committed"] /\ scan[s].st = "inserted"
    BY <1>3 DEF CommitScan
  <2>2. \A t \in Scan : t # s => scan'[t] = scan[t]
    BY <1>1, <2>1
  <2>3. scan'[s].st = "committed" /\ scan'[s].rest = scan[s].rest /\ scan'[s].agent = scan[s].agent
    BY <1>1, <2>1 DEF Row
  <2>4. Live' /\ Named'
    BY <1>3, <2>1, <2>2, <2>3 DEF CommitScan, IInv, Live, Named
  <2>5. \A q \in Request : ReqInv(q)'
    BY <1>3, <2>1, <2>2, OtherScans DEF CommitScan
  <2>6. QED BY <1>1, <2>4, <2>5 DEF IInv
<1>4. ASSUME NEW s \in Scan, LoseScan(s) PROVE IInv'
  <2>1. scan' = [scan EXCEPT ![s].st = "gone"] /\ scan[s].st = "inserted"
    BY <1>4 DEF LoseScan
  <2>2. \A t \in Scan : t # s => scan'[t] = scan[t]
    BY <1>1, <2>1
  <2>3. scan'[s].st = "gone" /\ scan'[s].agent = scan[s].agent
    BY <1>1, <2>1 DEF Row
  <2>4. Live' /\ Named'
    BY <1>4, <2>1, <2>2, <2>3 DEF LoseScan, IInv, Live, Named
  <2>5. \A q \in Request : ReqInv(q)'
    BY <1>4, <2>1, <2>2, <2>3, <2>4, SameScans DEF LoseScan
  <2>6. QED BY <1>1, <2>4, <2>5 DEF IInv
<1>5. ASSUME NEW r \in Restaurant, CreateRestaurant(r) PROVE IInv'
  <2>1. \A s \in Scan : scan[s].st \notin {"inserted", "committed"}
    BY <1>5 DEF CreateRestaurant, IInv, Live
  <2>2. Live' /\ Named'
    BY <1>5, <2>1 DEF CreateRestaurant, IInv, Live, Named
  <2>3. ASSUME NEW q \in Request PROVE ReqInv(q)'
    <3>1. ReqInv(q) /\ (req[q].at # "idle" => mine' # req[q].rest)
      BY <1>5 DEF CreateRestaurant, IInv, TypeOK
    <3>2. Matching(q)' = Matching(q)
      BY <1>5 DEF CreateRestaurant, Matching, CommittedOf
    <3>3. QED BY <1>5, <3>1, <3>2
          DEF CreateRestaurant, ReqInv, Kept, Present, Exact, Grown, Grows, Agrees
  <2>4. QED BY <1>1, <2>2, <2>3 DEF IInv
<1>6. CASE DeleteRestaurant
  <2>1. ASSUME NEW s \in Scan
        PROVE  /\ scan'[s].agent = scan[s].agent
               /\ scan'[s].st = IF scan[s].st = "committed" THEN "gone" ELSE scan[s].st
    <3>1. scan[s] \in Row /\ (scan[s].st = "committed" => s \in CommittedOf(mine))
      BY <1>1 DEF CommittedOf, IInv, Live
    <3>2. CASE s \in CommittedOf(mine)
      BY <1>6, <3>1, <3>2 DEF DeleteRestaurant, Row, CommittedOf
    <3>3. CASE s \notin CommittedOf(mine)
      BY <1>6, <3>1, <3>3 DEF DeleteRestaurant
    <3>4. QED BY <3>2, <3>3
  <2>2. mine' = None /\ mine # None /\ \A s \in Scan : scan[s].st # "inserted"
    BY <1>6 DEF DeleteRestaurant
  <2>3. Live' /\ Named'
    BY <2>1, <2>2 DEF IInv, Live, Named
  <2>4. \A q \in Request : ReqInv(q)'
    BY <1>6, <2>1, <2>2, OtherScans DEF DeleteRestaurant
  <2>5. QED BY <1>1, <2>3, <2>4 DEF IInv
<1>7. CASE Tick
  <2>1. Live' /\ Named'
    BY <1>7 DEF Tick, IInv, Live, Named
  <2>2. \A q \in Request : ReqInv(q)'
    BY <1>7, <2>1, SameScans DEF Tick
  <2>3. QED BY <1>1, <2>1, <2>2 DEF IInv
<1>8. ASSUME UNCHANGED <<mine, scan>>, \A q \in Request : ReqInv(q)' PROVE IInv'
  BY <1>1, <1>8 DEF IInv, Live, Named
<1>9. ASSUME NEW q \in Request, NEW at \in {"total", "export"},
             NEW from \in Boundary, NEW to \in Boundary, Find(q, at, from, to)
      PROVE  IInv'
  BY <1>8, <1>9, StepFind DEF Find
<1>10. ASSUME NEW q \in Request, Answer(q) PROVE IInv'
  <2>1. UNCHANGED <<mine, scan>>
    BY <1>10 DEF Answer, GetTotalScans, GetScansByPeriod, GetScansByHour,
                 GetTopUserAgents, GetScanEventsForExport
  <2>2. \A p \in Request : ReqInv(p)'
    BY <1>10, StepGetTotalScans, StepGetScansByPeriod, StepGetScansByHour,
       StepGetTopUserAgents, StepGetScanEventsForExport DEF Answer
  <2>3. QED BY <1>8, <2>1, <2>2
<1>11. CASE UNCHANGED vars
  <2>1. Live' /\ Named'
    BY <1>11 DEF vars, IInv, Live, Named
  <2>2. \A q \in Request : ReqInv(q)'
    BY <1>11, <2>1, SameScans DEF vars
  <2>3. QED BY <1>1, <2>1, <2>2 DEF IInv
<1>12. ASSUME NEW q \in Request, NEW a \in Asked,
              GetAnalytics(q, a[1], a[2]) \/ ExportAnalytics(q, a[1], a[2])
       PROVE  IInv'
  <2>1. a[1] \in Boundary /\ a[2] \in Boundary
    BY AskedAssumption
  <2>2. QED BY <1>9, <1>12, <2>1 DEF GetAnalytics, ExportAnalytics
<1>13. QED BY <1>2, <1>3, <1>4, <1>5, <1>6, <1>7, <1>10, <1>11, <1>12 DEF Next

LEMMA Invariant == Spec => []IInv
BY InitIInv, NextIInv, PTL DEF Spec

----------------------------------------------------------------------------
(* The window *)

Settled(s) == scan[s].st \in {"committed", "gone"}

Passes(q, s) ==
    /\ req[q].from # None => scan[s].at >= req[q].from
    /\ req[q].to # None => scan[s].at <= EndOfDay(req[q].to)

HasTotal(q) == req[q].at \in {"period", "hour", "agents", "answered"}

\* What is counted passes.
Sound(q) == \A s \in req[q].total \cup req[q].rows : Settled(s) /\ Passes(q, s)

\* What was there is still there.
Based(q) ==
    /\ \A s \in req[q].base : Settled(s)
    /\ mine = req[q].rest /\ req[q].at # "idle" => req[q].base \subseteq CommittedOf(req[q].rest)

\* What was there and passes is counted.
Complete(q) ==
    mine = req[q].rest => \A s \in req[q].base : Passes(q, s) =>
        /\ HasTotal(q) => s \in req[q].total
        /\ req[q].at = "exported" => s \in req[q].rows

\* What has not begun has counted nothing.
Blank(q) == req[q].at = "idle" => req[q].total = {} /\ req[q].rows = {} /\ req[q].base = {}

Dated(q) == Sound(q) /\ Based(q) /\ Complete(q) /\ Blank(q)

IDates == \A q \in Request : Dated(q)

LEMMA MatchingPasses ==
    ASSUME NEW q \in Request
    PROVE  Matching(q) = {s \in CommittedOf(req[q].rest) : Passes(q, s)}
BY DEF Matching, Passes

\* A request keeps its window through a step in which no scan that is settled
\* changes its time, and those of the restaurant stay as long as it does.
LEMMA DatesStay ==
    ASSUME NEW q \in Request, req[q] \in Call, Dated(q),
           /\ req'[q].rest = req[q].rest /\ req'[q].from = req[q].from /\ req'[q].to = req[q].to
           /\ req'[q].total = req[q].total /\ req'[q].rows = req[q].rows
           /\ req'[q].base = req[q].base
           /\ req'[q].at \in {"period", "hour", "agents", "answered"} => HasTotal(q)
           /\ req'[q].at = "exported" => req[q].at = "exported"
           /\ req'[q].at = "idle" <=> req[q].at = "idle",
           \A s \in Scan : Settled(s) => scan'[s].st \in {"committed", "gone"}
                                         /\ scan'[s].at = scan[s].at,
           mine' # mine => mine' # req[q].rest \/ req[q].at = "idle",
           mine' = mine => \A s \in Scan : scan[s].st = "committed" => scan'[s] = scan[s]
    PROVE  Dated(q)'
<1>1. /\ req[q].total \subseteq Scan /\ req[q].rows \subseteq Scan
      /\ req[q].base \subseteq Scan
  BY DEF Call
<1>2. \A s \in Scan : Settled(s) => Settled(s)' /\ (Passes(q, s)' <=> Passes(q, s))
  BY DEF Settled, Passes
<1>3. Sound(q)'
  BY <1>1, <1>2 DEF Dated, Sound
<1>4. Based(q)'
  <2>1. \A s \in req'[q].base : Settled(s)'
    BY <1>1, <1>2 DEF Dated, Based
  <2>2. ASSUME mine' = req[q].rest, req[q].at # "idle"
        PROVE  req[q].base \subseteq CommittedOf(req[q].rest)'
    BY <1>1, <2>2 DEF Dated, Based, CommittedOf
  <2>3. QED BY <2>1, <2>2 DEF Based, CommittedOf
<1>5. Complete(q)'
  BY <1>1, <1>2 DEF Dated, Based, Complete, Blank, HasTotal
<1>6. Blank(q)'
  BY DEF Dated, Blank
<1>7. QED BY <1>3, <1>4, <1>5, <1>6 DEF Dated

LEMMA InitIDates == Init => IDates
BY DEF Init, NoCall, IDates, Dated, Sound, Based, Complete, Blank, HasTotal

\* The steps of the menu requests, of the owner and of the clock.
LEMMA DatesOfScans ==
    ASSUME TypeOK, IDates,
           req' = req \/ Disturb,
           \A s \in Scan : Settled(s) => scan'[s].st \in {"committed", "gone"}
                                         /\ scan'[s].at = scan[s].at,
           mine' # mine => mine' \notin used,
           mine' = mine => \A s \in Scan : scan[s].st = "committed" => scan'[s] = scan[s]
    PROVE  IDates'
<1> SUFFICES ASSUME NEW q \in Request PROVE Dated(q)'
  BY DEF IDates
<1>1. req[q] \in Call /\ Dated(q) /\ (req[q].at # "idle" => req[q].rest \in used)
  BY DEF TypeOK, IDates
<1>2. /\ req'[q].rest = req[q].rest /\ req'[q].from = req[q].from /\ req'[q].to = req[q].to
      /\ req'[q].total = req[q].total /\ req'[q].rows = req[q].rows
      /\ req'[q].base = req[q].base /\ req'[q].at = req[q].at
  <2>1. CASE req' = req
    BY <2>1
  <2>2. CASE Disturb
    <3> DEFINE b == req[q].calm /\ req[q].at \notin {"period", "hour", "agents"}
    <3>1. req'[q] = [req[q] EXCEPT !.calm = b]
      BY <2>2 DEF Disturb
    <3> HIDE DEF b
    <3>2. QED BY <1>1, <3>1 DEF Call
  <2>3. QED BY <2>1, <2>2
<1>3. QED BY <1>1, <1>2, DatesStay DEF HasTotal

\* The other requests keep their windows.
LEMMA OtherDatesStay ==
    ASSUME TypeOK, IDates, NEW q \in Request, NEW c \in Call, req' = [req EXCEPT ![q] = c],
           UNCHANGED <<mine, scan>>, Dated(q)'
    PROVE  IDates'
<1> SUFFICES ASSUME NEW p \in Request, p # q PROVE Dated(p)'
  BY DEF IDates
<1>1. req'[p] = req[p] /\ req[p] \in Call /\ Dated(p)
  BY DEF TypeOK, IDates
<1>2. QED BY <1>1, DatesStay DEF HasTotal, Settled

LEMMA DatesOfFind ==
    ASSUME TypeOK, IDates, NEW q \in Request, NEW at \in {"total", "export"},
           NEW from \in Boundary, NEW to \in Boundary, Find(q, at, from, to)
    PROVE  IDates'
<1> DEFINE c == [NoCall EXCEPT !.at = at, !.rest = mine, !.from = from,
                               !.to = to, !.base = CommittedOf(mine)]
<1>1. req' = [req EXCEPT ![q] = c] /\ UNCHANGED <<mine, scan>>
  BY DEF Find
<1>2. mine \in Restaurant /\ CommittedOf(mine) \in SUBSET Scan
  BY DEF Find, TypeOK, CommittedOf
<1>3. /\ c \in Call /\ c.at = at /\ c.total = {} /\ c.rows = {} /\ c.rest = mine
      /\ c.base = CommittedOf(mine)
  BY <1>2 DEF NoCall, Call, Boundary
<1>4. req'[q] = c
  BY <1>1 DEF TypeOK
<1> HIDE DEF c
<1>5. Sound(q)' /\ Complete(q)' /\ Blank(q)'
  BY <1>3, <1>4 DEF Sound, Complete, Blank, HasTotal
<1>6. Based(q)'
  BY <1>1, <1>3, <1>4 DEF Based, Settled, CommittedOf
<1>7. QED BY <1>1, <1>3, <1>5, <1>6, OtherDatesStay DEF Dated

\* A request that counts takes everything that passes of what was there.
LEMMA DatesOfCounting ==
    ASSUME TypeOK, IDates, NEW q \in Request, req[q].at # "idle",
           NEW c \in Call, req' = [req EXCEPT ![q] = c], UNCHANGED <<mine, scan>>,
           /\ c.rest = req[q].rest /\ c.from = req[q].from /\ c.to = req[q].to
           /\ c.base = req[q].base /\ c.at # "idle"
           /\ c.total = Matching(q) \/ (c.total = req[q].total /\ (c.at # "exported" => HasTotal(q)))
           /\ c.rows = Matching(q) \/ (c.rows = req[q].rows /\ c.at # "exported")
    PROVE  IDates'
<1>1. Dated(q) /\ req[q] \in Call /\ req'[q] = c
  BY DEF TypeOK, IDates
<1>2. \A s : s \in Matching(q) <=> s \in CommittedOf(req[q].rest) /\ Passes(q, s)
  BY MatchingPasses
<1>3. \A s : (Passes(q, s)' <=> Passes(q, s)) /\ (Settled(s)' <=> Settled(s))
  BY <1>1 DEF Passes, Settled
<1>4. \A s \in CommittedOf(req[q].rest) : Settled(s)
  BY DEF CommittedOf, Settled
<1>5. Sound(q)'
  BY <1>1, <1>2, <1>3, <1>4 DEF Dated, Sound
<1>6. Based(q)'
  BY <1>1, <1>3 DEF Dated, Based, CommittedOf
<1>7. Complete(q)'
  <2>1. ASSUME mine = req[q].rest, NEW s \in req[q].base, Passes(q, s)
        PROVE  /\ s \in Matching(q)
               /\ HasTotal(q) => s \in req[q].total
    BY <1>1, <1>2, <2>1 DEF Dated, Based, Complete
  <2>2. QED BY <1>1, <1>3, <2>1 DEF Complete, HasTotal
<1>8. QED BY <1>1, <1>5, <1>6, <1>7, OtherDatesStay DEF Dated, Blank

LEMMA DatesOfAnswer ==
    ASSUME TypeOK, IDates, NEW q \in Request, Answer(q)
    PROVE  IDates'
<1>1. req[q] \in Call /\ UNCHANGED <<mine, scan>>
  BY DEF TypeOK, Answer, GetTotalScans, GetScansByPeriod, GetScansByHour,
         GetTopUserAgents, GetScanEventsForExport
<1>2. CASE GetTotalScans(q)
  <2> DEFINE c == [req[q] EXCEPT !.at = "period", !.total = Matching(q)]
  <2>1. req' = [req EXCEPT ![q] = c] /\ req[q].at = "total"
    BY <1>2 DEF GetTotalScans
  <2>2. c \in Call
    BY <1>1, MatchingType, CallParts
  <2>3. /\ c.at = "period" /\ c.rest = req[q].rest
        /\ c.from = req[q].from /\ c.to = req[q].to /\ c.base = req[q].base
        /\ c.total = Matching(q) /\ c.rows = req[q].rows
    BY <1>1 DEF Call
  <2> HIDE DEF c
  <2>4. QED BY <1>1, <2>1, <2>2, <2>3, DatesOfCounting
<1>3. CASE GetScansByPeriod(q)
  <2> DEFINE c == [req[q] EXCEPT !.at = "hour", !.period = Matching(q)]
  <2>1. req' = [req EXCEPT ![q] = c] /\ req[q].at = "period"
    BY <1>3 DEF GetScansByPeriod
  <2>2. c \in Call
    BY <1>1, MatchingType, CallParts
  <2>3. /\ c.at = "hour" /\ c.rest = req[q].rest
        /\ c.from = req[q].from /\ c.to = req[q].to /\ c.base = req[q].base
        /\ c.total = req[q].total /\ c.rows = req[q].rows
    BY <1>1 DEF Call
  <2> HIDE DEF c
  <2>4. QED BY <1>1, <2>1, <2>2, <2>3, DatesOfCounting DEF HasTotal
<1>4. CASE GetScansByHour(q)
  <2> DEFINE c == [req[q] EXCEPT !.at = "agents", !.hour = Matching(q)]
  <2>1. req' = [req EXCEPT ![q] = c] /\ req[q].at = "hour"
    BY <1>4 DEF GetScansByHour
  <2>2. c \in Call
    BY <1>1, MatchingType, CallParts
  <2>3. /\ c.at = "agents" /\ c.rest = req[q].rest
        /\ c.from = req[q].from /\ c.to = req[q].to /\ c.base = req[q].base
        /\ c.total = req[q].total /\ c.rows = req[q].rows
    BY <1>1 DEF Call
  <2> HIDE DEF c
  <2>4. QED BY <1>1, <2>1, <2>2, <2>3, DatesOfCounting DEF HasTotal
<1>5. CASE GetTopUserAgents(q)
  <2>1. PICK T \in Top(Matching(q)) : req' = [req EXCEPT ![q] = [@ EXCEPT !.at = "answered", !.agents = T]]
    BY <1>5 DEF GetTopUserAgents
  <2>2. T \in SUBSET Scan /\ req[q].at = "agents"
    BY <1>5, <2>1, MatchingType DEF Top, GetTopUserAgents
  <2> DEFINE c == [req[q] EXCEPT !.at = "answered", !.agents = T]
  <2>3. req' = [req EXCEPT ![q] = c]
    BY <2>1
  <2>4. c \in Call
    BY <1>1, <2>2, CallParts
  <2>5. /\ c.at = "answered" /\ c.rest = req[q].rest
        /\ c.from = req[q].from /\ c.to = req[q].to /\ c.base = req[q].base
        /\ c.total = req[q].total /\ c.rows = req[q].rows
    BY <1>1 DEF Call
  <2> HIDE DEF c
  <2>6. QED BY <1>1, <2>2, <2>3, <2>4, <2>5, DatesOfCounting DEF HasTotal
<1>6. CASE GetScanEventsForExport(q)
  <2> DEFINE c == [req[q] EXCEPT !.at = "exported", !.rows = Matching(q)]
  <2>1. req' = [req EXCEPT ![q] = c] /\ req[q].at = "export"
    BY <1>6 DEF GetScanEventsForExport
  <2>2. c \in Call
    BY <1>1, MatchingType, CallParts
  <2>3. /\ c.at = "exported" /\ c.rest = req[q].rest
        /\ c.from = req[q].from /\ c.to = req[q].to /\ c.base = req[q].base
        /\ c.total = req[q].total /\ c.rows = Matching(q)
    BY <1>1 DEF Call
  <2> HIDE DEF c
  <2>4. QED BY <1>1, <2>1, <2>2, <2>3, DatesOfCounting
<1>7. QED BY <1>2, <1>3, <1>4, <1>5, <1>6 DEF Answer

LEMMA NextIDates == IInv /\ IDates /\ [Next]_vars => IDates'
<1> SUFFICES ASSUME TypeOK, Live, IDates, [Next]_vars PROVE IDates'
  BY DEF IInv
<1>1. ASSUME NEW s \in Scan, NEW a \in Agent, InsertScan(s, a) PROVE IDates'
  BY <1>1, DatesOfScans DEF InsertScan, TypeOK, Settled
<1>2. ASSUME NEW s \in Scan, CommitScan(s) PROVE IDates'
  <2>1. \A t \in Scan : Settled(t) => scan'[t] = scan[t]
    BY <1>2 DEF CommitScan, TypeOK, Settled
  <2>2. QED BY <1>2, <2>1, DatesOfScans DEF CommitScan, Settled
<1>3. ASSUME NEW s \in Scan, LoseScan(s) PROVE IDates'
  <2>1. \A t \in Scan : Settled(t) => scan'[t] = scan[t]
    BY <1>3 DEF LoseScan, TypeOK, Settled
  <2>2. QED BY <1>3, <2>1, DatesOfScans DEF LoseScan, Settled
<1>4. ASSUME NEW r \in Restaurant, CreateRestaurant(r) PROVE IDates'
  <2>1. \A s \in Scan : scan[s].st # "committed"
    BY <1>4 DEF CreateRestaurant, Live
  <2>2. QED BY <1>4, <2>1, DatesOfScans DEF CreateRestaurant, Settled
<1>5. CASE DeleteRestaurant
  <2>1. ASSUME NEW s \in Scan, Settled(s)
        PROVE  scan'[s].st \in {"committed", "gone"} /\ scan'[s].at = scan[s].at
    <3>1. scan[s] \in Row
      BY DEF TypeOK
    <3>2. CASE s \in CommittedOf(mine)
      BY <1>5, <3>1, <3>2 DEF DeleteRestaurant, Row
    <3>3. CASE s \notin CommittedOf(mine)
      BY <1>5, <2>1, <3>3 DEF DeleteRestaurant, Settled
    <3>4. QED BY <3>2, <3>3
  <2>2. mine' = None /\ mine # None /\ None \notin used
    BY <1>5, NoneAssumption DEF DeleteRestaurant, TypeOK
  <2>3. QED BY <1>5, <2>1, <2>2, DatesOfScans DEF DeleteRestaurant
<1>6. CASE Tick
  BY <1>6, DatesOfScans DEF Tick, Settled
<1>7. ASSUME NEW q \in Request, NEW a \in Asked,
             GetAnalytics(q, a[1], a[2]) \/ ExportAnalytics(q, a[1], a[2])
      PROVE  IDates'
  <2>1. a[1] \in Boundary /\ a[2] \in Boundary
    BY AskedAssumption
  <2>2. QED BY <1>7, <2>1, DatesOfFind DEF GetAnalytics, ExportAnalytics
<1>8. ASSUME NEW q \in Request, Answer(q) PROVE IDates'
  BY <1>8, DatesOfAnswer
<1>9. CASE UNCHANGED vars
  BY <1>9, DatesOfScans DEF vars, Settled
<1>10. QED BY <1>1, <1>2, <1>3, <1>4, <1>5, <1>6, <1>7, <1>8, <1>9 DEF Next

LEMMA Dates == Spec => [](IInv /\ IDates)
<1>1. Init => IInv /\ IDates
  BY InitIInv, InitIDates
<1>2. IInv /\ IDates /\ [Next]_vars => (IInv /\ IDates)'
  BY NextIInv, NextIDates
<1>3. QED BY <1>1, <1>2, PTL DEF Spec

----------------------------------------------------------------------------
(* Days *)

LEMMA Division ==
    ASSUME NEW d \in Nat \ {0}, NEW t \in Nat
    PROVE  /\ t \div d \in Nat /\ t % d \in 0..(d - 1)
           /\ t = d * (t \div d) + (t % d)
OBVIOUS

LEMMA Times ==
    ASSUME NEW d \in Nat \ {0}, NEW i \in Nat, NEW j \in Nat
    PROVE  i < j => d * i + d <= d * j
<1> SUFFICES ASSUME i < j PROVE d * i + d <= d * j
  OBVIOUS
<1>1. PICK k \in Nat : j = i + 1 + k
  <2>1. j - i - 1 \in Nat /\ j = i + 1 + (j - i - 1)
    OBVIOUS
  <2>2. QED BY <2>1
<1>2. d * j = d * i + d + d * k
  BY <1>1
<1>3. d * k \in Nat /\ d * i \in Nat
  OBVIOUS
<1>4. QED BY <1>2, <1>3

\* The instants between two dates, the last day's included, are those of the
\* days between them.
LEMMA DaysBetween ==
    ASSUME NEW t \in Nat, NEW from \in Nat, NEW to \in Nat,
           from % Day = 0, to % Day = 0
    PROVE  t >= from /\ t <= EndOfDay(to) <=> DayOf(t) \in DayOf(from)..DayOf(to)
<1> DEFINE i == t \div Day
           f == from \div Day
           l == to \div Day
           m == t % Day
<1>1. Day \in Nat \ {0}
  BY BoundsAssumption
<1>2. /\ i \in Nat /\ f \in Nat /\ l \in Nat /\ m \in 0..(Day - 1)
      /\ t = Day * i + m /\ from = Day * f /\ to = Day * l
  <2>1. i \in Nat /\ m \in 0..(Day - 1) /\ t = Day * i + m
    BY <1>1, Division
  <2>2. f \in Nat /\ from = Day * f + 0
    BY <1>1, Division
  <2>3. l \in Nat /\ to = Day * l + 0
    BY <1>1, Division
  <2>4. Day * f \in Nat /\ Day * l \in Nat
    BY <1>1, <2>2, <2>3
  <2> HIDE DEF i, f, l, m
  <2>5. QED BY <2>1, <2>2, <2>3, <2>4
<1>3. EndOfDay(to) = to + Day - 1
  BY DEF EndOfDay
<1>4. DayOf(t) = i /\ DayOf(from) = f /\ DayOf(to) = l
  BY DEF DayOf
<1> HIDE DEF i, f, l, m
<1> DEFINE x == Day * i
           y == Day * f
           z == Day * l
<1>5. x \in Nat /\ y \in Nat /\ z \in Nat
  BY <1>1, <1>2
<1>6. /\ i < f => x + Day <= y
      /\ f < i => y + Day <= x
      /\ f = i => y = x
      /\ l < i => z + Day <= x
      /\ i < l => x + Day <= z
      /\ i = l => x = z
  BY <1>1, <1>2, Times
<1>7. t = x + m /\ from = y /\ to = z
  BY <1>2
<1> HIDE DEF x, y, z
<1>8. QED BY <1>1, <1>2, <1>3, <1>4, <1>5, <1>6, <1>7

----------------------------------------------------------------------------
(* Theorems *)

\* Scans, restaurants and requests are of the shape the code gives them, and a
\* request that goes on is of a restaurant that was found.
THEOREM TypeCorrect == Spec => []TypeOK
<1>1. IInv => TypeOK
  BY DEF IInv
<1>2. QED BY <1>1, Invariant, PTL

\* total <= by period <= by hour, unless the restaurant goes in between.
THEOREM LaterPartsCountMore == Spec => []PartsGrow
<1>1. IInv => PartsGrow
  BY DEF IInv, ReqInv, Grown, Grows, PartsGrow
<1>2. QED BY <1>1, Invariant, PTL

\* The parts of a dashboard agree when nothing was written meanwhile.
THEOREM CalmDashboards == Spec => []CalmPartsAgree
<1>1. IInv => CalmPartsAgree
  BY DEF IInv, ReqInv, Agrees, CalmPartsAgree
<1>2. QED BY <1>1, Invariant, PTL

\* A dashboard from one date to another counts the scans of those days, the last
\* one included, no other, and all that were committed when it began.
THEOREM WholeDays == Spec => []DaysAreWhole
<1>1. ASSUME IInv, IDates PROVE DaysAreWhole
  <2> SUFFICES ASSUME NEW q \in Request, req[q].at = "answered",
                      IsDate(req[q].from), IsDate(req[q].to)
               PROVE  /\ \A s \in req[q].total : DayOf(scan[s].at) \in DayOf(req[q].from)..DayOf(req[q].to)
                      /\ mine = req[q].rest =>
                           \A s \in req[q].base :
                              DayOf(scan[s].at) \in DayOf(req[q].from)..DayOf(req[q].to) => s \in req[q].total
    BY DEF DaysAreWhole
  <2>1. req[q] \in Call /\ Dated(q)
    BY <1>1 DEF IInv, TypeOK, IDates
  <2>2. /\ req[q].from \in Nat /\ req[q].from % Day = 0 /\ req[q].from # None
        /\ req[q].to \in Nat /\ req[q].to % Day = 0 /\ req[q].to # None
    BY <2>1, BoundsAssumption DEF Call, Boundary, Time, IsDate
  <2>3. \A s \in Scan : Passes(q, s) <=> DayOf(scan[s].at) \in DayOf(req[q].from)..DayOf(req[q].to)
    <3> TAKE s \in Scan
    <3>1. scan[s].at \in Nat
      BY <1>1, BoundsAssumption DEF IInv, TypeOK, Row, Time
    <3>2. QED BY <2>2, <3>1, DaysBetween DEF Passes
  <2>4. req[q].total \subseteq Scan /\ req[q].base \subseteq Scan
    BY <2>1 DEF Call
  <2>5. QED BY <2>1, <2>3, <2>4 DEF Dated, Sound, Complete, HasTotal
<1>2. QED BY <1>1, Dates, PTL

\* The exports to a date and from the next one share no scan, and together they
\* miss none that was committed before both.
THEOREM ExportsPartition == Spec => []ExportsMeet
<1>1. ASSUME IInv, IDates PROVE ExportsMeet
  <2> SUFFICES ASSUME NEW q \in Request, NEW r \in Request,
                      req[q].at = "exported", IsDate(req[q].to), req[q].from = None,
                      req[r].at = "exported", req[r].from = req[q].to + Day, req[r].to = None
               PROVE  /\ req[q].rows \cap req[r].rows = {}
                      /\ mine = req[q].rest /\ mine = req[r].rest
                           => req[q].base \cap req[r].base \subseteq req[q].rows \cup req[r].rows
    BY DEF ExportsMeet
  <2>1. req[q] \in Call /\ Dated(q) /\ req[r] \in Call /\ Dated(r)
    BY <1>1 DEF IInv, TypeOK, IDates
  <2>2. req[q].to \in Nat /\ req[q].to % Day = 0 /\ req[q].to # None
    BY <2>1, BoundsAssumption DEF Call, Boundary, Time, IsDate
  <2>3. req[r].from # None
    BY <2>2, BoundsAssumption, NoneAssumption
  <2>4. \A s \in Scan : Passes(r, s) <=> ~Passes(q, s)
    <3> TAKE s \in Scan
    <3>1. scan[s].at \in Nat
      BY <1>1, BoundsAssumption DEF IInv, TypeOK, Row, Time
    <3>2. Passes(q, s) <=> scan[s].at <= req[q].to + Day - 1
      BY <2>2 DEF Passes, EndOfDay
    <3>3. Passes(r, s) <=> scan[s].at >= req[q].to + Day
      BY <2>3 DEF Passes
    <3>4. QED BY <2>2, <3>1, <3>2, <3>3, BoundsAssumption
  <2>5. /\ req[q].rows \subseteq Scan /\ req[q].base \subseteq Scan
        /\ req[r].rows \subseteq Scan /\ req[r].base \subseteq Scan
    BY <2>1 DEF Call
  <2>6. QED BY <2>1, <2>4, <2>5 DEF Dated, Sound, Complete
<1>2. QED BY <1>1, Dates, PTL

=============================================================================
