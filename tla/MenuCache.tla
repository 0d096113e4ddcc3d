----------------------------- MODULE MenuCache -----------------------------
(***************************************************************************)
(* The public menu and its in-memory cache.                                *)
(*                                                                         *)
(* MenuService.get_menu_by_slug is a read-through cache: look the slug up, *)
(* on a miss read the restaurant row, then its categories and dishes, then *)
(* store the response for MENU_CACHE_TTL seconds.  The admin services      *)
(* commit to the database first and drop every "menu:" key afterwards.     *)
(* The cache is a module-level dictionary, so each API process (Instance)  *)
(* has its own, and an admin write invalidates only the one of the process *)
(* that served it.  Every `await` is a point where other requests run, so  *)
(* a request is a sequence of actions, one between two awaits.             *)
(*                                                                         *)
(* What a menu says is abstracted to versions: version[r] counts the       *)
(* commits that changed restaurant r, its categories or its dishes.        *)
(***************************************************************************)
EXTENDS Integers, FiniteSets

CONSTANTS
    Instance,    \* API processes
    Visitor,     \* public menu requests in flight at once
    Admin,       \* admin write requests in flight at once
    Restaurant,  \* restaurant ids: uuid4, never given out twice
    Slug,
    TTL,         \* MENU_CACHE_TTL in ticks
    MaxRequest,  \* bound: ticks a public menu request may stay in flight
    MaxVersion,  \* bound: commits per restaurant
    None         \* absent row, absent cache entry, absent value

ASSUME SetsAssumption ==
    None \notin Instance \cup Restaurant \cup Slug

ASSUME BoundsAssumption ==
    /\ TTL \in Nat
    /\ MaxRequest \in Nat
    /\ MaxVersion \in Nat

VARIABLES
    slugOf,   \* slugOf[r]: slug of the row of r, None when r has no row
    version,  \* version[r]: commits to r so far
    scans,    \* restaurants with rows in scan_events
    cache,    \* cache[i][s]: entry under "menu:s" in process i
    visit,    \* visit[v]: the public request v
    admin,    \* admin[a]: the write request a
    \* History, read by no guard but the bound MaxRequest:
    age,      \* age[r][n]: ticks since version n of r stopped being current
    flushed   \* flushed[i][r]: newest commit of r answered by process i

db == <<slugOf, version>>
history == <<age, flushed>>
vars == <<slugOf, version, scans, cache, visit, admin, age, flushed>>

Version == 0..MaxVersion

\* A response can be this old: a fill in flight for MaxRequest, an entry kept
\* for TTL, a request that takes it from the cache and needs MaxRequest to end.
Bound == TTL + 2 * MaxRequest
Horizon == Bound + 1    \* ages are counted up to here

\* The response: whose it is, and the version at its first read.  The reads
\* after it (categories, then their dishes) see this version or a newer one.
Menu == [rest: Restaurant, ver: Version]

\* `left` is expires_at minus the clock; `late` is history: an invalidation
\* ran in this process between the reads of the fill and its cache_set.
Entry == [menu: Menu, left: -1..TTL, late: BOOLEAN]

Visit == [at: {"idle", "row", "content", "fill", "scan"},
          inst: Instance \cup {None}, slug: Slug \cup {None},
          menu: Menu \cup {None}, wait: 0..MaxRequest, late: BOOLEAN]

Started(at, i, s, m) == [at |-> at, inst |-> i, slug |-> s, menu |-> m,
                         wait |-> 0, late |-> FALSE]

NoVisit == Started("idle", None, None, None)

Write == [at: {"idle", "committed"}, inst: Instance \cup {None},
          rest: Restaurant \cup {None}, ver: Version]

NoWrite == [at |-> "idle", inst |-> None, rest |-> None, ver |-> 0]

TypeOK ==
    /\ slugOf \in [Restaurant -> Slug \cup {None}]
    /\ version \in [Restaurant -> Version]
    /\ scans \in SUBSET Restaurant
    /\ cache \in [Instance -> [Slug -> Entry \cup {None}]]
    /\ visit \in [Visitor -> Visit]
    /\ admin \in [Admin -> Write]
    /\ age \in [Restaurant -> [Version -> 0..Horizon]]
    /\ flushed \in [Instance -> [Restaurant -> Version]]

Init ==
    /\ slugOf = [r \in Restaurant |-> None]
    /\ version = [r \in Restaurant |-> 0]
    /\ scans = {}
    /\ cache = [i \in Instance |-> [s \in Slug |-> None]]
    /\ visit = [v \in Visitor |-> NoVisit]
    /\ admin = [a \in Admin |-> NoWrite]
    /\ age = [r \in Restaurant |-> [n \in Version |-> 0]]
    /\ flushed = [i \in Instance |-> [r \in Restaurant |-> 0]]

----------------------------------------------------------------------------
(* core/cache.py *)

\* Faulty: an entry is handed out however old it is.
CacheGetIgnoringExpiry(i, s) == cache[i][s]

\* cache_get: the entry, unless its expiry time has passed.
CacheGet(i, s) ==
    IF cache[i][s] # None /\ cache[i][s].left >= 0 THEN cache[i][s] ELSE None

\* cache_set with the full MENU_CACHE_TTL, counted from the end of the fill.
NewEntry(w) == [menu |-> w.menu, left |-> TTL, late |-> w.late]

\* Faulty: only the key of the restaurant's present slug is dropped.
InvalidateOwnSlug(i, r) ==
    cache' = [cache EXCEPT ![i] = [s \in Slug |-> IF s = slugOf[r] THEN None ELSE cache[i][s]]]

\* cache_invalidate_prefix("menu:"): every key of this cache has the prefix.
InvalidateMenus(i, r) ==
    cache' = [cache EXCEPT ![i] = [s \in Slug |-> None]]

----------------------------------------------------------------------------
(* GET /api/v1/menu/{slug} and GET /m/{slug} *)

Holders(s) == {r \in Restaurant : slugOf[r] = s}

\* The cached response is taken; the scan event is still to be stored.
VisitHit(v, i, s) ==
    /\ visit[v].at = "idle"
    /\ CacheGet(i, s) # None
    /\ visit' = [visit EXCEPT ![v] = Started("scan", i, s, CacheGet(i, s).menu)]
    /\ UNCHANGED <<db, scans, cache, admin, history>>

\* No usable entry: an expired one is popped, and get_by_slug is awaited.
VisitMiss(v, i, s) ==
    /\ visit[v].at = "idle"
    /\ CacheGet(i, s) = None
    /\ cache' = [cache EXCEPT ![i][s] = None]
    /\ visit' = [visit EXCEPT ![v] = Started("row", i, s, None)]
    /\ UNCHANGED <<db, scans, admin, history>>

\* The restaurant row is read; nobody has the slug: 404, and nothing is cached.
ReadRow(v) ==
    /\ visit[v].at = "row"
    /\ \/ \E r \in Holders(visit[v].slug) :
            visit' = [visit EXCEPT ![v].at = "content",
                        ![v].menu = [rest |-> r, ver |-> version[r]]]
       \/ /\ Holders(visit[v].slug) = {}
          /\ visit' = [visit EXCEPT ![v] = NoVisit]
    /\ UNCHANGED <<db, scans, cache, admin, history>>

\* Categories and dishes are read by the id read before, at whatever version
\* they have now (none, without a 404, when the restaurant has gone since).
ReadContent(v) ==
    /\ visit[v].at = "content"
    /\ visit' = [visit EXCEPT ![v].at = "fill"]
    /\ UNCHANGED <<db, scans, cache, admin, history>>

\* The response is built and stored for a full TTL, whatever has happened to
\* the database or to the cache since the reads.
FillCache(v) ==
    LET i == visit[v].inst
        s == visit[v].slug
    IN  /\ visit[v].at = "fill"
        /\ cache' = [cache EXCEPT ![i][s] = NewEntry(visit[v])]
        /\ visit' = [visit EXCEPT ![v].at = "scan"]
        /\ UNCHANGED <<db, scans, admin, history>>

\* The scan event is inserted, best effort: when the restaurant of the menu has
\* gone the foreign key refuses it, the error is swallowed, and the menu is
\* answered all the same.
RecordScan(v) ==
    LET r == visit[v].menu.rest
    IN  /\ visit[v].at = "scan"
        /\ scans' = IF slugOf[r] = None THEN scans ELSE scans \cup {r}
        /\ visit' = [visit EXCEPT ![v] = NoVisit]
        /\ UNCHANGED <<db, cache, admin, history>>

----------------------------------------------------------------------------
(* The admin services: commit, refresh the row, then invalidate *)

\* A commit that leaves r with slug s (None: the row is deleted).
Commit(a, i, r, s) ==
    /\ admin[a].at = "idle"
    /\ version[r] < MaxVersion
    /\ slugOf' = [slugOf EXCEPT ![r] = s]
    /\ version' = [version EXCEPT ![r] = @ + 1]
    /\ admin' = [admin EXCEPT ![a] = [at |-> "committed", inst |-> i,
                                      rest |-> r, ver |-> version[r] + 1]]
    /\ UNCHANGED <<cache, visit, history>>

\* RestaurantService.create: the only write that drops no cache key.
CreateRestaurant(a, r, s) ==
    /\ admin[a].at = "idle"
    /\ slugOf[r] = None
    /\ version[r] = 0
    /\ Holders(s) = {}
    /\ slugOf' = [slugOf EXCEPT ![r] = s]
    /\ UNCHANGED <<version, scans, cache, visit, admin, history>>

\* A change of a category, of a dish, or of a restaurant field but the name.
UpdateContent(a, i, r) ==
    /\ slugOf[r] # None
    /\ Commit(a, i, r, slugOf[r])
    /\ UNCHANGED scans

\* RestaurantService.update with a name: the slug follows the name.
RenameRestaurant(a, i, r, s) ==
    /\ slugOf[r] # None
    /\ Holders(s) = {}
    /\ Commit(a, i, r, s)
    /\ UNCHANGED scans

\* RestaurantService.delete: the scan events go with the row.
DeleteRestaurant(a, i, r) ==
    /\ slugOf[r] # None
    /\ Commit(a, i, r, None)
    /\ scans' = scans \ {r}

\* The request resumes after its commit (and the refresh of the row), drops
\* the menus of its own process and answers.
Invalidate(a) ==
    LET i == admin[a].inst
        r == admin[a].rest
    IN  /\ admin[a].at = "committed"
        /\ InvalidateMenus(i, r)
        /\ admin' = [admin EXCEPT ![a] = NoWrite]
        /\ visit' = [v \in Visitor |->
                        IF visit[v].inst = i /\ visit[v].at \in {"content", "fill"}
                        THEN [visit[v] EXCEPT !.late = TRUE] ELSE visit[v]]
        /\ flushed' = [flushed EXCEPT ![i][r] =
                        IF @ < admin[a].ver THEN admin[a].ver ELSE @]
        /\ UNCHANGED <<db, scans, age>>

\* The commit took effect, but the await that follows raises (the connection
\* breaks, or the row to refresh has gone): 500, and nothing is invalidated.
LoseReply(a) ==
    /\ admin[a].at = "committed"
    /\ admin' = [admin EXCEPT ![a] = NoWrite]
    /\ UNCHANGED <<db, scans, cache, visit, history>>

----------------------------------------------------------------------------
(* The environment *)

\* A process is replaced: its cache and its requests in flight are lost.
Restart(i) ==
    /\ cache' = [cache EXCEPT ![i] = [s \in Slug |-> None]]
    /\ visit' = [v \in Visitor |-> IF visit[v].inst = i THEN NoVisit ELSE visit[v]]
    /\ admin' = [a \in Admin |-> IF admin[a].inst = i THEN NoWrite ELSE admin[a]]
    /\ UNCHANGED <<db, scans, history>>

\* Time passes.  Bound: no public request is in flight for over MaxRequest.
Tick ==
    /\ \A v \in Visitor : visit[v].at # "idle" => visit[v].wait < MaxRequest
    /\ cache' = [i \in Instance |-> [s \in Slug |->
                    IF cache[i][s] # None /\ cache[i][s].left >= 0
                    THEN [cache[i][s] EXCEPT !.left = @ - 1] ELSE cache[i][s]]]
    /\ visit' = [v \in Visitor |->
                    IF visit[v].at # "idle"
                    THEN [visit[v] EXCEPT !.wait = @ + 1] ELSE visit[v]]
    /\ age' = [r \in Restaurant |-> [n \in Version |->
                    IF n < version[r] /\ age[r][n] < Horizon
                    THEN age[r][n] + 1 ELSE age[r][n]]]
    /\ UNCHANGED <<db, scans, admin, flushed>>

VisitStart(v, i, s) == VisitHit(v, i, s) \/ VisitMiss(v, i, s)

VisitStep(v) == ReadRow(v) \/ ReadContent(v) \/ FillCache(v) \/ RecordScan(v)

AdminCommit(a, i, r) ==
    \/ UpdateContent(a, i, r)
    \/ DeleteRestaurant(a, i, r)
    \/ \E s \in Slug : RenameRestaurant(a, i, r, s)

AdminEnd(a) == Invalidate(a) \/ LoseReply(a)

Next ==
    \/ \E v \in Visitor, i \in Instance, s \in Slug : VisitStart(v, i, s)
    \/ \E v \in Visitor : VisitStep(v)
    \/ \E a \in Admin, r \in Restaurant, s \in Slug : CreateRestaurant(a, r, s)
    \/ \E a \in Admin, i \in Instance, r \in Restaurant : AdminCommit(a, i, r)
    \/ \E a \in Admin : AdminEnd(a)
    \/ \E i \in Instance : Restart(i)
    \/ Tick

Spec == Init /\ [][Next]_vars

\* The event loop resumes every request whose await is over, and time passes.
\* Nothing obliges a client to send a request or a process to be restarted.
Fairness ==
    /\ \A v \in Visitor : WF_vars(VisitStep(v))
    /\ \A a \in Admin : WF_vars(AdminEnd(a))
    /\ WF_vars(Tick)

FairSpec == Spec /\ Fairness

----------------------------------------------------------------------------
(* Properties *)

\* A menu that is about to be answered was up to date at most Bound ticks ago,
\* in whichever process it was cached and however its fill raced with writes.
BoundedStaleness ==
    \A v \in Visitor : visit[v].at = "scan" =>
        age[visit[v].menu.rest][visit[v].menu.ver] <= Bound

\* What invalidation is good for: once a process has answered a write, its
\* cache holds an older menu of that restaurant only if the fill had already
\* read the row when the keys were dropped.
InvalidationEffective ==
    \A i \in Instance, s \in Slug :
        cache[i][s] # None /\ ~cache[i][s].late =>
            cache[i][s].menu.ver >= flushed[i][cache[i][s].menu.rest]

\* scan_events only has rows of restaurants that exist, although visitors go on
\* scanning menus of deleted restaurants from the cache.
ScansOfRestaurants == \A r \in scans : slugOf[r] # None

\* A menu in a cache.
Current(m) == version[m.rest] = m.ver

\* Once writes have stopped (the bound MaxVersion stops them) every process
\* ends up serving only up-to-date menus: what invalidation misses, expires.
EventuallyFresh ==
    <>[](\A i \in Instance, s \in Slug :
            CacheGet(i, s) # None => Current(CacheGet(i, s).menu))

=============================================================================
