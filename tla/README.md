# A formal model of the LiveMenu backend

LiveMenu is a FastAPI service on PostgreSQL: restaurant owners edit a menu through
an admin API, visitors scan a QR code and read it. This directory models its logic
in TLA+, checks it with TLC on small instances and proves its main properties with
TLAPS for all instances. Paths below are relative to `src/`, and `app/` stands for
`api/app/`.

## 1. The system

| Component | State | Operations | Talks to |
|---|---|---|---|
| Public menu and cache (`app/core/cache.py`, `app/services/menu_service.py`, `app/api/routers/menu*.py`) | `_cache`, a dictionary per process; rows of `scan_events` | read a menu by slug (through the cache, 300 s), record a scan | restaurants, categories, dishes; every admin service invalidates it |
| Accounts and sessions (`app/services/auth_service.py`, `app/repositories/{user,refresh_token}_repo.py`, `app/core/security`) | `users`, `refresh_tokens`; JWTs in the clients | register, login, refresh (with rotation), logout, verify an access token | every admin endpoint depends on the access token |
| Restaurants and slugs (`app/services/restaurant_service.py`, `app/utils/slug.py`) | `restaurants` (unique owner, unique slug) | create, update (a name in the request searches the slug anew), delete with everything below | menu cache |
| Categories and dishes (`app/services/{category,dish}_service.py`) | `categories`, `dishes` | create, update, move, reorder, toggle, list by pages, soft delete (dish), delete (category) | restaurants, menu cache |
| Image upload (`app/services/upload_service.py`) | the thread pool `_executor`, `_shutting_down` | resize to three variants, store them, delete one, shut down | object storage; signal handlers and lifespan of `app/main.py` |
| Object storage (`app/core/storage.py`) | the singleton backend; a bucket, its policy and its objects | build the backend (look for the bucket, create it, put its policy), upload, delete | uploads, from several threads |
| Database sessions (`database/session.py`) | engine, pool of 5 + 2 connections | initialise on the first request, a session per request | everything |
| Analytics (`app/services/analytics_service.py`, `app/repositories/analytics_repo.py`) | none of its own | dashboard (totals and series), CSV export | `scan_events` |
| QR codes, rate limiter, request ids, errors, configuration, migrations, deployment | little or none | | |

What is hard here is concurrency without locks. The API runs as several processes
(Cloud Run, `infra/terraform/cloud_run.tf`: up to 10), each a single event loop in
which any `await` lets other requests run, with threads beside it for images and
storage. Every request reads, decides and commits in separate statements under READ
COMMITTED; what protects it is a unique index, a foreign key, a row lock or nothing.
Caches, pools and backends are per process and built by whoever comes first.
Requests may stop half-way: the client hangs up, a statement or a call of the store
fails, the process is told to end or is killed.

Per component, what makes it correct:

* *Menu*: a stale menu is served for a bounded time only, invalidation works
  within a process up to the fills in flight, the menu becomes up to date; a menu
  read between commits misses no dish that was on it all the time.
* *Accounts*: one account per address, rotation retires the old token, a
  session that is over stays over, logout ends sessions.
* *Restaurants*: slugs and owners are unique, the search for a slug ends.
* *Catalog*: no orphans, tenants are isolated, dishes stay in their restaurant,
  deleted means deleted, active dishes are only lost to a race, a reorder happens at
  once or not at all, pages cover the list.
* *Upload and storage*: no request hangs, no URL of an object that was not stored,
  a shutdown waits for running jobs, the bucket exists and becomes public.
* *Database sessions*: no engine but those of the first requests, no connection
  lost, nobody waits for ever.
* *Analytics*: the parts of an answer agree when nothing is recorded meanwhile,
  days are counted whole and once.

The hazards, each at its line and with the properties that cover it, are listed in
`PROJECT.json`.

## 2. Modules

| Module | What it is |
|---|---|
| `MenuCache` | the read-through cache in every process, the visitors' requests, the admin writes |
| `MenuRead` | what a menu that is read from the database is made of |
| `SessionLifecycle` | abstract: a session opens once and closes once |
| `AuthSessions` | accounts and refresh tokens, statement by statement; implements `SessionLifecycle` |
| `Slugs` | the search for a slug and the commits against the unique indexes |
| `Catalog` | restaurants, categories and dishes, check by check and commit by commit |
| `CategoryOrder` | abstract: a reorder happens in one step or not at all |
| `Reorders` | the UPDATEs of reorders, row by row, with locks; implements `CategoryOrder` |
| `DishPages` | a client that walks the pages of a list that changes |
| `Uploads` | the uploads of a process, its thread pool, signals and the lifespan |
| `Storage` | the lazily built backend and its bucket, with faults and crashes |
| `SessionPool` | lazy engines and their pools of connections |
| `Analytics` | dashboards and exports over scans that come and go |
| `MC*` | instances for TLC: symmetric sets, small data |
| `*Proofs` | theorems about the module of that name; `MenuCacheProofs` is also about `MenuRead`, `UploadsProofs` about `Storage`, `ReordersProofs` about `DishPages` |

The modules share a form. A request is a record `req[p]` (`visit[v]`, `up[u]`, ...)
with the stage it has reached in `at` or `pc`, and one action per stretch of code
between two awaits, statements or calls that others can tell apart. A check that
fails ends the request; a commit does at once what the database does, constraints and
cascades included. `Abort` (`LoseReply`, `Restart`, `Fail`, `Raise`, `Crash`) ends a
request where it is: what it committed stays, the rest is rolled back. Fields and
variables called *history* in a comment are read by no guard. Operators marked
*Faulty* or *Mutant* are plausible mistakes in a definition that follows them; no
specification uses them, and with one in the place of the original the property
listed in `PROJECT.json` is violated.

How the modules fit together: `Catalog` takes a reorder for one step, and `Reorders`
shows that the UPDATEs it consists of, with the locks of the database, amount to one.
`MenuCache` reads a menu as one version, and `MenuRead` says what is really in it.
`Catalog` and `MenuCache` take the slug of a restaurant as given, `Slugs` says where it
comes from. `Uploads` takes a call of the storage for one step that succeeds or fails,
and `Storage` says what is in it; the connection an upload holds meanwhile is a long
transaction of `SessionPool`.

### MenuCache and MenuRead

`cache[i][s]` is the entry under `menu:s` in process `i`, `left` the ticks until
`expires_at`. A visit goes `idle -> row -> content -> fill -> scan -> idle`
(`MenuService.get_menu_by_slug`, then the scan event of the router) or straight to
`scan` on a hit. A write commits (`UpdateContent`, `RenameRestaurant`,
`DeleteRestaurant`, `CreateRestaurant`) and, in a second action, drops the keys of
its own process. Menus are abstracted to `[rest, ver]`: a read that starts at
version `ver` sees that version or later ones, so a response is at least as new as
its `ver`. `age[r][n]` counts the ticks since version `n` was replaced.

`MenuRead` opens that version up: `ReadCategories` and then one `LoadDishes` per chunk
of categories (`selectinload` asks for 500 at a time), with commits of the owner in
between; `Kept` and `VisibleIn` are the two filters of the service.

### AuthSessions

`tokens[t]` is a row of `refresh_tokens`. `from` and `session` record, for the
properties, what token it was exchanged for and what login it descends from.
Register is `RegisterCheck, InsertUser, Issue, Reply`; login `Login, Issue, Reply`;
refresh `RefreshCheck, RevokeOld, Issue, Reply`; logout `LogoutSelect, LogoutCommit`.
Tokens and access tokens expire at any moment. The refinement maps a session to
*open* while it has a usable token or a refresh that is past its check and has not
stored its token, to *closed* after that.

### Slugs

`rows` is the table of restaurants, `req[p].k` the number of the candidate a search
looks at: the base of the name, then `base-1`, `base-2`. Slugs are sequences of words,
so that `casa-1` is both the slug of one name and the second candidate of another.
`Load` reads the row of the owner, `TryNext` and `Found` are the SELECTs of
`_ensure_unique_slug`, the commits are refused when a unique index says so. An update
writes the columns that differ from what it loaded.

### Catalog, Reorders and DishPages

`restaurant[r]`, `category[c]` and `dish[d]` are the rows. Parents never change but
for `dish.category_id`, so a row and the owner above it are read in one action. The
ORM writes, by id, only the columns whose value differs from the one it loaded:
`req[p].set` holds those columns. Deleting a category takes four actions (load,
count active dishes, load the dishes for the cascade, commit). `UPDATE` of a row
that has gone, and `INSERT` or move under a parent that has gone, fail (`Abort`).
Names, prices and the other columns that are only stored are written as `position`
is, and left out. Ids are used again only when no row and no request has them, which
is indistinguishable from fresh ones.

In `Reorders` every `UPDATE` is an action that takes the lock of its row, or waits for
it; `undo` is what a rollback puts back. A circle of waiting transactions is broken by
`Fail`, as PostgreSQL does. What others see of a locked row is its committed position
(`Seen`): that is the mapping to `CategoryOrder`, together with the requests that are
still pending. `DishPages` has the count and the page of `list_dishes` as two actions
(`Rank` is the number of rows sorted before one: a page is the rows whose rank is from
the offset on and below offset + limit), and an external client that goes on while `HasMore`.

### Uploads and Storage

In `Uploads` an action of the event loop runs from one await to the next; jobs of the
pool and calls of the storage end at any time. `BeginShutdown` sets `_shutting_down` and
blocks the loop until the pool has worked off its queue (`executor.shutdown(wait=True)`
is called on the loop), and `EndShutdown` sets `_executor` to `None`. Signals only
schedule a shutdown, the lifespan awaits one. The first variant that fails ends the
request and leaves the others running. Pools are numbered in the order of creation.

In `Storage` every thread that finds no backend builds one: `HeadBucket`,
`CreateBucket`, `PutPolicy`, `Assign`, then `Use`. A bucket that exists already is refused
to its creator by MinIO (`RefuseCreate`), and granted once more by S3 in us-east-1
(`CreateAgain`); the model allows both. A fault fails a call, before or after it took
effect; `Crash` loses the process and keeps the store. A client may ask again for what
failed (`Repeat`).

### SessionPool

`engine` is the module's global, `engines` all that were ever created, `out[e]` the
connections the pool of `e` has handed out. With the Cloud SQL connector
(`cloud`, chosen at the start) the await between the test of `engine` and the assignment
lets several requests initialise. `Take` needs a free connection or waits; `GiveBack`
follows every commit, error and end.

### Analytics

A part of a dashboard is kept as the set of scans it counts; `GROUP BY` only splits
it. `EndOfDay` is `_end_of_day`: a `to` that is a midnight is moved to the last instant of
its day. A scan has its timestamp before it is committed, and goes with its
restaurant.

## 3. What TLC checks

| Run | Instance | Properties | States |
|---|---|---|---|
| `menu` | 2 processes, 1 visit, 1 writer, 1 restaurant, 2 slugs, fair | `BoundedStaleness`, `InvalidationEffective`, `EventuallyFresh` | 1 290 000 |
| `menu_read` | 3 categories, 2 dishes, 3 commits | `ReadTypeOK`, `SteadyDishesShown`, `DeletedNotShown` | 36 000 |
| `auth` | 2 requests, 2 accounts, one address in two spellings, 3 tokens | `OneAccountPerAddress`, `RotatedIsRevoked`, `QuietLogoutEnds`, `ImplementsLifecycle` | 147 000 |
| `slugs` | 3 requests, 3 owners, 3 names, fair | `QuietSearchSucceeds`, `RequestsEnd` | 968 000 |
| `catalog` | 2 requests, 2 users, 3 categories, 2 dishes | `TenantIsolation`, `DeletedStaysDeleted`, `OnlyLateDishesLost`, `DishStaysInRestaurant` | 582 000 |
| `catalog_position` | 1 user, 1 request, 3 positions | `PositionAvailable` is violated | |
| `reorders` | 2 reorders of up to 2 of 3 categories, fair | `TypeOK`, `CirclesDisagree`, `ImplementsOrder`, `ReordersEnd` | 152 000 |
| `pages` | 1 walk, 4 dishes, 2 positions, pages of 1 or 2, 2 changes | `PagesTypeOK`, `SteadyMissedOnlyWhenShifted`, `TwiceOnlyWhenCame`, `QuietWalkIsTheList` | 662 000 |
| `uploads` | 2 uploads, 3 variants, 2 threads, 2 signals, fair | `NeverRefused`, `WorkersBounded`, `ShutdownDrains`, `AnsweredIsStored`, `PoolLeftOnlyBySignal`, `UploadsEnd` | 496 000 |
| `storage` | 3 uploads, 1 deletion, 2 faults, 1 crash, repetitions, fair | `UsedHasBucket`, `BecomesPublic`, `RepeatsSucceed` | 181 000 |
| `pool` | 4 requests, pools of 1 connection, 2 transactions each, fair | `ConnectionsAccounted`, `EnginesOfFirstRequests`, `WaitersServed` | 790 000 |
| `analytics` | 2 requests, 2 scans, 2 restaurants, 2 days | `PartsGrow`, `CalmPartsAgree`, `DaysAreWhole`, `ExportsMeet` | 6 100 000 |

A property a theorem states for all instances and that says little beyond an index or a
type is not run as well: the type invariants of the other modules,
`References` and `OneRestaurantPerOwner` of `Catalog`, `OneRestaurantPerSlug` and
`QuietSearchIsShort` of `Slugs`, `ScansOfRestaurants`, `PrivateIsPassing` and
`OneEngineLocally` are in section 4 only.

### Where the code and its words differ

`catalog_position` finds that `category_repo.py:92` ("Get the next available position")
does not: after position 0 comes position 0 again, because `0 or -1` is `-1`. The other
disagreements met while modelling are behaviours the models contain and no property
forbids:

* `routers/qr.py:40`: the menu content "updates in real time". A fill that overlaps
  with a write caches the old menu for 300 seconds, even in the process that
  served the write (`menu_service.py:113`); other processes are not told at all.
  `BoundedStaleness` is what does hold.
* `routers/qr.py:39`: the code "is static -- it always points to the same URL". An
  update that gives the name again, unchanged, searches the slug anew
  (`restaurant_service.py:111`) and moves to a shorter one that has become free.
* `auth_service.py:144`: "Logout user by revoking all refresh tokens." A refresh
  between the two statements of the logout stores a token that survives.
  `QuietLogoutEnds` excepts exactly those.
* `category_service.py:168`: "Cannot delete category with active dishes". It can,
  when a dish arrives after the count; `OnlyLateDishesLost` says that there is no other
  way.
* `dish_repo.py:159`: "Toggle dish availability." Two toggles that overlap write the
  same value.
* `restaurant_service.py:107`: "If name is updated, regenerate slug". Of two updates
  that overlap, the name of one may stay with the slug of the other, as each
  writes what it found changed.
* `upload_service.py:255`: "Graceful shutdown". `add_signal_handler` replaces uvicorn's
  handler, so the server goes on after SIGTERM; the next upload creates a pool, and as
  `_shutting_down` stays set nothing shuts that one down. `PoolLeftOnlyBySignal`
  says that it takes a signal.
* `storage.py:30`: "return the object's public URL". A process that is killed between
  the creation of the bucket and its policy leaves a private bucket that all later
  ones take as it is. `BecomesPublic` excepts exactly that (`cut`).

### Bounds

Every bound is a constant. Two requests show every race of two operations; more are
used where a third matters: three searches so that one is overtaken twice, three
uploads and a deletion so that the winner, the loser and a late comer of a race to
build the backend differ, four requests so that several wait for one connection. In
`menu`, two versions are an old menu and the newest; `MaxRequest` (ticks a public request
takes; nginx cuts it after 60 s, the TTL is 300 s) and `TTL` are one tick each, which
keeps expiry, the end of a request and a write in every order. Three tokens are two
concurrent exchanges of one. Three categories are a move between two of one user
beside one of another. Three variants on two threads leave a job in the queue at a
shutdown; the second signal is the one that finds `_shutting_down` set. A day of two
ticks has a midnight and another instant; the dates asked for are the first and the
second midnight, or none. The theorems below do not depend on these sizes.

Where `CHECK_DEADLOCK FALSE` is set, every request is served once and the system stops
when all are.

### Fairness

Weak fairness of the steps of a request: the event loop resumes every coroutine whose
await is over, statements and calls end or time out, and PostgreSQL breaks a circle of
locks. `menu` adds time, `uploads` the threads of the pool and its shutdown. Nothing
obliges a visitor, an owner or a signal to come, a process to be replaced or the client
to ask for another page or to repeat what failed: `RepeatsSucceed` allows for a
client that gives up. `pool` needs no strong fairness: a waiting request is
overtaken by each other one a bounded number of times, as a request has finitely many
transactions (`MaxTransactions`). `EventuallyFresh` is about the time after the writes
stop, which `MaxVersion` brings about.

## 4. What TLAPS proves

Every safety invariant, action property and refinement the runs check, for all values
of the constants. The named assumptions only say that sets do not contain the value that
stands for nothing, that bounds are numbers, that the dishes of a list and the
categories of a restaurant are finitely many, that lower case is idempotent and that
names have slugs; TLC evaluates each of them on its instance.

| Theorem | Statement |
|---|---|
| `MenuCacheProofs!TypeCorrect`, `Staleness`, `Invalidation`, `Scans` | `TypeOK` and what each stage implies, `BoundedStaleness`, `InvalidationEffective`, `ScansOfRestaurants` |
| `MenuCacheProofs!ReadTypeCorrect`, `SteadyDishes`, `DeletedDishes` | of `MenuRead`: `ReadTypeOK`, `SteadyDishesShown`, `DeletedNotShown` |
| `AuthSessionsProofs!TypeCorrect`, `UniqueAccounts`, `Rotation`, `Implementation`, `LogoutEnds` | `TypeOK` and how rows are linked, `OneAccountPerAddress`, `RotatedIsRevoked`, `ImplementsLifecycle`, `QuietLogoutEnds` |
| `CatalogProofs!TypeCorrect`, `ReferencesHold`, `OneRestaurant`, `DishStays`, `DeletedStays`, `Isolation`, `LateDishes` | `TypeOK`, `References`, `OneRestaurantPerOwner`, `DishStaysInRestaurant`, `DeletedStaysDeleted`, `TenantIsolation`, `OnlyLateDishesLost` |
| `ReordersProofs!TypeCorrect`, `ReordersAreAtomic`, `AgreeingReordersPass` | `TypeOK`, `ImplementsOrder`, `CirclesDisagree` |
| `ReordersProofs!PagesTypeCorrect`, `SteadyDishesFound`, `NoDishTwice`, `QuietWalks` | of `DishPages`: `PagesTypeOK`, `SteadyMissedOnlyWhenShifted`, `TwiceOnlyWhenCame`, `QuietWalkIsTheList` |
| `SlugsProofs!TypeCorrect`, `SlugsAreUnique`, `QuietSearches`, `QuietSearchesAreShort` | `TypeOK`, `OneRestaurantPerSlug`, `QuietSearchSucceeds`, `QuietSearchIsShort` |
| `UploadsProofs!TypeCorrect`, `UploadsNeverRefused`, `ResizingBounded`, `ShutdownWaits`, `AnswersAreStored`, `SignalsLeavePools` | `TypeOK`, `NeverRefused`, `WorkersBounded`, `ShutdownDrains`, `AnsweredIsStored`, `PoolLeftOnlyBySignal` |
| `UploadsProofs!StorageTypeCorrect`, `BackendHasBucket`, `PolicyIsComing` | of `Storage`: `StorageTypeOK`, `UsedHasBucket`, `PrivateIsPassing` |
| `SessionPoolProofs!TypeCorrect`, `PoolsAccounted`, `EnginesAreEarly`, `LocalEngineIsOne` | `TypeOK`, `ConnectionsAccounted`, `EnginesOfFirstRequests`, `OneEngineLocally` |
| `AnalyticsProofs!TypeCorrect`, `LaterPartsCountMore`, `CalmDashboards`, `WholeDays`, `ExportsPartition` | `TypeOK`, `PartsGrow`, `CalmPartsAgree`, `DaysAreWhole`, `ExportsMeet` |

The arguments:

* *Staleness.* The invariant follows a menu from its first read: a visit that has
  waited `w` ticks carries a menu that is at most `w` old, an entry with `left`
  ticks to go one that is at most `MaxRequest + TTL - left` old, a visit that took it
  from the cache one that is `TTL + MaxRequest + w` old. The bound on answered menus
  alone is not inductive, since it says nothing about what is in the caches.
* *Invalidation.* The same route: a fill whose reads are not `late` has read a
  version at least as new as what its process has flushed.
* *Reading a menu.* A steady dish is on the menu of the database until it is on the
  answer: its category is among those read, and what was loaded of that category has it
  (`SteadyKept`). A dish that was deleted before the read began is never undeleted, so
  nothing that is loaded has it (`GoneStays`).
* *Accounts.* Stored addresses are in lower case and distinct; with `Lower`
  idempotent, comparing letter by letter is comparing in lower case.
* *Rotation.* A request past `RevokeOld` has a revoked `old`, nothing un-revokes a
  row, and `from` is the `old` of the request that stored the token.
* *Lifecycle.* A closed session has no usable token and no refresh under way, so
  nobody can pass the check of a refresh with one of its tokens; only an issue by a
  refresh under way makes a token of an old session.
* *Logout.* While a logout that has selected is pending, every usable token of a
  session that is open and not raced is in its selection.
* *Catalog.* `References` and `OneRestaurantPerOwner` are kept by each commit on its
  own. `DishStaysInRestaurant` is not: the commit relies on what the request
  verified awaits ago. The invariant adds that (`Verified`: the dish and the new
  category are the user's, if they are still there), and one lemma says what any step
  can do to the rows (`Evolves`: an owner or a parent restaurant never changes, rows
  come with ids no request mentions). A step that evolves the rows cannot falsify
  what another request has verified; as the user has one restaurant, both
  categories of a move are in it.
* *Isolation.* The same lemma carries `TenantIsolation`: for each stage, `Verified` says
  that what the request is about to write belongs to its user or is gone, and a commit
  changes rows of the user who asked for it only (`Confined`). That an id once freed does
  not come back as another user's row under a request that still names it is the part
  of `Evolves` this rests on.
* *Late dishes.* A deletion that has counted no active dish is `Guarded`: every active
  dish now in its category was created, moved or activated after the count. Each
  commit that makes a dish active in the category marks it late, and nothing unmarks
  it before the deletion commits.
* *Reorders.* `Written` ties the three variables together: a row that a transaction has
  written is locked by it and has the last place its list named it so far, and
  `undo` has what was there before. So `Seen`, which reads through the locks, is changed
  by no UPDATE and no rollback, and at the commit it becomes at once what
  `CategoryOrder!Reorder` says; the last place in a list is the one `CHOOSE`
  picks there because there is only one.
* *Circles.* If the requests of a circle listed their rows in one order, take the one
  whose awaited row is the latest in that order (there is one, as the rows are finitely
  many): the holder of that row has written it and so awaits a later one.
* *Pages.* While nothing leaves the list, a steady dish only moves away from its
  beginning, so the steady ones before the offset have been seen; while nothing comes,
  dishes only move towards it, so the ones seen are before the offset. Ranks are
  cardinalities of sets that grow or shrink, and the rank of a listed dish is below the
  number of them, so a walk that ends at a true count has passed every steady dish.
* *Slugs.* Uniqueness is kept by each commit. A search nobody raced has seen every
  candidate before its own taken by another row, and candidates differ: they map
  `0..k-1` one to one into those rows, so `k` is at most their number.
* *Uploads.* The pool in `_executor` is down only while the loop is blocked; jobs
  belong to the pool of their upload; a pool other than the last one is down and, once
  the loop goes on, has no pending job. Hence all running jobs are in one pool.
* *Storage.* A thread past the look for the bucket has seen one, and none is ever
  removed; while it is private, its creator is about to put the policy, unless it was
  cut off.
* *SessionPool.* `out[e]` is the cardinality of the set of requests that hold a
  connection of `e`, a fact about finite sets that each step changes by one element;
  a request that still awaits the connector was there when the first engine was not.
* *Analytics.* What an earlier part counted is still committed when a later one
  counts, as long as the restaurant is, since scans only go with it.
* *Days.* What was counted passes the dates asked for (`Sound`), and what was committed
  when the request began and passes them was counted, unless the restaurant went
  (`Based`, `Complete`). The rest is arithmetic on multiples of `Day`: `EndOfDay` of a
  midnight is the last instant of its day, and the next midnight is the instant after.

Only model-checked, because the prover has no fairness and no ENABLED: the liveness
properties `EventuallyFresh`, `RequestsEnd`, `UploadsEnd`, `BecomesPublic`,
`RepeatsSucceed`, `WaitersServed` and `ReordersEnd`.

## 5. What is not modelled, and the plan

Not modelled, because there is nothing to interleave or nothing that runs:

* *Rate limiter*: created in `app/main.py` and never applied, neither as middleware
  nor by a decorator, although the repository's `README.md:10` speaks of 100 requests a
  minute. No request is ever counted.
* *QR codes*: drawing; the code holds the slug of its moment, and `Slugs` says when the
  slug moves.
* *Configuration and secrets*: read once, at import; constants of the modules.
* *Errors, request ids, logging, templates, CSV and HTML layout, the cryptography of
  tokens and passwords*: formatting and libraries without state of this program.
* *Code nobody calls*: `make_unique_slug`, `close_connector`, `cache_clear` and
  `cache_invalidate` (tests only), the job queue and its workers, `page` and
  `total_pages`. `has_more` is computed and not part of the JSON that is sent:
  `DishPages` has it as the client would compute it from the fields that are.
* *Migrations and deployment*: only the constraints the one creates, and the
  several processes of the other.

Left for later: a module that composes `MenuRead` with the caches, so that what visitors
see is related to rows of the catalog across processes.
