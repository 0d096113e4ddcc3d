-------------------------- MODULE MenuCacheProofs --------------------------
(***************************************************************************)
(* Proofs of the safety properties of MenuCache, for every number of       *)
(* processes, requests, restaurants and slugs, and every time to live.     *)
(*                                                                         *)
(* None of the properties is inductive.  The strengthenings are: a request *)
(* past a stage carries what the stage gave it (Stages); the age of a menu *)
(* is bounded by the time its fill has been in flight, then by the time    *)
(* its entry has been kept, then by both (Ages); and a process that has    *)
(* not dropped its keys since a fill read the row has not answered a newer *)
(* write either (Flushes).                                                 *)
(*                                                                         *)
(* The content that a fill reads is one version in MenuCache.  What it is  *)
(* made of is MenuRead, which ends this module: there a steady dish stays  *)
(* on its way to the answer (SteadyKept), and a deleted one is never on it *)
(* (GoneStays).                                                            *)
(***************************************************************************)
EXTENDS MenuCache, MenuRead, TLAPS

\* Requests in flight know their process, their slug and, once the row is read,
\* their menu; a write knows what it committed.
VisitOK(w) ==
    /\ w.at # "idle" => w.inst \in Instance /\ w.slug \in Slug
    /\ w.at \in {"content", "fill", "scan"} => w.menu \in Menu

WriteOK(w) ==
    w.at = "committed" => w.inst \in Instance /\ w.rest \in Restaurant

Stages ==
    /\ \A v \in Visitor : VisitOK(visit[v])
    /\ \A a \in Admin : WriteOK(admin[a])

\* How old the version a menu was read at can be, stage by stage.
AgeOf(m) == age[m.rest][m.ver]

VisitAge(w) ==
    /\ w.at \in {"content", "fill"} => AgeOf(w.menu) <= w.wait
    /\ w.at = "scan" => AgeOf(w.menu) <= MaxRequest + TTL + w.wait

EntryAge(e) == e.left >= 0 => AgeOf(e.menu) <= MaxRequest + TTL - e.left

Ages ==
    /\ \A r \in Restaurant, n \in Version : n >= version[r] => age[r][n] = 0
    /\ \A v \in Visitor : VisitAge(visit[v])
    /\ \A i \in Instance, s \in Slug : cache[i][s] # None => EntryAge(cache[i][s])

\* No process has answered a write that is not committed, and a fill that no
\* invalidation of its process has met is as new as the writes answered there.
VisitFlushed(w) ==
    w.at \in {"content", "fill"} /\ ~w.late =>
        w.menu.ver >= flushed[w.inst][w.menu.rest]

Flushes ==
    /\ \A a \in Admin : admin[a].at = "committed" =>
        admin[a].ver <= version[admin[a].rest]
    /\ \A i \in Instance, r \in Restaurant : flushed[i][r] <= version[r]
    /\ \A v \in Visitor : VisitFlushed(visit[v])
    /\ InvalidationEffective

----------------------------------------------------------------------------

LEMMA BoundTypes == Bound \in Nat /\ Horizon \in Nat
BY BoundsAssumption DEF Bound, Horizon

LEMMA NoVisitOK == NoVisit \in Visit /\ NoVisit.at = "idle" /\ VisitOK(NoVisit)
BY BoundsAssumption DEF NoVisit, Started, Visit, VisitOK

LEMMA NoWriteOK == NoWrite \in Write /\ NoWrite.at = "idle" /\ WriteOK(NoWrite)
BY BoundsAssumption DEF NoWrite, Write, Version, WriteOK

LEMMA StartedOK ==
    ASSUME NEW at \in {"row", "scan"}, NEW i \in Instance, NEW s \in Slug,
           NEW m \in Menu \cup {None}, at = "scan" => m \in Menu
    PROVE  Started(at, i, s, m) \in Visit /\ VisitOK(Started(at, i, s, m))
BY BoundsAssumption DEF Started, Visit, VisitOK

\* A step of one public request that leaves the database as it is.
LEMMA VisitStepStages ==
    ASSUME TypeOK, Stages, NEW v \in Visitor, NEW w \in Visit, VisitOK(w),
           visit' = [visit EXCEPT ![v] = w],
           UNCHANGED <<slugOf, version, scans, cache, admin, age, flushed>>
    PROVE  TypeOK' /\ Stages'
BY DEF TypeOK, Stages

LEMMA InitStages == Init => TypeOK /\ Stages
BY SetsAssumption, BoundsAssumption, NoVisitOK, NoWriteOK, BoundTypes
   DEF Init, TypeOK, Stages, Version

LEMMA NextStages == TypeOK /\ Stages /\ [Next]_vars => TypeOK' /\ Stages'
<1> SUFFICES ASSUME TypeOK, Stages, [Next]_vars PROVE TypeOK' /\ Stages'
  OBVIOUS
<1>1. ASSUME NEW v \in Visitor, NEW i \in Instance, NEW s \in Slug, VisitHit(v, i, s)
      PROVE  TypeOK' /\ Stages'
  <2>1. CacheGet(i, s) \in Entry
    BY <1>1 DEF VisitHit, CacheGet, TypeOK
  <2>2. CacheGet(i, s).menu \in Menu
    BY <2>1 DEF Entry
  <2>3. Started("scan", i, s, CacheGet(i, s).menu) \in Visit
        /\ VisitOK(Started("scan", i, s, CacheGet(i, s).menu))
    BY <2>2, StartedOK
  <2> QED
    BY <1>1, <2>3, VisitStepStages DEF VisitHit, db, history
<1>2. ASSUME NEW v \in Visitor, NEW i \in Instance, NEW s \in Slug, VisitMiss(v, i, s)
      PROVE  TypeOK' /\ Stages'
  <2>1. Started("row", i, s, None) \in Visit /\ VisitOK(Started("row", i, s, None))
    BY StartedOK
  <2> QED
    BY <1>2, <2>1 DEF VisitMiss, TypeOK, Stages, db, history
<1>3. ASSUME NEW v \in Visitor, ReadRow(v)
      PROVE  TypeOK' /\ Stages'
  <2>1. CASE visit' = [visit EXCEPT ![v] = NoVisit]
    BY <1>3, <2>1, NoVisitOK, VisitStepStages DEF ReadRow, db, history
  <2>2. ASSUME NEW r \in Restaurant,
               visit' = [visit EXCEPT ![v].at = "content",
                           ![v].menu = [rest |-> r, ver |-> version[r]]]
        PROVE  TypeOK' /\ Stages'
    <3> DEFINE w == [visit[v] EXCEPT !.at = "content",
                        !.menu = [rest |-> r, ver |-> version[r]]]
    <3>1. [rest |-> r, ver |-> version[r]] \in Menu
      BY DEF Menu, TypeOK
    <3>2. w \in Visit /\ VisitOK(w)
      BY <1>3, <3>1 DEF ReadRow, TypeOK, Stages, Visit, VisitOK
    <3>3. visit' = [visit EXCEPT ![v] = w]
      BY <2>2
    <3> QED
      BY <1>3, <3>2, <3>3, VisitStepStages DEF ReadRow, db, history
  <2> QED
    BY <1>3, <2>1, <2>2 DEF ReadRow, Holders
<1>4. ASSUME NEW v \in Visitor, ReadContent(v)
      PROVE  TypeOK' /\ Stages'
  <2> DEFINE w == [visit[v] EXCEPT !.at = "fill"]
  <2>1. w \in Visit /\ VisitOK(w)
    BY <1>4 DEF ReadContent, TypeOK, Stages, Visit, VisitOK
  <2> QED
    BY <1>4, <2>1, VisitStepStages DEF ReadContent, db, history
<1>5. ASSUME NEW v \in Visitor, FillCache(v)
      PROVE  TypeOK' /\ Stages'
  <2> DEFINE w == [visit[v] EXCEPT !.at = "scan"]
  <2>1. NewEntry(visit[v]) \in Entry
    BY <1>5, BoundsAssumption DEF FillCache, NewEntry, TypeOK, Stages, VisitOK, Entry, Visit
  <2>2. w \in Visit /\ VisitOK(w)
    BY <1>5 DEF FillCache, TypeOK, Stages, Visit, VisitOK
  <2> QED
    BY <1>5, <2>1, <2>2 DEF FillCache, TypeOK, Stages, db, history
<1>6. ASSUME NEW v \in Visitor, RecordScan(v)
      PROVE  TypeOK' /\ Stages'
  <2>1. visit[v].menu.rest \in Restaurant
    BY <1>6 DEF RecordScan, Stages, VisitOK, Menu
  <2> QED
    BY <1>6, <2>1, NoVisitOK DEF RecordScan, TypeOK, Stages, db, history
<1>7. ASSUME NEW a \in Admin, NEW r \in Restaurant, NEW s \in Slug, CreateRestaurant(a, r, s)
      PROVE  TypeOK' /\ Stages'
  BY <1>7 DEF CreateRestaurant, TypeOK, Stages, history
<1>8. ASSUME NEW a \in Admin, NEW i \in Instance, NEW r \in Restaurant, AdminCommit(a, i, r)
      PROVE  TypeOK' /\ Stages'
  <2>1. PICK s \in Slug \cup {None} : Commit(a, i, r, s) /\ scans' \in {scans, scans \ {r}}
    BY <1>8 DEF AdminCommit, UpdateContent, RenameRestaurant, DeleteRestaurant, TypeOK
  <2> DEFINE w == [at |-> "committed", inst |-> i, rest |-> r, ver |-> version[r] + 1]
  <2>2. version[r] + 1 \in Version
    BY <2>1, BoundsAssumption DEF Commit, TypeOK, Version
  <2>3. w \in Write /\ WriteOK(w)
    BY <2>2 DEF Write, WriteOK
  <2> QED
    BY <2>1, <2>2, <2>3 DEF Commit, TypeOK, Stages, history
<1>9. ASSUME NEW a \in Admin, Invalidate(a)
      PROVE  TypeOK' /\ Stages'
  <2>1. \A w \in Visit : /\ [w EXCEPT !.late = TRUE] \in Visit
                         /\ VisitOK(w) => VisitOK([w EXCEPT !.late = TRUE])
    BY DEF Visit, VisitOK
  <2>2. visit' \in [Visitor -> Visit] /\ \A v \in Visitor : VisitOK(visit'[v])
    BY <1>9, <2>1 DEF Invalidate, TypeOK, Stages
  <2>3. admin[a].ver \in Version
    BY DEF TypeOK, Write
  <2>4. flushed' \in [Instance -> [Restaurant -> Version]]
    <3> DEFINE i == admin[a].inst
               r == admin[a].rest
               n == IF flushed[i][r] < admin[a].ver THEN admin[a].ver ELSE flushed[i][r]
    <3>1. i \in Instance /\ r \in Restaurant
      BY <1>9 DEF Invalidate, Stages, WriteOK
    <3>2. n \in Version
      BY <2>3, <3>1 DEF TypeOK
    <3>3. flushed' = [flushed EXCEPT ![i][r] = n]
      BY <1>9 DEF Invalidate
    <3> HIDE DEF i, r, n
    <3> QED
      BY <3>1, <3>2, <3>3 DEF TypeOK
  <2> QED
    BY <1>9, <2>2, <2>4, NoWriteOK DEF Invalidate, InvalidateMenus, TypeOK, Stages, db
<1>10. ASSUME NEW a \in Admin, LoseReply(a)
       PROVE  TypeOK' /\ Stages'
  BY <1>10, NoWriteOK DEF LoseReply, TypeOK, Stages, db, history
<1>11. ASSUME NEW i \in Instance, Restart(i)
       PROVE  TypeOK' /\ Stages'
  BY <1>11, NoVisitOK, NoWriteOK DEF Restart, TypeOK, Stages, db, history
<1>12. ASSUME Tick
       PROVE  TypeOK' /\ Stages'
  <2>1. \A e \in Entry : e.left >= 0 => [e EXCEPT !.left = @ - 1] \in Entry
    BY BoundsAssumption DEF Entry
  <2>2. cache' \in [Instance -> [Slug -> Entry \cup {None}]]
    BY <1>12, <2>1 DEF Tick, TypeOK
  <2>3. \A w \in Visit : w.wait < MaxRequest =>
            /\ [w EXCEPT !.wait = @ + 1] \in Visit
            /\ VisitOK(w) => VisitOK([w EXCEPT !.wait = @ + 1])
    BY BoundsAssumption DEF Visit, VisitOK
  <2>4. visit' \in [Visitor -> Visit] /\ \A v \in Visitor : VisitOK(visit'[v])
    BY <1>12, <2>3 DEF Tick, TypeOK, Stages
  <2>5. age' \in [Restaurant -> [Version -> 0..Horizon]]
    BY <1>12, BoundTypes DEF Tick, TypeOK
  <2> QED
    BY <1>12, <2>2, <2>4, <2>5 DEF Tick, TypeOK, Stages, db
<1>13. ASSUME UNCHANGED vars
       PROVE  TypeOK' /\ Stages'
  BY <1>13 DEF vars, TypeOK, Stages
<1> QED
  BY <1>1, <1>2, <1>3, <1>4, <1>5, <1>6, <1>7, <1>8, <1>9, <1>10, <1>11, <1>12, <1>13
     DEF Next, VisitStart, VisitStep, AdminEnd

\* Every state is well typed and every request in flight carries what its stage
\* of get_menu_by_slug, or of the admin services, has read so far.
THEOREM TypeCorrect == Spec => [](TypeOK /\ Stages)
BY InitStages, NextStages, PTL DEF Spec

----------------------------------------------------------------------------

LEMMA InitAges == Init => Ages
BY DEF Init, Ages, NoVisit, Started, VisitAge

\* A step of one public request that may store an entry.
LEMMA VisitStepAges ==
    ASSUME TypeOK, Ages, NEW v \in Visitor, NEW w, VisitAge(w),
           visit' = [visit EXCEPT ![v] = w],
           UNCHANGED <<version, age>>,
           NEW i \in Instance, NEW s \in Slug, NEW e, e # None => EntryAge(e),
           cache' = [cache EXCEPT ![i][s] = e] \/ cache' = cache
    PROVE  Ages'
<1>1. \A u \in Visitor : VisitAge(visit'[u])
  BY DEF TypeOK, Ages
<1>2. \A j \in Instance, q \in Slug : cache'[j][q] # None => EntryAge(cache'[j][q])
  <2>1. \A j \in Instance, q \in Slug : cache'[j][q] \in {cache[j][q], e}
    BY SMTT(30) DEF TypeOK
  <2> QED
    BY <2>1 DEF Ages
<1> QED
  BY <1>1, <1>2 DEF Ages, VisitAge, EntryAge, AgeOf

LEMMA NextAges == TypeOK /\ Stages /\ Ages /\ [Next]_vars => Ages'
<1> SUFFICES ASSUME TypeOK, Stages, Ages, [Next]_vars PROVE Ages'
  OBVIOUS
<1> USE BoundsAssumption
<1>0. VisitAge(NoVisit)
  BY DEF VisitAge, NoVisit, Started
<1>1. ASSUME NEW v \in Visitor, NEW i \in Instance, NEW s \in Slug, VisitHit(v, i, s)
      PROVE  Ages'
  <2> DEFINE e == cache[i][s]
  <2>1. e \in Entry /\ e.left >= 0 /\ EntryAge(e) /\ CacheGet(i, s) = e
    BY <1>1 DEF VisitHit, CacheGet, TypeOK, Ages
  <2>2. AgeOf(e.menu) \in Nat /\ e.left \in Nat
    BY <2>1, BoundTypes DEF Entry, Menu, AgeOf, TypeOK
  <2>3. VisitAge(Started("scan", i, s, e.menu))
    BY <2>1, <2>2 DEF VisitAge, EntryAge, Started
  <2> QED
    BY <1>1, <2>1, <2>3, VisitStepAges DEF VisitHit, db, history
<1>2. ASSUME NEW v \in Visitor, NEW i \in Instance, NEW s \in Slug, VisitMiss(v, i, s)
      PROVE  Ages'
  <2>1. VisitAge(Started("row", i, s, None))
    BY DEF VisitAge, Started
  <2> QED
    BY <1>2, <2>1, VisitStepAges DEF VisitMiss, db, history
<1>3. ASSUME NEW v \in Visitor, ReadRow(v)
      PROVE  Ages'
  <2> visit[v].inst \in Instance /\ visit[v].slug \in Slug /\ visit[v] \in Visit
    BY <1>3 DEF ReadRow, Stages, VisitOK, TypeOK
  <2>1. CASE visit' = [visit EXCEPT ![v] = NoVisit]
    BY <1>0, <1>3, <2>1, VisitStepAges DEF ReadRow, db, history
  <2>2. ASSUME NEW r \in Restaurant,
               visit' = [visit EXCEPT ![v].at = "content",
                           ![v].menu = [rest |-> r, ver |-> version[r]]]
        PROVE  Ages'
    <3> DEFINE w == [visit[v] EXCEPT !.at = "content",
                        !.menu = [rest |-> r, ver |-> version[r]]]
    <3>1. AgeOf([rest |-> r, ver |-> version[r]]) = 0
      BY DEF TypeOK, Ages, AgeOf, Version
    <3>2. VisitAge(w)
      BY <3>1 DEF VisitAge, Visit
    <3>3. visit' = [visit EXCEPT ![v] = w]
      BY <2>2
    <3> HIDE DEF w
    <3> QED
      BY <1>3, <3>2, <3>3, VisitStepAges DEF ReadRow, db, history
  <2> QED
    BY <1>3, <2>1, <2>2 DEF ReadRow, Holders
<1>4. ASSUME NEW v \in Visitor, ReadContent(v)
      PROVE  Ages'
  <2> visit[v].inst \in Instance /\ visit[v].slug \in Slug /\ visit[v] \in Visit
    BY <1>4 DEF ReadContent, Stages, VisitOK, TypeOK
  <2> DEFINE w == [visit[v] EXCEPT !.at = "fill"]
  <2>1. VisitAge(w)
    BY <1>4 DEF ReadContent, VisitAge, Ages, Visit
  <2>2. visit' = [visit EXCEPT ![v] = w]
    BY <1>4 DEF ReadContent
  <2> HIDE DEF w
  <2> QED
    BY <1>4, <2>1, <2>2, VisitStepAges DEF ReadContent, db, history
<1>5. ASSUME NEW v \in Visitor, FillCache(v)
      PROVE  Ages'
  <2> visit[v].inst \in Instance /\ visit[v].slug \in Slug /\ visit[v] \in Visit
      /\ visit[v].menu \in Menu
    BY <1>5 DEF FillCache, Stages, VisitOK, TypeOK
  <2> DEFINE w == [visit[v] EXCEPT !.at = "scan"]
             e == NewEntry(visit[v])
  <2>1. AgeOf(visit[v].menu) \in Nat /\ AgeOf(visit[v].menu) <= visit[v].wait
        /\ visit[v].wait \in 0..MaxRequest
    <3>1. VisitAge(visit[v]) /\ visit[v].at = "fill"
      BY <1>5 DEF FillCache, Ages
    <3>2. AgeOf(visit[v].menu) <= visit[v].wait
      BY <3>1 DEF VisitAge
    <3>3. visit[v].menu.rest \in Restaurant /\ visit[v].menu.ver \in Version
      BY DEF Menu
    <3>4. AgeOf(visit[v].menu) \in Nat
      BY <3>3, BoundTypes DEF AgeOf, TypeOK
    <3> QED
      BY <3>2, <3>4 DEF Visit
  <2>2. VisitAge(w)
    BY <2>1 DEF VisitAge, Visit
  <2>3. EntryAge(e)
    BY <2>1 DEF EntryAge, NewEntry
  <2>4. visit' = [visit EXCEPT ![v] = w]
        /\ cache' = [cache EXCEPT ![visit[v].inst][visit[v].slug] = e]
    BY <1>5 DEF FillCache
  <2> HIDE DEF w, e
  <2> QED
    BY <1>5, <2>2, <2>3, <2>4, VisitStepAges DEF FillCache, db, history
<1>6. ASSUME NEW v \in Visitor, RecordScan(v)
      PROVE  Ages'
  <2> visit[v].inst \in Instance /\ visit[v].slug \in Slug
    BY <1>6 DEF RecordScan, Stages, VisitOK
  <2> QED
    BY <1>0, <1>6, VisitStepAges DEF RecordScan, db, history
<1>7. ASSUME NEW a \in Admin, NEW r \in Restaurant, NEW s \in Slug, CreateRestaurant(a, r, s)
      PROVE  Ages'
  BY <1>7 DEF CreateRestaurant, Ages, VisitAge, EntryAge, AgeOf, history
<1>8. ASSUME NEW a \in Admin, NEW i \in Instance, NEW r \in Restaurant, AdminCommit(a, i, r)
      PROVE  Ages'
  <2>1. UNCHANGED <<cache, visit, age>> /\ version' = [version EXCEPT ![r] = @ + 1]
    BY <1>8 DEF AdminCommit, UpdateContent, RenameRestaurant, DeleteRestaurant, Commit, history
  <2>2. \A q \in Restaurant : version'[q] \in Nat /\ version[q] \in Nat
                            /\ version'[q] >= version[q]
    BY <2>1, SMTT(30) DEF TypeOK, Version
  <2>3. \A q \in Restaurant, n \in Version : n >= version'[q] => age'[q][n] = 0
    BY <2>1, <2>2 DEF Ages, Version
  <2> QED
    BY <2>1, <2>3 DEF Ages, VisitAge, EntryAge, AgeOf
<1>9. ASSUME NEW a \in Admin, Invalidate(a)
      PROVE  Ages'
  <2>1. \A w \in Visit : VisitAge(w) => VisitAge([w EXCEPT !.late = TRUE])
    BY DEF Visit, VisitAge
  <2>2. \A v \in Visitor : VisitAge(visit'[v])
    BY <1>9, <2>1 DEF Invalidate, TypeOK, Ages
  <2>3. \A j \in Instance, q \in Slug : cache'[j][q] # None => EntryAge(cache'[j][q])
    BY <1>9 DEF Invalidate, InvalidateMenus, TypeOK, Ages
  <2> QED
    BY <1>9, <2>2, <2>3 DEF Invalidate, Ages, VisitAge, EntryAge, AgeOf, db
<1>10. ASSUME NEW a \in Admin, LoseReply(a)
       PROVE  Ages'
  BY <1>10 DEF LoseReply, Ages, VisitAge, EntryAge, AgeOf, db, history
<1>11. ASSUME NEW i \in Instance, Restart(i)
       PROVE  Ages'
  <2>1. \A v \in Visitor : VisitAge(visit'[v])
    BY <1>0, <1>11 DEF Restart, Ages
  <2>2. \A j \in Instance, q \in Slug : cache'[j][q] # None => EntryAge(cache'[j][q])
    BY <1>11 DEF Restart, TypeOK, Ages
  <2> QED
    BY <1>11, <2>1, <2>2 DEF Restart, Ages, VisitAge, EntryAge, AgeOf, db, history
<1>12. ASSUME Tick
       PROVE  Ages'
  <2>1. \A r \in Restaurant, n \in Version :
            age[r][n] \in Nat /\ age'[r][n] \in Nat /\ age'[r][n] <= age[r][n] + 1
    BY <1>12, BoundTypes DEF Tick, TypeOK
  <2>2. \A r \in Restaurant, n \in Version : n >= version'[r] => age'[r][n] = 0
    BY <1>12 DEF Tick, Ages, TypeOK, Version, db
  <2>3. ASSUME NEW v \in Visitor
        PROVE  VisitAge(visit[v])'
    <3>1. CASE visit[v].at \in {"idle", "row"}
      BY <1>12, <3>1 DEF Tick, VisitAge, TypeOK, Visit
    <3>2. CASE visit[v].at \in {"content", "fill", "scan"}
      <4>1. visit[v].menu \in Menu /\ visit[v].wait \in Nat
        BY <3>2 DEF Stages, VisitOK, TypeOK, Visit
      <4>2. visit'[v].at = visit[v].at /\ visit'[v].menu = visit[v].menu
            /\ visit'[v].wait = visit[v].wait + 1
        BY <1>12, <3>2 DEF Tick, TypeOK, Visit
      <4>3. VisitAge(visit[v])
        BY DEF Ages
      <4> QED
        BY <2>1, <3>2, <4>1, <4>2, <4>3 DEF VisitAge, AgeOf, Menu
    <3> QED
      BY <3>1, <3>2 DEF TypeOK, Visit
  <2>4. ASSUME NEW i \in Instance, NEW s \in Slug, cache'[i][s] # None
        PROVE  EntryAge(cache[i][s])'
    <3>1. cache[i][s] \in Entry /\ EntryAge(cache[i][s])
      BY <1>12, <2>4 DEF Tick, TypeOK, Ages
    <3>2. cache[i][s].menu \in Menu /\ cache[i][s].left \in -1..TTL
      BY <3>1 DEF Entry
    <3>3. cache'[i][s] = IF cache[i][s].left >= 0
                         THEN [cache[i][s] EXCEPT !.left = @ - 1] ELSE cache[i][s]
      BY <1>12, <2>4 DEF Tick
    <3>4. CASE cache[i][s].left >= 0
      <4>1. cache'[i][s].left = cache[i][s].left - 1 /\ cache'[i][s].menu = cache[i][s].menu
        BY <3>1, <3>3, <3>4 DEF Entry
      <4> QED
        BY <2>1, <3>1, <3>2, <3>4, <4>1 DEF EntryAge, AgeOf, Menu
    <3>5. CASE cache[i][s].left < 0
      BY <3>2, <3>3, <3>5 DEF EntryAge
    <3> QED
      BY <3>2, <3>4, <3>5
  <2> QED
    BY <2>2, <2>3, <2>4 DEF Ages
<1>13. ASSUME UNCHANGED vars
       PROVE  Ages'
  BY <1>13 DEF vars, Ages, VisitAge, EntryAge, AgeOf
<1> QED
  BY <1>1, <1>2, <1>3, <1>4, <1>5, <1>6, <1>7, <1>8, <1>9, <1>10, <1>11, <1>12, <1>13
     DEF Next, VisitStart, VisitStep, AdminEnd

\* get_menu_by_slug never answers a menu that stopped being current more than
\* TTL + 2 * MaxRequest ticks before, however many processes keep a cache each
\* and however its fill raced with the writes and the invalidations.
THEOREM Staleness == Spec => []BoundedStaleness
<1>1. TypeOK /\ Stages /\ Ages => BoundedStaleness
  <2> SUFFICES ASSUME TypeOK, Stages, Ages, NEW v \in Visitor, visit[v].at = "scan"
               PROVE  age[visit[v].menu.rest][visit[v].menu.ver] <= Bound
    BY DEF BoundedStaleness
  <2>1. visit[v].menu \in Menu /\ visit[v].wait \in 0..MaxRequest /\ VisitAge(visit[v])
    BY DEF Stages, VisitOK, TypeOK, Visit, Ages
  <2> QED
    BY <2>1, BoundsAssumption, BoundTypes DEF VisitAge, AgeOf, Bound, TypeOK, Menu
<1> QED
  BY <1>1, InitStages, NextStages, InitAges, NextAges, PTL DEF Spec

----------------------------------------------------------------------------

LEMMA InitFlushes == Init => Flushes
BY BoundsAssumption DEF Init, Flushes, NoVisit, NoWrite, Started, VisitFlushed,
                        InvalidationEffective

\* A step of one public request that leaves the cache as it is.
LEMMA VisitStepFlushes ==
    ASSUME TypeOK, Flushes, NEW v \in Visitor, NEW w, VisitFlushed(w),
           visit' = [visit EXCEPT ![v] = w],
           UNCHANGED <<version, cache, admin, flushed>>
    PROVE  Flushes'
BY DEF TypeOK, Flushes, VisitFlushed, InvalidationEffective

LEMMA NextFlushes == TypeOK /\ Stages /\ Flushes /\ [Next]_vars => Flushes'
<1> SUFFICES ASSUME TypeOK, Stages, Flushes, [Next]_vars PROVE Flushes'
  OBVIOUS
<1>0. VisitFlushed(NoVisit)
  BY DEF VisitFlushed, NoVisit, Started
<1>1. ASSUME NEW v \in Visitor, NEW i \in Instance, NEW s \in Slug, VisitHit(v, i, s)
      PROVE  Flushes'
  <2>1. VisitFlushed(Started("scan", i, s, CacheGet(i, s).menu))
    BY DEF VisitFlushed, Started
  <2> QED
    BY <1>1, <2>1, VisitStepFlushes DEF VisitHit, db, history
<1>2. ASSUME NEW v \in Visitor, NEW i \in Instance, NEW s \in Slug, VisitMiss(v, i, s)
      PROVE  Flushes'
  <2>1. VisitFlushed(Started("row", i, s, None))
    BY DEF VisitFlushed, Started
  <2>2. \A u \in Visitor : VisitFlushed(visit'[u])
    BY <1>2, <2>1 DEF VisitMiss, TypeOK, Flushes
  <2>3. \A j \in Instance, q \in Slug : cache'[j][q] \in {cache[j][q], None}
    BY <1>2 DEF VisitMiss, TypeOK
  <2> QED
    BY <1>2, <2>2, <2>3 DEF VisitMiss, Flushes, VisitFlushed, InvalidationEffective, db, history
<1>3. ASSUME NEW v \in Visitor, ReadRow(v)
      PROVE  Flushes'
  <2>1. CASE visit' = [visit EXCEPT ![v] = NoVisit]
    BY <1>0, <1>3, <2>1, VisitStepFlushes DEF ReadRow, db, history
  <2>2. ASSUME NEW r \in Restaurant,
               visit' = [visit EXCEPT ![v].at = "content",
                           ![v].menu = [rest |-> r, ver |-> version[r]]]
        PROVE  Flushes'
    <3> DEFINE w == [visit[v] EXCEPT !.at = "content",
                        !.menu = [rest |-> r, ver |-> version[r]]]
    <3>1. visit[v].inst \in Instance /\ visit[v] \in Visit
      BY <1>3 DEF ReadRow, Stages, VisitOK, TypeOK
    <3>2. w.inst = visit[v].inst /\ w.menu.rest = r /\ w.menu.ver = version[r]
      BY <3>1 DEF Visit
    <3>3. VisitFlushed(w)
      BY <3>1, <3>2 DEF VisitFlushed, Flushes
    <3>4. visit' = [visit EXCEPT ![v] = w]
      BY <2>2
    <3> HIDE DEF w
    <3> QED
      BY <1>3, <3>3, <3>4, VisitStepFlushes DEF ReadRow, db, history
  <2> QED
    BY <1>3, <2>1, <2>2 DEF ReadRow, Holders
<1>4. ASSUME NEW v \in Visitor, ReadContent(v)
      PROVE  Flushes'
  <2> DEFINE w == [visit[v] EXCEPT !.at = "fill"]
  <2>1. VisitFlushed(w)
    BY <1>4 DEF ReadContent, VisitFlushed, Flushes, TypeOK, Visit
  <2>2. visit' = [visit EXCEPT ![v] = w]
    BY <1>4 DEF ReadContent
  <2> HIDE DEF w
  <2> QED
    BY <1>4, <2>1, <2>2, VisitStepFlushes DEF ReadContent, db, history
<1>5. ASSUME NEW v \in Visitor, FillCache(v)
      PROVE  Flushes'
  <2> DEFINE w == [visit[v] EXCEPT !.at = "scan"]
             e == NewEntry(visit[v])
             i == visit[v].inst
  <2>1. i \in Instance /\ visit[v].slug \in Slug /\ visit[v] \in Visit
    BY <1>5 DEF FillCache, Stages, VisitOK, TypeOK
  <2>2. VisitFlushed(w)
    BY <2>1 DEF VisitFlushed, Visit
  <2>3. \A u \in Visitor : VisitFlushed(visit'[u])
    BY <1>5, <2>2 DEF FillCache, TypeOK, Flushes
  <2>4. ~e.late => e.menu.ver >= flushed[i][e.menu.rest]
    BY <1>5 DEF FillCache, NewEntry, Flushes, VisitFlushed
  <2>5. \A j \in Instance, q \in Slug :
            cache'[j][q] = cache[j][q] \/ (j = i /\ cache'[j][q] = e)
    BY <1>5, <2>1 DEF FillCache, TypeOK
  <2> HIDE DEF w, e, i
  <2>6. InvalidationEffective'
    BY <1>5, <2>4, <2>5 DEF FillCache, Flushes, InvalidationEffective, history
  <2> QED
    BY <1>5, <2>3, <2>6 DEF FillCache, Flushes, VisitFlushed, db, history
<1>6. ASSUME NEW v \in Visitor, RecordScan(v)
      PROVE  Flushes'
  BY <1>0, <1>6, VisitStepFlushes DEF RecordScan, db, history
<1>7. ASSUME NEW a \in Admin, NEW r \in Restaurant, NEW s \in Slug, CreateRestaurant(a, r, s)
      PROVE  Flushes'
  BY <1>7 DEF CreateRestaurant, Flushes, VisitFlushed, InvalidationEffective, history
<1>8. ASSUME NEW a \in Admin, NEW i \in Instance, NEW r \in Restaurant, AdminCommit(a, i, r)
      PROVE  Flushes'
  <2>1. /\ UNCHANGED <<cache, visit, flushed>>
        /\ version' = [version EXCEPT ![r] = @ + 1]
        /\ admin' = [admin EXCEPT ![a] = [at |-> "committed", inst |-> i,
                                          rest |-> r, ver |-> version[r] + 1]]
    BY <1>8 DEF AdminCommit, UpdateContent, RenameRestaurant, DeleteRestaurant, Commit, history
  <2>2. \A q \in Restaurant : version'[q] \in Nat /\ version[q] \in Nat
                            /\ version'[q] >= version[q]
    BY <2>1 DEF TypeOK, Version
  <2>3. \A j \in Instance, q \in Restaurant : flushed'[j][q] <= version'[q]
    BY <2>1, <2>2, SMTT(30) DEF Flushes, TypeOK, Version
  <2>4. ASSUME NEW b \in Admin, admin'[b].at = "committed"
        PROVE  admin'[b].ver <= version'[admin'[b].rest]
    <3>1. CASE b = a
      BY <2>1, <2>2, <3>1 DEF TypeOK
    <3>2. CASE b # a
      <4>1. admin'[b] = admin[b] /\ admin[b].at = "committed"
        BY <2>1, <2>4, <3>2 DEF TypeOK
      <4>2. admin[b].rest \in Restaurant /\ admin[b].ver \in Nat
            /\ admin[b].ver <= version[admin[b].rest]
        BY <4>1 DEF Stages, WriteOK, Flushes, TypeOK, Write, Version
      <4> QED
        BY <2>2, <4>1, <4>2
    <3> QED
      BY <3>1, <3>2
  <2> QED
    BY <2>1, <2>3, <2>4 DEF Flushes, VisitFlushed, InvalidationEffective
<1>9. ASSUME NEW a \in Admin, Invalidate(a)
      PROVE  Flushes'
  <2> DEFINE i == admin[a].inst
             r == admin[a].rest
  <2>1. i \in Instance /\ r \in Restaurant /\ admin[a].ver <= version[r]
    BY <1>9 DEF Invalidate, Stages, WriteOK, Flushes
  <2>2. \A j \in Instance, q \in Restaurant :
            (j # i => flushed'[j][q] = flushed[j][q]) /\ flushed'[j][q] <= version'[q]
    BY <1>9, <2>1 DEF Invalidate, Flushes, TypeOK, db
  <2>3. \A u \in Visitor : VisitFlushed(visit[u])'
    <3> SUFFICES ASSUME NEW u \in Visitor, visit'[u].at \in {"content", "fill"},
                        ~visit'[u].late
                 PROVE  visit'[u].menu.ver >= flushed'[visit'[u].inst][visit'[u].menu.rest]
      BY DEF VisitFlushed
    <3>1. visit[u] \in Visit
      BY DEF TypeOK
    <3>2. visit'[u] = visit[u] /\ visit[u].inst # i
      BY <1>9, <3>1 DEF Invalidate, Visit
    <3>3. visit[u].inst \in Instance /\ visit[u].menu \in Menu /\ VisitFlushed(visit[u])
      BY <3>2 DEF Stages, VisitOK, Flushes
    <3> QED
      BY <2>2, <3>2, <3>3 DEF VisitFlushed, Menu
  <2>4. InvalidationEffective'
    <3> SUFFICES ASSUME NEW j \in Instance, NEW s \in Slug,
                        cache'[j][s] # None, ~cache'[j][s].late
                 PROVE  cache'[j][s].menu.ver >= flushed'[j][cache'[j][s].menu.rest]
      BY DEF InvalidationEffective
    <3>1. j # i /\ cache'[j][s] = cache[j][s]
      BY <1>9, <2>1 DEF Invalidate, InvalidateMenus, TypeOK
    <3>2. cache[j][s].menu.rest \in Restaurant
      BY <3>1 DEF TypeOK, Entry, Menu
    <3> QED
      BY <2>2, <3>1, <3>2 DEF Flushes, InvalidationEffective
  <2>5. \A b \in Admin : admin'[b].at = "committed" => admin'[b].ver <= version'[admin'[b].rest]
    BY <1>9, NoWriteOK DEF Invalidate, Flushes, TypeOK, db
  <2> QED
    BY <2>2, <2>3, <2>4, <2>5 DEF Flushes
<1>10. ASSUME NEW a \in Admin, LoseReply(a)
       PROVE  Flushes'
  BY <1>10, NoWriteOK DEF LoseReply, TypeOK, Flushes, VisitFlushed, InvalidationEffective, db, history
<1>11. ASSUME NEW i \in Instance, Restart(i)
       PROVE  Flushes'
  <2>1. \A v \in Visitor : VisitFlushed(visit'[v])
    BY <1>0, <1>11 DEF Restart, Flushes
  <2>2. \A j \in Instance, q \in Slug : cache'[j][q] \in {cache[j][q], None}
    BY <1>11 DEF Restart, TypeOK
  <2>3. \A b \in Admin : admin'[b].at = "committed" => admin'[b] = admin[b]
    BY <1>11, NoWriteOK DEF Restart
  <2> QED
    BY <1>11, <2>1, <2>2, <2>3
       DEF Restart, Flushes, VisitFlushed, InvalidationEffective, db, history
<1>12. ASSUME Tick
       PROVE  Flushes'
  <2>1. ASSUME NEW v \in Visitor
        PROVE  VisitFlushed(visit[v])'
    <3>1. visit'[v] = visit[v] \/ visit'[v] = [visit[v] EXCEPT !.wait = @ + 1]
      BY <1>12 DEF Tick
    <3> QED
      BY <1>12, <3>1 DEF Tick, Flushes, VisitFlushed, TypeOK, Visit
  <2>2. ASSUME NEW i \in Instance, NEW s \in Slug, cache'[i][s] # None, ~cache'[i][s].late
        PROVE  cache'[i][s].menu.ver >= flushed'[i][cache'[i][s].menu.rest]
    <3>1. cache[i][s] \in Entry
      BY <1>12, <2>2 DEF Tick, TypeOK
    <3>2. cache'[i][s].menu = cache[i][s].menu /\ cache'[i][s].late = cache[i][s].late
      BY <1>12, <3>1 DEF Tick, Entry
    <3> QED
      BY <1>12, <2>2, <3>1, <3>2, SetsAssumption
         DEF Tick, Flushes, InvalidationEffective, Entry
  <2> QED
    BY <1>12, <2>1, <2>2 DEF Tick, Flushes, InvalidationEffective, db
<1>13. ASSUME UNCHANGED vars
       PROVE  Flushes'
  BY <1>13 DEF vars, Flushes, VisitFlushed, InvalidationEffective
<1> QED
  BY <1>1, <1>2, <1>3, <1>4, <1>5, <1>6, <1>7, <1>8, <1>9, <1>10, <1>11, <1>12, <1>13
     DEF Next, VisitStart, VisitStep, AdminEnd

\* cache_invalidate_prefix does what the admin services call it for: the process
\* that answered a write keeps no older menu, but for the fills that were
\* already past their first read when the keys were dropped.
THEOREM Invalidation == Spec => []InvalidationEffective
<1>1. Flushes => InvalidationEffective
  BY DEF Flushes
<1> QED
  BY <1>1, InitStages, NextStages, InitFlushes, NextFlushes, PTL DEF Spec

----------------------------------------------------------------------------

\* The scan events of a restaurant go with it, and none is stored afterwards,
\* although visitors go on being answered its menu from the caches.
THEOREM Scans == Spec => []ScansOfRestaurants
<1>1. Init => ScansOfRestaurants
  BY DEF Init, ScansOfRestaurants
<1>2. TypeOK /\ ScansOfRestaurants /\ [Next]_vars => ScansOfRestaurants'
  <2> SUFFICES ASSUME TypeOK, ScansOfRestaurants, [Next]_vars
               PROVE  ScansOfRestaurants'
    OBVIOUS
  <2>1. CASE UNCHANGED <<slugOf, scans>>
    BY <2>1 DEF ScansOfRestaurants
  <2>2. ASSUME NEW v \in Visitor, RecordScan(v)
        PROVE  ScansOfRestaurants'
    BY <2>2 DEF RecordScan, ScansOfRestaurants, db
  <2>3. ASSUME NEW a \in Admin, NEW r \in Restaurant, NEW s \in Slug, CreateRestaurant(a, r, s)
        PROVE  ScansOfRestaurants'
    BY <2>3, SetsAssumption DEF CreateRestaurant, ScansOfRestaurants, TypeOK
  <2>4. ASSUME NEW a \in Admin, NEW i \in Instance, NEW r \in Restaurant, AdminCommit(a, i, r)
        PROVE  ScansOfRestaurants'
    <3>1. CASE DeleteRestaurant(a, i, r)
      BY <3>1 DEF DeleteRestaurant, Commit, ScansOfRestaurants, TypeOK
    <3>2. CASE UpdateContent(a, i, r)
      BY <3>2 DEF UpdateContent, Commit, ScansOfRestaurants, TypeOK
    <3>3. ASSUME NEW s \in Slug, RenameRestaurant(a, i, r, s)
          PROVE  ScansOfRestaurants'
      BY <3>3, SetsAssumption DEF RenameRestaurant, Commit, ScansOfRestaurants, TypeOK
    <3> QED
      BY <2>4, <3>1, <3>2, <3>3 DEF AdminCommit
  <2> QED
    BY <2>1, <2>2, <2>3, <2>4
       DEF Next, vars, VisitStart, VisitHit, VisitMiss, VisitStep, ReadRow, ReadContent,
           FillCache, AdminEnd, Invalidate, LoseReply, Restart, Tick, db
<1> QED
  BY <1>1, <1>2, InitStages, NextStages, PTL DEF Spec

----------------------------------------------------------------------------
(* MenuRead: what a menu that is not in the cache is made of *)

\* Dishes are of categories that exist.
ReadRows ==
    \A d \in Dish : dish[d] # Absent => category[dish[d].cat] # Absent

\* Nothing is loaded before the SELECT for it.
ReadOrder ==
    read.at \in {"idle", "categories"} => \A c \in Category : read.loaded[c] = Absent

\* Nothing is answered before its time.
MenuOrder == read.at # "answered" => \A c \in Category : read.menu[c] = {}

\* A steady dish is on the menu of the database until it is on the answer: its
\* category was read, and what was loaded of that category has it.
SteadyKept ==
    \A d \in read.steady :
        /\ read.at \in {"categories", "dishes"} => OnMenu(d)
        /\ read.at = "dishes" =>
             /\ dish[d].cat \in read.cats
             /\ read.loaded[dish[d].cat] # Absent => d \in read.loaded[dish[d].cat]
        /\ read.at = "answered" => \E c \in Category : d \in read.menu[c]

\* A dish that was deleted stays deleted, and is not loaded.
GoneStays ==
    /\ \A d \in read.gone : dish[d] # Absent => dish[d].deleted
    /\ \A c \in Category :
         /\ read.loaded[c] # Absent => read.loaded[c] \cap read.gone = {}
         /\ read.menu[c] \cap read.gone = {}

ReadInv == ReadTypeOK /\ ReadRows /\ ReadOrder /\ MenuOrder /\ SteadyKept /\ GoneStays

LEMMA NoRequestType == NoRequest \in Request
<1>1. /\ [c \in Category |-> Absent] \in [Category -> (SUBSET Dish) \cup {Absent}]
      /\ [c \in Category |-> {}] \in [Category -> SUBSET Dish]
      /\ {} \in SUBSET Category /\ {} \in SUBSET Dish
  OBVIOUS
<1>2. QED BY <1>1 DEF NoRequest, Request

LEMMA InitReadInv ==
    ASSUME ReadInit
    PROVE  ReadInv
<1>1. ReadTypeOK
  BY NoRequestType, ReadBounds DEF ReadInit, ReadTypeOK, NoRequest
<1>2. ReadRows
  BY AbsentAssumption DEF ReadInit, DishRow, ReadRows
<1>3. ReadOrder /\ MenuOrder /\ SteadyKept /\ GoneStays
  BY DEF ReadInit, NoRequest, ReadOrder, MenuOrder, SteadyKept, GoneStays
<1>4. QED BY <1>1, <1>2, <1>3 DEF ReadInv

\* A commit keeps the type of the request, and touches only what is steady.
LEMMA WriteRead ==
    ASSUME ReadTypeOK, OwnerWrite
    PROVE  /\ read' \in Request /\ writes' \in 0..MaxWrites
           /\ read'.at = read.at /\ read'.cats = read.cats /\ read'.loaded = read.loaded
           /\ read'.menu = read.menu /\ read'.gone = read.gone
           /\ \A d \in read'.steady : /\ d \in read.steady
                                      /\ dish'[d] = dish[d]
                                      /\ category'[dish[d].cat] = category[dish[d].cat]
<1> DEFINE rest == {d \in read.steady : dish'[d] = dish[d]
                                        /\ category'[dish[d].cat] = category[dish[d].cat]}
<1>1. read \in Request /\ writes \in 0..MaxWrites
  BY DEF ReadTypeOK
<1>2. read' = [read EXCEPT !.steady = rest] /\ writes < MaxWrites /\ writes' = writes + 1
  BY DEF OwnerWrite
<1>3. rest \subseteq read.steady
  OBVIOUS
<1>4. \A d \in rest : dish'[d] = dish[d] /\ category'[dish[d].cat] = category[dish[d].cat]
  OBVIOUS
<1> HIDE DEF rest
<1>5. read' \in Request
  BY <1>1, <1>2, <1>3 DEF Request
<1>6. /\ read'.at = read.at /\ read'.cats = read.cats /\ read'.loaded = read.loaded
      /\ read'.menu = read.menu /\ read'.gone = read.gone /\ read'.steady = rest
  BY <1>1, <1>2 DEF Request
<1>7. writes' \in 0..MaxWrites
  BY <1>1, <1>2, ReadBounds
<1>8. QED BY <1>3, <1>4, <1>5, <1>6, <1>7

\* What a commit must keep: types, references and deletions.
LEMMA WriteReadInv ==
    ASSUME ReadInv, OwnerWrite,
           category' \in [Category -> CategoryRow \cup {Absent}],
           dish' \in [Dish -> DishRow \cup {Absent}],
           ReadRows',
           \A d \in Dish : dish[d] # Absent /\ dish[d].deleted /\ dish'[d] # Absent => dish'[d].deleted,
           \A d \in Dish : dish[d] = Absent => dish'[d] = Absent
    PROVE  ReadInv'
<1>1. /\ read' \in Request /\ writes' \in 0..MaxWrites
      /\ read'.at = read.at /\ read'.cats = read.cats /\ read'.loaded = read.loaded
      /\ read'.menu = read.menu /\ read'.gone = read.gone
      /\ \A d \in read'.steady : /\ d \in read.steady
                                 /\ dish'[d] = dish[d]
                                 /\ category'[dish[d].cat] = category[dish[d].cat]
  BY WriteRead DEF ReadInv
<1>2. ReadTypeOK'
  BY <1>1 DEF ReadInv, ReadTypeOK
<1>3. ReadOrder' /\ MenuOrder'
  BY <1>1 DEF ReadInv, ReadOrder, MenuOrder
<1>4. SteadyKept'
  BY <1>1 DEF ReadInv, SteadyKept, OnMenu
<1>5. GoneStays'
  <2>1. read.gone \subseteq Dish
    BY DEF ReadInv, ReadTypeOK, Request
  <2>2. QED BY <1>1, <2>1 DEF ReadInv, GoneStays
<1>6. QED BY <1>2, <1>3, <1>4, <1>5 DEF ReadInv

LEMMA NextReadInv ==
    ASSUME ReadInv, [ReadNext]_readVars
    PROVE  ReadInv'
<1>1. /\ category \in [Category -> CategoryRow \cup {Absent}]
      /\ dish \in [Dish -> DishRow \cup {Absent}]
      /\ Absent \notin CategoryRow /\ Absent \notin DishRow /\ Absent \notin SUBSET Dish
      /\ read \in Request
  BY AbsentAssumption DEF ReadInv, ReadTypeOK
<1>2. ASSUME NEW c \in Category, SwitchCategory(c) PROVE ReadInv'
  <2>1. /\ category[c] \in CategoryRow /\ UNCHANGED dish /\ OwnerWrite
        /\ category' = [category EXCEPT ![c].active = ~@]
    BY <1>1, <1>2 DEF SwitchCategory
  <2>2. [category[c] EXCEPT !.active = ~category[c].active] \in CategoryRow
    BY <2>1 DEF CategoryRow
  <2>3. /\ category' \in [Category -> CategoryRow \cup {Absent}]
        /\ \A e \in Category : category[e] # Absent => category'[e] # Absent
    BY <1>1, <2>1, <2>2
  <2>4. ReadRows'
    BY <1>1, <2>1, <2>3 DEF ReadInv, ReadRows, DishRow
  <2>5. QED BY <1>1, <2>1, <2>3, <2>4, WriteReadInv
<1>3. ASSUME NEW c \in Category, DropCategory(c) PROVE ReadInv'
  <2>1. /\ category' = [category EXCEPT ![c] = Absent] /\ OwnerWrite
        /\ dish' = [d \in Dish |-> IF dish[d] # Absent /\ dish[d].cat = c THEN Absent ELSE dish[d]]
    BY <1>3 DEF DropCategory
  <2>2. /\ category' \in [Category -> CategoryRow \cup {Absent}]
        /\ dish' \in [Dish -> DishRow \cup {Absent}]
    BY <1>1, <2>1
  <2>3. ReadRows'
    BY <1>1, <2>1 DEF ReadInv, ReadRows, DishRow
  <2>4. QED BY <2>1, <2>2, <2>3, WriteReadInv
<1>4. ASSUME NEW d \in Dish, NEW c \in Category, NEW b \in BOOLEAN, ChangeDish(d, c, b)
      PROVE  ReadInv'
  <2> DEFINE row == [dish[d] EXCEPT !.cat = c, !.available = b]
  <2>1. /\ dish[d] \in DishRow /\ category[c] # Absent /\ UNCHANGED category /\ OwnerWrite
        /\ dish' = [dish EXCEPT ![d] = row]
    BY <1>1, <1>4 DEF ChangeDish
  <2>2. row \in DishRow /\ row.cat = c /\ row.deleted = dish[d].deleted
    BY <2>1 DEF DishRow
  <2> HIDE DEF row
  <2>3. dish' \in [Dish -> DishRow \cup {Absent}]
    BY <1>1, <2>1, <2>2
  <2>4. ReadRows'
    BY <1>1, <2>1, <2>2 DEF ReadInv, ReadRows
  <2>5. QED BY <1>1, <2>1, <2>2, <2>3, <2>4, WriteReadInv
<1>5. ASSUME NEW d \in Dish, DeleteDish(d) PROVE ReadInv'
  <2> DEFINE row == [dish[d] EXCEPT !.deleted = TRUE]
  <2>1. /\ dish[d] \in DishRow /\ UNCHANGED category /\ OwnerWrite
        /\ dish' = [dish EXCEPT ![d] = row]
    BY <1>1, <1>5 DEF DeleteDish
  <2>2. row \in DishRow /\ row.cat = dish[d].cat /\ row.deleted
    BY <2>1 DEF DishRow
  <2> HIDE DEF row
  <2>3. dish' \in [Dish -> DishRow \cup {Absent}]
    BY <1>1, <2>1, <2>2
  <2>4. ReadRows'
    BY <1>1, <2>1, <2>2 DEF ReadInv, ReadRows
  <2>5. QED BY <1>1, <2>1, <2>2, <2>3, <2>4, WriteReadInv
<1>6. CASE Begin
  <2> DEFINE on == {d \in Dish : OnMenu(d)}
             off == {d \in Dish : dish[d] # Absent /\ dish[d].deleted}
  <2>1. /\ read' = [read EXCEPT !.at = "categories", !.steady = on, !.gone = off]
        /\ read.at = "idle" /\ UNCHANGED <<category, dish, writes>>
    BY <1>6 DEF Begin
  <2>2. on \subseteq Dish /\ off \subseteq Dish
    OBVIOUS
  <2>3. /\ \A d \in on : OnMenu(d)
        /\ \A d \in off : dish[d].deleted
    OBVIOUS
  <2> HIDE DEF on, off
  <2>4. /\ read' \in Request
        /\ read'.at = "categories" /\ read'.steady = on /\ read'.gone = off
        /\ read'.cats = read.cats /\ read'.loaded = read.loaded /\ read'.menu = read.menu
    BY <1>1, <2>1, <2>2 DEF Request
  <2>5. ReadTypeOK' /\ ReadRows' /\ ReadOrder'
    BY <2>1, <2>4 DEF ReadInv, ReadTypeOK, ReadRows, ReadOrder
  <2>6. SteadyKept'
    BY <2>1, <2>3, <2>4 DEF SteadyKept, OnMenu
  <2>7. GoneStays'
    <3>1. \A c \in Category : read.loaded[c] = Absent
      BY <2>1 DEF ReadInv, ReadOrder
    <3>2. \A c \in Category : read.menu[c] = {}
      BY <2>1 DEF ReadInv, MenuOrder
    <3>3. QED BY <2>1, <2>3, <2>4, <3>1, <3>2 DEF GoneStays
  <2>8. QED BY <2>1, <2>4, <2>5, <2>6, <2>7 DEF ReadInv, MenuOrder
<1>7. CASE ReadCategories
  <2> DEFINE cats == {c \in Category : category[c] # Absent /\ category[c].active}
  <2>1. /\ read' = [read EXCEPT !.at = "dishes", !.cats = cats]
        /\ read.at = "categories" /\ UNCHANGED <<category, dish, writes>>
    BY <1>7 DEF ReadCategories
  <2>2. /\ cats \subseteq Category
        /\ \A c \in Category : category[c] # Absent /\ category[c].active => c \in cats
    OBVIOUS
  <2> HIDE DEF cats
  <2>3. /\ read' \in Request
        /\ read'.at = "dishes" /\ read'.cats = cats /\ read'.steady = read.steady
        /\ read'.gone = read.gone /\ read'.loaded = read.loaded /\ read'.menu = read.menu
    BY <1>1, <2>1, <2>2 DEF Request
  <2>4. \A c \in Category : read.loaded[c] = Absent
    BY <2>1 DEF ReadInv, ReadOrder
  <2>5. ReadTypeOK' /\ ReadRows' /\ ReadOrder' /\ GoneStays'
    BY <2>1, <2>3, <2>4 DEF ReadInv, ReadTypeOK, ReadRows, ReadOrder, GoneStays
  <2>6. SteadyKept'
    <3>1. ASSUME NEW d \in read.steady PROVE OnMenu(d) /\ dish[d].cat \in cats
      <4>1. d \in Dish /\ OnMenu(d)
        BY <1>1, <2>1 DEF ReadInv, SteadyKept, Request
      <4>2. dish[d].cat \in Category /\ category[dish[d].cat] # Absent
        BY <1>1, <4>1 DEF ReadInv, ReadRows, OnMenu, DishRow
      <4>3. QED BY <2>2, <4>1, <4>2 DEF OnMenu
    <3>2. \A d \in read.steady : dish[d].cat \in Category
      BY <2>2, <3>1
    <3>3. QED BY <2>1, <2>3, <2>4, <3>1, <3>2 DEF SteadyKept, OnMenu
  <2>7. QED BY <2>1, <2>3, <2>5, <2>6 DEF ReadInv, MenuOrder
<1>8. CASE LoadDishes
  <2>1. PICK S \in Chunks :
          read' = [read EXCEPT !.loaded = [c \in Category |->
                     IF c \in S THEN VisibleIn(c) ELSE read.loaded[c]]]
    BY <1>8 DEF LoadDishes
  <2> DEFINE loaded == [c \in Category |-> IF c \in S THEN VisibleIn(c) ELSE read.loaded[c]]
  <2>2. /\ read' = [read EXCEPT !.loaded = loaded]
        /\ read.at = "dishes" /\ UNCHANGED <<category, dish, writes>>
    BY <1>8, <2>1 DEF LoadDishes
  <2>3. S \subseteq read.cats
    BY <2>1 DEF Chunks, Missing
  <2>4. /\ loaded \in [Category -> (SUBSET Dish) \cup {Absent}]
        /\ \A c \in Category : loaded[c] = IF c \in S THEN VisibleIn(c) ELSE read.loaded[c]
    BY <1>1 DEF VisibleIn, Request
  <2> HIDE DEF loaded
  <2>5. /\ read' \in Request
        /\ read'.at = "dishes" /\ read'.cats = read.cats /\ read'.steady = read.steady
        /\ read'.gone = read.gone /\ read'.loaded = loaded /\ read'.menu = read.menu
    BY <1>1, <2>2, <2>4 DEF Request
  <2>6. ReadTypeOK' /\ ReadRows' /\ ReadOrder'
    BY <2>2, <2>3, <2>4, <2>5 DEF ReadInv, ReadTypeOK, ReadRows, ReadOrder
  <2>7. SteadyKept'
    <3>1. ASSUME NEW d \in read.steady
          PROVE  /\ OnMenu(d) /\ dish[d].cat \in read.cats
                 /\ loaded[dish[d].cat] # Absent => d \in loaded[dish[d].cat]
      <4>1. /\ d \in Dish /\ OnMenu(d) /\ dish[d].cat \in read.cats
            /\ read.loaded[dish[d].cat] # Absent => d \in read.loaded[dish[d].cat]
        BY <1>1, <2>2 DEF ReadInv, SteadyKept, Request
      <4>2. dish[d].cat \in Category
        BY <1>1, <4>1 DEF OnMenu, DishRow
      <4>3. d \in VisibleIn(dish[d].cat)
        BY <4>1 DEF VisibleIn, OnMenu
      <4>4. QED BY <2>4, <4>1, <4>2, <4>3
    <3>2. QED BY <2>2, <2>5, <3>1 DEF SteadyKept, OnMenu
  <2>8. GoneStays'
    <3>1. \A c \in Category : VisibleIn(c) \cap read.gone = {}
      BY <1>1 DEF ReadInv, GoneStays, VisibleIn
    <3>2. QED BY <2>2, <2>4, <2>5, <3>1 DEF ReadInv, GoneStays
  <2>9. QED BY <2>2, <2>5, <2>6, <2>7, <2>8 DEF ReadInv, MenuOrder
<1>9. CASE Answer
  <2> DEFINE menu == [c \in Category |-> IF Kept(c) THEN read.loaded[c] ELSE {}]
  <2>1. /\ read' = [read EXCEPT !.at = "answered", !.menu = menu]
        /\ read.at = "dishes" /\ Missing = {} /\ UNCHANGED <<category, dish, writes>>
    BY <1>9 DEF Answer
  <2>2. ASSUME NEW c \in read.cats
        PROVE  c \in Category /\ read.loaded[c] # Absent /\ read.loaded[c] \in SUBSET Dish
    <3>1. c \in Category /\ read.loaded \in [Category -> (SUBSET Dish) \cup {Absent}]
      BY <1>1 DEF Request
    <3>2. read.loaded[c] # Absent
      BY <2>1, <3>1 DEF Missing
    <3>3. QED BY <3>1, <3>2
  <2>3. /\ menu \in [Category -> SUBSET Dish]
        /\ \A c \in Category : /\ c \in read.cats => menu[c] = read.loaded[c]
                               /\ c \notin read.cats => menu[c] = {}
    BY <2>2 DEF Kept
  <2> HIDE DEF menu
  <2>4. /\ read' \in Request
        /\ read'.at = "answered" /\ read'.cats = read.cats /\ read'.steady = read.steady
        /\ read'.gone = read.gone /\ read'.loaded = read.loaded /\ read'.menu = menu
    BY <1>1, <2>1, <2>3 DEF Request
  <2>5. ReadTypeOK' /\ ReadRows' /\ ReadOrder'
    BY <2>1, <2>4 DEF ReadInv, ReadTypeOK, ReadRows, ReadOrder
  <2>6. SteadyKept'
    <3>1. ASSUME NEW d \in read.steady PROVE \E c \in Category : d \in menu[c]
      <4>1. /\ dish[d].cat \in read.cats
            /\ read.loaded[dish[d].cat] # Absent => d \in read.loaded[dish[d].cat]
        BY <2>1 DEF ReadInv, SteadyKept
      <4>2. QED BY <2>2, <2>3, <4>1
    <3>2. QED BY <2>4, <3>1 DEF SteadyKept
  <2>7. GoneStays'
    BY <2>1, <2>2, <2>3, <2>4 DEF ReadInv, GoneStays
  <2>8. QED BY <2>4, <2>5, <2>6, <2>7 DEF ReadInv, MenuOrder
<1>10. CASE UNCHANGED readVars
  BY <1>10 DEF readVars, ReadInv, ReadTypeOK, ReadRows, ReadOrder, MenuOrder, SteadyKept,
               GoneStays, OnMenu
<1>11. QED
  BY <1>2, <1>3, <1>4, <1>5, <1>6, <1>7, <1>8, <1>9, <1>10 DEF ReadNext

LEMMA ReadInvariant == ReadSpec => []ReadInv
<1>1. ReadInit => ReadInv
  BY InitReadInv
<1>2. ReadInv /\ [ReadNext]_readVars => ReadInv'
  BY NextReadInv
<1>3. QED BY <1>1, <1>2, PTL DEF ReadSpec

\* The rows, and what is read of them, are of the shape the code gives them.
THEOREM ReadTypeCorrect == ReadSpec => []ReadTypeOK
<1>1. ReadInv => ReadTypeOK
  BY DEF ReadInv
<1>2. QED BY <1>1, ReadInvariant, PTL

\* get_menu_by_slug: a dish that was to be seen all along is on the answer, with
\* any number of categories per SELECT and of commits between them.
THEOREM SteadyDishes == ReadSpec => []SteadyDishesShown
<1>1. ReadInv => SteadyDishesShown
  BY DEF ReadInv, SteadyKept, SteadyDishesShown
<1>2. QED BY <1>1, ReadInvariant, PTL

\* get_menu_by_slug: a dish deleted before the request is on no answer.
THEOREM DeletedDishes == ReadSpec => []DeletedNotShown
<1>1. ReadInv => DeletedNotShown
  BY DEF ReadInv, GoneStays, DeletedNotShown
<1>2. QED BY <1>1, ReadInvariant, PTL

=============================================================================
