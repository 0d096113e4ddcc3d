----------------------------- MODULE SlugsProofs -----------------------------
(***************************************************************************)
(* Theorems about Slugs, for any number of requests, owners and names.     *)
(*                                                                         *)
(* What a search knows holds until another request commits, and a commit   *)
(* marks every request under way as raced: the invariant (Quiet) records,  *)
(* for a search that has not been overtaken, that its row is as loaded,    *)
(* that the candidates it has left behind are the slugs of other rows, and *)
(* that the one it has found is free.  The length of the search then is a  *)
(* pigeonhole argument: different candidates are slugs of different rows.  *)
(***************************************************************************)
EXTENDS Slugs, FiniteSetTheorems, FunctionTheorems, TLAPS

Keys == OneRestaurantPerSlug

\* What the row a request is about was when it loaded it.
Loaded(p) ==
    IF req[p].id = None THEN \A r \in rows : r.owner # req[p].owner
    ELSE \E r \in rows : r.id = req[p].id /\ r.slug = req[p].oldSlug

Passed(p) == \A j \in Nat : j < req[p].k => Taken(p, Candidate(Base[req[p].name], j))

Quiet(p) ==
    /\ Active(p) /\ ~req[p].raced =>
         /\ Loaded(p)
         /\ Passed(p)
         /\ At(p, "commit") => ~Taken(p, Wanted(p))
    /\ At(p, "new") => req[p].id = None /\ req[p].k = 0

IInv ==
    /\ TypeOK
    /\ Keys
    /\ IsFiniteSet(rows)
    /\ \A p \in Request : Quiet(p)

----------------------------------------------------------------------------
(* Candidates *)

\* A candidate is a slug.
LEMMA CandidateType ==
    ASSUME NEW b \in Slug, NEW k \in Nat
    PROVE  Candidate(b, k) \in Slug
BY DEF Candidate, Slug

\* Two numbers give two candidates.
LEMMA CandidatesDiffer ==
    ASSUME NEW b \in Slug, NEW j \in Nat, NEW k \in Nat, j # k
    PROVE  Candidate(b, j) # Candidate(b, k)
<1>1. \A n \in Nat : Len(Append(b, n)) = Len(b) + 1 /\ Append(b, n)[Len(b) + 1] = n
  BY DEF Slug
<1>2. Len(b) \in Nat
  BY DEF Slug
<1>3. CASE j = 0
  BY <1>1, <1>2, <1>3 DEF Candidate
<1>4. CASE k = 0
  BY <1>1, <1>2, <1>4 DEF Candidate
<1>5. CASE j # 0 /\ k # 0
  BY <1>1, <1>5 DEF Candidate
<1>6. QED BY <1>3, <1>4, <1>5

\* What a request wants is a slug.
LEMMA WantedType ==
    ASSUME TypeOK, NEW p \in Request
    PROVE  Wanted(p) \in Slug
<1>1. req[p].name \in Name /\ req[p].k \in Nat
  BY DEF TypeOK, Req
<1>2. Base[req[p].name] \in Slug
  BY <1>1, BaseAssumption DEF Slug
<1>3. QED BY <1>1, <1>2, CandidateType DEF Wanted

----------------------------------------------------------------------------
(* Steps *)

\* A request that moves on while the table stays as it is.
LEMMA LocalStep ==
    ASSUME IInv, NEW p \in Request, NEW x \in Req,
           req' = [req EXCEPT ![p] = x], UNCHANGED rows, Quiet(p)'
    PROVE  IInv'
<1>1. TypeOK'
  BY DEF IInv, TypeOK
<1>2. Keys' /\ IsFiniteSet(rows)'
  BY DEF IInv, Keys, OneRestaurantPerSlug
<1>3. ASSUME NEW q \in Request PROVE Quiet(q)'
  <2>1. CASE q = p
    BY <2>1
  <2>2. CASE q # p
    <3>1. req'[q] = req[q] /\ rows' = rows
      BY <2>2 DEF IInv, TypeOK
    <3>2. Quiet(q)
      BY DEF IInv
    <3>3. QED BY <3>1, <3>2 DEF Quiet, Active, At, Loaded, Passed, Taken, Others, Wanted
  <2>3. QED BY <2>1, <2>2
<1>4. QED BY <1>1, <1>2, <1>3 DEF IInv

\* A commit overtakes every other request under way.
LEMMA CommitStep ==
    ASSUME IInv, NEW p \in Request, NEW table \in SUBSET Row, CommitAs(p, table),
           IsFiniteSet(table), ~At(p, "new"),
           \A r, s \in table : r.slug = s.slug \/ r.owner = s.owner \/ r.id = s.id => r = s
    PROVE  IInv'
<1>1. \A q \in Request : req[q] \in Req
  BY DEF IInv, TypeOK
<1>2. \A q \in Request :
         /\ q = p => req'[q] = [req[q] EXCEPT !.pc = "ok"]
         /\ q # p => req'[q] = [req[q] EXCEPT !.raced = TRUE]
  BY DEF CommitAs
<1>3. ASSUME NEW q \in Request PROVE req'[q] \in Req
  <2>1. ASSUME NEW x \in Req
        PROVE  [x EXCEPT !.pc = "ok"] \in Req /\ [x EXCEPT !.raced = TRUE] \in Req
    BY DEF Req
  <2>2. req'[q] = [req[q] EXCEPT !.pc = "ok"] \/ req'[q] = [req[q] EXCEPT !.raced = TRUE]
    BY <1>2
  <2>3. QED BY <1>1, <2>1, <2>2
<1>4. TypeOK'
  <2>1. req' \in [Request -> Req]
    BY <1>3 DEF CommitAs
  <2>2. QED BY <2>1 DEF CommitAs, IInv, TypeOK
<1>5. Keys' /\ IsFiniteSet(rows)'
  BY DEF CommitAs, Keys, OneRestaurantPerSlug
<1>6. ASSUME NEW q \in Request PROVE Quiet(q)'
  <2>1. CASE q = p
    <3>1. req'[q].pc = "ok"
      BY <1>1, <1>2, <2>1 DEF Req
    <3>2. QED BY <3>1 DEF Quiet, Active, At
  <2>2. CASE q # p
    <3>1. /\ req'[q].raced /\ req'[q].pc = req[q].pc
          /\ req'[q].id = req[q].id /\ req'[q].k = req[q].k
      BY <1>1, <1>2, <2>2 DEF Req
    <3>2. Quiet(q)
      BY DEF IInv
    <3>3. QED BY <3>1, <3>2 DEF Quiet, Active, At
  <2>3. QED BY <2>1, <2>2
<1>7. QED BY <1>4, <1>5, <1>6 DEF IInv

LEMMA StepStartCreate ==
    ASSUME IInv, NEW p \in Request, StartCreate(p)
    PROVE  IInv'
<1> DEFINE x == [req[p] EXCEPT !.pc = "search", !.raced = FALSE]
<1>1. req[p] \in Req /\ Quiet(p)
  BY DEF IInv, TypeOK
<1>2. x \in Req /\ x.pc = "search" /\ x.id = req[p].id /\ x.k = req[p].k /\ x.owner = req[p].owner
  BY <1>1 DEF Req
<1>3. req' = [req EXCEPT ![p] = x]
  BY DEF StartCreate, IInv, TypeOK
<1>4. req'[p] = x
  BY <1>3 DEF IInv, TypeOK
<1>5. req[p].id = None /\ req[p].k = 0
  BY <1>1 DEF StartCreate, Quiet
<1>6. rows' = rows /\ ~ \E r \in rows : r.owner = req[p].owner
  BY DEF StartCreate
<1> HIDE DEF x
<1>7. Loaded(p)'
  BY <1>2, <1>4, <1>5, <1>6 DEF Loaded
<1>8. Passed(p)' /\ ~At(p, "commit")' /\ ~At(p, "new")'
  BY <1>2, <1>4, <1>5 DEF Passed, At
<1>9. Quiet(p)'
  BY <1>7, <1>8 DEF Quiet
<1>10. QED BY <1>2, <1>3, <1>9, LocalStep DEF StartCreate

LEMMA StepLoad ==
    ASSUME IInv, NEW p \in Request, NEW pc \in {"search", "delete"}, Load(p, pc)
    PROVE  IInv'
<1>1. PICK r \in rows : req' = [req EXCEPT ![p] =
                        [req[p] EXCEPT !.pc = pc, !.id = r.id, !.oldName = r.name,
                                  !.oldSlug = r.slug, !.raced = FALSE]]
  BY DEF Load, IInv, TypeOK
<1> DEFINE x == [req[p] EXCEPT !.pc = pc, !.id = r.id, !.oldName = r.name,
                               !.oldSlug = r.slug, !.raced = FALSE]
<1>2. req[p] \in Req /\ Quiet(p)
  BY DEF IInv, TypeOK
<1>3. r \in Row
  BY DEF IInv, TypeOK
<1>4. r.id \in Id /\ r.name \in Name /\ r.slug \in Slug
  BY <1>3 DEF Row
<1>5. x \in Req /\ x.pc = pc /\ x.id = r.id /\ x.oldSlug = r.slug /\ x.k = req[p].k
  BY <1>2, <1>4 DEF Req
<1>6. req'[p] = x
  BY <1>1 DEF IInv, TypeOK
<1>7. x.k = 0
  BY <1>2, <1>5 DEF Load, Quiet
<1>8. req' = [req EXCEPT ![p] = x] /\ rows' = rows
  BY <1>1 DEF Load
<1> HIDE DEF x
<1>9. Loaded(p)'
  BY <1>4, <1>5, <1>6, <1>8, NoneAssumption DEF Loaded
<1>10. Passed(p)' /\ ~At(p, "commit")' /\ ~At(p, "new")'
  BY <1>5, <1>6, <1>7 DEF Passed, At
<1>11. Quiet(p)'
  BY <1>9, <1>10 DEF Quiet
<1>12. QED BY <1>5, <1>8, <1>11, LocalStep

LEMMA StepTryNext ==
    ASSUME IInv, NEW p \in Request, TryNext(p)
    PROVE  IInv'
<1> DEFINE x == [req[p] EXCEPT !.k = @ + 1]
<1>1. req[p] \in Req /\ Quiet(p)
  BY DEF IInv, TypeOK
<1>2. /\ x \in Req /\ x.pc = req[p].pc /\ x.id = req[p].id /\ x.k = req[p].k + 1
      /\ x.owner = req[p].owner /\ x.raced = req[p].raced /\ x.name = req[p].name
      /\ x.oldSlug = req[p].oldSlug /\ req[p].k \in Nat
  BY <1>1 DEF Req
<1>3. req' = [req EXCEPT ![p] = x] /\ rows' = rows
  BY DEF TryNext, IInv, TypeOK
<1>4. req'[p] = x
  BY <1>3 DEF IInv, TypeOK
<1>5. ASSUME Active(p)', ~req'[p].raced
      PROVE  Loaded(p)' /\ Passed(p)'
  <2>1. Loaded(p) /\ Passed(p)
    BY <1>1, <1>2, <1>4, <1>5 DEF Quiet, Active
  <2>2. Loaded(p)'
    BY <2>1, <1>2, <1>3, <1>4 DEF Loaded
  <2>3. \A s : Taken(p, s) => Taken(p, s)'
    BY <1>2, <1>3, <1>4 DEF Taken, Others
  <2>4. Taken(p, Candidate(Base[req[p].name], req[p].k))
    BY DEF TryNext, Wanted
  <2>5. \A j \in Nat : j < x.k => j < req[p].k \/ j = req[p].k
    BY <1>2
  <2>6. Passed(p)'
    BY <2>1, <2>3, <2>4, <2>5, <1>2, <1>4 DEF Passed
  <2>7. QED BY <2>2, <2>6
<1>6. Quiet(p)'
  BY <1>2, <1>4, <1>5 DEF Quiet, TryNext, At
<1>7. QED BY <1>2, <1>3, <1>6, LocalStep DEF TryNext

LEMMA StepFound ==
    ASSUME IInv, NEW p \in Request, Found(p)
    PROVE  IInv'
<1> DEFINE x == [req[p] EXCEPT !.pc = "commit"]
<1>1. req[p] \in Req /\ Quiet(p)
  BY DEF IInv, TypeOK
<1>2. /\ x \in Req /\ x.pc = "commit" /\ x.id = req[p].id /\ x.k = req[p].k
      /\ x.owner = req[p].owner /\ x.raced = req[p].raced /\ x.name = req[p].name
      /\ x.oldSlug = req[p].oldSlug
  BY <1>1 DEF Req
<1>3. req' = [req EXCEPT ![p] = x] /\ rows' = rows
  BY DEF Found, Goto, IInv, TypeOK
<1>4. req'[p] = x
  BY <1>3 DEF IInv, TypeOK
<1>5. Active(p) /\ ~Taken(p, Wanted(p))'
  BY <1>2, <1>3, <1>4 DEF Found, At, Active, Taken, Others, Wanted
<1>6. Quiet(p)'
  BY <1>1, <1>2, <1>3, <1>4, <1>5 DEF Quiet, Loaded, Passed, Taken, Others, At
<1>7. QED BY <1>2, <1>3, <1>6, LocalStep DEF Found

LEMMA StepRefuse ==
    ASSUME IInv, NEW p \in Request, RefuseInsert(p) \/ RefuseUpdate(p)
    PROVE  IInv'
<1> DEFINE x == [req[p] EXCEPT !.pc = "failed"]
<1>1. req[p] \in Req
  BY DEF IInv, TypeOK
<1>2. x \in Req /\ x.pc = "failed"
  BY <1>1 DEF Req
<1>3. req' = [req EXCEPT ![p] = x] /\ UNCHANGED rows
  BY DEF RefuseInsert, RefuseUpdate, Goto, IInv, TypeOK
<1>4. req'[p] = x
  BY <1>3 DEF IInv, TypeOK
<1>5. Quiet(p)'
  BY <1>2, <1>4 DEF Quiet, Active, At
<1>6. QED BY <1>2, <1>3, <1>5, LocalStep

LEMMA StepInsert ==
    ASSUME IInv, NEW p \in Request, Insert(p)
    PROVE  IInv'
<1>1. PICK i \in FreshId :
         CommitAs(p, rows \cup {[id |-> i, owner |-> req[p].owner,
                                 name |-> req[p].name, slug |-> Wanted(p)]})
  BY DEF Insert
<1> DEFINE row == [id |-> i, owner |-> req[p].owner, name |-> req[p].name, slug |-> Wanted(p)]
<1>2. i \in Id /\ \A r \in rows : r.id # i
  BY DEF FreshId
<1>3. req[p].owner \in Owner /\ req[p].name \in Name
  BY DEF IInv, TypeOK, Req
<1>4. row \in Row
  BY <1>2, <1>3, WantedType DEF Row, IInv
<1>5. rows \cup {row} \in SUBSET Row
  BY <1>4 DEF IInv, TypeOK
<1>6. IsFiniteSet(rows \cup {row})
  BY FS_AddElement DEF IInv
<1>7. \A r \in rows : r.id # row.id /\ r.owner # row.owner /\ r.slug # row.slug
  BY <1>2 DEF Insert, InsertFits
<1>8. \A r, s \in rows \cup {row} :
         r.slug = s.slug \/ r.owner = s.owner \/ r.id = s.id => r = s
  BY <1>7 DEF IInv, Keys, OneRestaurantPerSlug
<1>9. ~At(p, "new")
  BY DEF Insert, At
<1>10. QED BY <1>1, <1>5, <1>6, <1>8, <1>9, CommitStep

LEMMA StepUpdate ==
    ASSUME IInv, NEW p \in Request, Update(p)
    PROVE  IInv'
<1>1. PICK r \in rows : UpdateFits(p, r) /\ CommitAs(p, Others(p) \cup {Updated(p, r)})
  BY DEF Update
<1> DEFINE row == Updated(p, r)
<1>2. r \in Row /\ req[p].name \in Name
  BY DEF IInv, TypeOK, Req
<1>3. /\ row \in Row /\ row.id = r.id /\ row.owner = r.owner
      /\ row.slug = IF Wanted(p) # req[p].oldSlug THEN Wanted(p) ELSE r.slug
  BY <1>2, WantedType DEF Updated, Row, IInv
<1>4. Others(p) \subseteq rows
  BY DEF Others
<1>5. Others(p) \cup {row} \in SUBSET Row
  BY <1>3, <1>4 DEF IInv, TypeOK
<1>6. IsFiniteSet(Others(p) \cup {row})
  BY <1>4, FS_Subset, FS_AddElement DEF IInv
<1>7. \A s \in Others(p) : s.id # row.id /\ s.owner # row.owner /\ s.slug # row.slug
  BY <1>1, <1>3 DEF Others, UpdateFits, Taken, IInv, Keys, OneRestaurantPerSlug
<1>8. \A s, t \in Others(p) \cup {row} :
         s.slug = t.slug \/ s.owner = t.owner \/ s.id = t.id => s = t
  BY <1>4, <1>7 DEF IInv, Keys, OneRestaurantPerSlug
<1>9. ~At(p, "new")
  BY DEF Update, At
<1>10. QED BY <1>1, <1>5, <1>6, <1>8, <1>9, CommitStep

LEMMA StepDelete ==
    ASSUME IInv, NEW p \in Request, Delete(p)
    PROVE  IInv'
<1>1. Others(p) \subseteq rows
  BY DEF Others
<1>2. Others(p) \in SUBSET Row /\ IsFiniteSet(Others(p))
  BY <1>1, FS_Subset DEF IInv, TypeOK
<1>3. \A s, t \in Others(p) : s.slug = t.slug \/ s.owner = t.owner \/ s.id = t.id => s = t
  BY <1>1 DEF IInv, Keys, OneRestaurantPerSlug
<1>4. ~At(p, "new") /\ CommitAs(p, Others(p))
  BY DEF Delete, At
<1>5. QED BY <1>2, <1>3, <1>4, CommitStep

----------------------------------------------------------------------------
(* The invariant *)

\* Init: nothing is stored, nothing has begun.
LEMMA InitIInv == Init => IInv
<1> SUFFICES ASSUME Init PROVE IInv
  OBVIOUS
<1>1. ASSUME NEW p \in Request
      PROVE  req[p] \in Req /\ req[p].pc = "new" /\ req[p].id = None /\ req[p].k = 0
  <2>1. PICK o \in Owner, n \in Name :
          req[p] = [pc |-> "new", owner |-> o, name |-> n, k |-> 0, id |-> None,
                    oldName |-> n, oldSlug |-> Base[n], raced |-> FALSE]
    BY DEF Init
  <2>2. Base[n] \in Slug
    BY BaseAssumption DEF Slug
  <2>3. QED BY <2>1, <2>2 DEF Req
<1>2. TypeOK
  <2>1. req \in [Request -> Req]
    BY <1>1 DEF Init
  <2>2. QED BY <2>1 DEF Init, TypeOK
<1>3. Keys /\ IsFiniteSet(rows)
  BY FS_EmptySet DEF Init, Keys, OneRestaurantPerSlug
<1>4. \A p \in Request : Quiet(p)
  BY <1>1 DEF Quiet, Active, At
<1>5. QED BY <1>2, <1>3, <1>4 DEF IInv

LEMMA NextIInv == IInv /\ [Next]_vars => IInv'
<1> SUFFICES ASSUME IInv, [Next]_vars PROVE IInv'
  OBVIOUS
<1>1. ASSUME NEW p \in Request, StartCreate(p) PROVE IInv'
  BY <1>1, StepStartCreate
<1>2. ASSUME NEW p \in Request, StartUpdate(p) \/ StartDelete(p) PROVE IInv'
  BY <1>2, StepLoad DEF StartUpdate, StartDelete
<1>3. ASSUME NEW p \in Request, Step(p) PROVE IInv'
  BY <1>3, StepTryNext, StepFound, StepInsert, StepRefuse, StepUpdate, StepDelete DEF Step
<1>4. CASE UNCHANGED vars
  BY <1>4 DEF vars, IInv, TypeOK, Keys, OneRestaurantPerSlug, Quiet, Active, At, Loaded,
              Passed, Taken, Others, Wanted
<1>5. QED BY <1>1, <1>2, <1>3, <1>4 DEF Next

LEMMA Invariant == Spec => []IInv
BY InitIInv, NextIInv, PTL DEF Spec

----------------------------------------------------------------------------
(* Theorems *)

\* The table and the requests are of the shapes the code gives them.
THEOREM TypeCorrect == Spec => []TypeOK
<1>1. IInv => TypeOK
  BY DEF IInv
<1>2. QED BY <1>1, Invariant, PTL

\* However the searches and the commits of the requests interleave, a slug is the slug
\* of one restaurant and an owner has one.
THEOREM SlugsAreUnique == Spec => []OneRestaurantPerSlug
<1>1. IInv => OneRestaurantPerSlug
  BY DEF IInv, Keys
<1>2. QED BY <1>1, Invariant, PTL

\* A search no commit overtook has found a slug its own commit can write.
THEOREM QuietSearches == Spec => []QuietSearchSucceeds
<1>1. ASSUME IInv PROVE QuietSearchSucceeds
  <2> SUFFICES ASSUME NEW p \in Request, At(p, "commit"), ~req[p].raced
               PROVE  IF req[p].id = None THEN InsertFits(p)
                      ELSE \E r \in rows : UpdateFits(p, r)
    BY DEF QuietSearchSucceeds
  <2>1. Loaded(p) /\ ~Taken(p, Wanted(p))
    BY <1>1 DEF IInv, Quiet, Active, At
  <2>2. CASE req[p].id = None
    <3>1. \A r \in rows : r.id # None
      BY <1>1, NoneAssumption DEF IInv, TypeOK, Row
    <3>2. QED BY <2>1, <2>2, <3>1 DEF Loaded, Taken, Others, InsertFits
  <2>3. CASE req[p].id # None
    BY <2>1, <2>3 DEF Loaded, UpdateFits
  <2>4. QED BY <2>2, <2>3
<1>2. QED BY <1>1, Invariant, PTL

\* A search no commit overtook has looked up at most one candidate for each other
\* restaurant, and the one it is at: the unbounded loop of _ensure_unique_slug ends.
THEOREM QuietSearchesAreShort == Spec => []QuietSearchIsShort
<1>1. ASSUME IInv PROVE QuietSearchIsShort
  <2> SUFFICES ASSUME NEW p \in Request, Active(p), ~req[p].raced
               PROVE  req[p].k <= Cardinality(Others(p))
    BY DEF QuietSearchIsShort
  <2> DEFINE k == req[p].k
             b == Base[req[p].name]
             f == [j \in 0..(k - 1) |-> CHOOSE r \in Others(p) : r.slug = Candidate(b, j)]
  <2>1. k \in Nat /\ b \in Slug
    <3>1. k \in Nat /\ req[p].name \in Name
      BY <1>1 DEF IInv, TypeOK, Req
    <3>2. QED BY <3>1, BaseAssumption DEF Slug
  <2>2. Passed(p)
    BY <1>1 DEF IInv, Quiet
  <2>3. \A j \in 0..(k - 1) : j \in Nat /\ j < k
    BY <2>1
  <2>4. ASSUME NEW j \in 0..(k - 1)
        PROVE  f[j] \in Others(p) /\ f[j].slug = Candidate(b, j)
    <3>1. \E r \in Others(p) : r.slug = Candidate(b, j)
      BY <2>2, <2>3 DEF Passed, Taken
    <3>2. QED BY <3>1
  <2>5. f \in Injection(0..(k - 1), Others(p))
    <3>1. f \in [0..(k - 1) -> Others(p)]
      BY <2>4
    <3>2. ASSUME NEW i \in 0..(k - 1), NEW j \in 0..(k - 1), f[i] = f[j] PROVE i = j
      <4>1. Candidate(b, i) = Candidate(b, j)
        BY <2>4, <3>2
      <4>2. QED BY <4>1, <2>1, <2>3, CandidatesDiffer
    <3> HIDE DEF f
    <3>3. QED BY <3>1, <3>2, Fun_IsInj
  <2>6. IsFiniteSet(Others(p))
    BY <1>1, FS_Subset DEF IInv, Others
  <2>7. Cardinality(0..(k - 1)) <= Cardinality(Others(p))
    <3> HIDE DEF f
    <3>1. QED BY <2>5, <2>6, FS_Injection
  <2>8. Cardinality(0..(k - 1)) = k
    BY <2>1, FS_Interval
  <2>9. QED BY <2>7, <2>8
<1>2. QED BY <1>1, Invariant, PTL

=============================================================================
