-------------------------------- MODULE Slugs --------------------------------
(***************************************************************************)
(* How a restaurant gets the slug its public menu is reached by: the       *)
(* service turns the name into a base slug, looks slug after slug up until *)
(* one is free, and commits later; only the unique indexes of the table    *)
(* tell whether the one it found still is.                                 *)
(*                                                                         *)
(* A slug is the sequence of its words between hyphens, a word being a     *)
(* number: the numeral 1 is the word 1, so that "casa-1" is both the slug  *)
(* of the name "Casa 1" and the second candidate for the name "Casa".      *)
(* A request is served once.  Updates that leave the name out write none   *)
(* of the columns modelled here, and a request refused at its first check  *)
(* (the owner has a restaurant already, or has none) changes nothing:      *)
(* neither is modelled.                                                    *)
(***************************************************************************)
EXTENDS Naturals, Sequences, FiniteSets

CONSTANTS
    Request,    \* requests to the restaurant endpoints
    Owner,      \* accounts
    Id,         \* primary keys (uuid4)
    Name,       \* names a request may give
    Base,       \* Base[n]: generate_slug(n), the same for several names
    None        \* no row

ASSUME BaseAssumption == Base \in [Name -> Seq(Nat)]

ASSUME NoneAssumption == None \notin Id

VARIABLES
    rows,       \* the table restaurants
    req         \* req[p]: the state of request p

vars == <<rows, req>>

Slug == Seq(Nat)

Row == [id : Id, owner : Owner, name : Name, slug : Slug]

(***************************************************************************)
(* A request: what it asks for, what it loaded (id, oldName, oldSlug) and  *)
(* the number k of the candidate it looks up or has found.                 *)
(* raced is history: another request has committed since this one loaded.  *)
(***************************************************************************)
Req == [pc : {"new", "search", "commit", "delete", "ok", "failed"},
        owner : Owner, name : Name, k : Nat, id : Id \cup {None},
        oldName : Name, oldSlug : Slug, raced : BOOLEAN]

TypeOK ==
    /\ rows \subseteq Row
    /\ req \in [Request -> Req]

Init ==
    /\ rows = {}
    /\ req \in [Request -> {[pc |-> "new", owner |-> o, name |-> n, k |-> 0, id |-> None,
                             oldName |-> n, oldSlug |-> Base[n], raced |-> FALSE] :
                            o \in Owner, n \in Name}]

-----------------------------------------------------------------------------
\* The k-th slug a search tries: the base, then base-1, base-2, ...
Candidate(b, k) == IF k = 0 THEN b ELSE Append(b, k)

Wanted(p) == Candidate(Base[req[p].name], req[p].k)

\* The rows a search has to avoid: all but the one it is about, if any.
Others(p) == {r \in rows : r.id # req[p].id}

Taken(p, s) == \E r \in Others(p) : r.slug = s

\* uuid4 is never an identifier anything still refers to.
FreshId == Id \ ({r.id : r \in rows} \cup {req[p].id : p \in Request})

At(p, pc) == req[p].pc = pc

Goto(p, pc) == req' = [req EXCEPT ![p].pc = pc]

\* Request p commits a change of the table: those under way have been overtaken.
CommitAs(p, table) ==
    /\ rows' = table
    /\ req' = [q \in Request |->
                  IF q = p THEN [req[p] EXCEPT !.pc = "ok"]
                  ELSE [req[q] EXCEPT !.raced = TRUE]]

-----------------------------------------------------------------------------
(***************************************************************************)
(* Loading: the check of the owner, or the row the request is about.       *)
(***************************************************************************)
StartCreate(p) ==
    /\ At(p, "new")
    /\ ~ \E r \in rows : r.owner = req[p].owner
    /\ req' = [req EXCEPT ![p].pc = "search", ![p].raced = FALSE]
    /\ UNCHANGED rows

Load(p, pc) ==
    /\ At(p, "new")
    /\ \E r \in rows :
          /\ r.owner = req[p].owner
          /\ req' = [req EXCEPT ![p] =
                        [@ EXCEPT !.pc = pc, !.id = r.id, !.oldName = r.name,
                                  !.oldSlug = r.slug, !.raced = FALSE]]
    /\ UNCHANGED rows

StartUpdate(p) == Load(p, "search")

StartDelete(p) == Load(p, "delete")

\* Mutant: a taken candidate is looked up again.
TryAgain(p) ==
    /\ At(p, "search")
    /\ Taken(p, Wanted(p))
    /\ UNCHANGED vars

\* Mutant: a suffixed candidate is taken to be free.
FoundUnlooked(p) ==
    /\ At(p, "search")
    /\ req[p].k > 0 \/ ~ Taken(p, Wanted(p))
    /\ Goto(p, "commit")
    /\ UNCHANGED rows

(***************************************************************************)
(* The search: one SELECT per candidate, each seeing the last commit.      *)
(***************************************************************************)
TryNext(p) ==
    /\ At(p, "search")
    /\ Taken(p, Wanted(p))
    /\ req' = [req EXCEPT ![p].k = @ + 1]
    /\ UNCHANGED rows

Found(p) ==
    /\ At(p, "search")
    /\ ~ Taken(p, Wanted(p))
    /\ Goto(p, "commit")
    /\ UNCHANGED rows

(***************************************************************************)
(* The commit of a creation: the unique indexes on owner and slug decide.  *)
(***************************************************************************)
InsertFits(p) == \A r \in rows : r.owner # req[p].owner /\ r.slug # Wanted(p)

Insert(p) ==
    /\ At(p, "commit")
    /\ req[p].id = None
    /\ InsertFits(p)
    /\ \E i \in FreshId :
          CommitAs(p, rows \cup {[id |-> i, owner |-> req[p].owner,
                                  name |-> req[p].name, slug |-> Wanted(p)]})

RefuseInsert(p) ==
    /\ At(p, "commit")
    /\ req[p].id = None
    /\ ~ InsertFits(p)
    /\ Goto(p, "failed")
    /\ UNCHANGED rows

(***************************************************************************)
(* The commit of an update writes the columns whose value differs from the *)
(* one loaded, and no other; it fails when the row is gone, or when the    *)
(* slug it writes is another row's by now.                                 *)
(***************************************************************************)
Updated(p, r) ==
    [r EXCEPT !.name = IF req[p].name # req[p].oldName THEN req[p].name ELSE @,
              !.slug = IF Wanted(p) # req[p].oldSlug THEN Wanted(p) ELSE @]

UpdateFits(p, r) ==
    /\ r.id = req[p].id
    /\ Taken(p, Wanted(p)) => Wanted(p) = req[p].oldSlug

Update(p) ==
    /\ At(p, "commit")
    /\ \E r \in rows :
          /\ UpdateFits(p, r)
          /\ CommitAs(p, Others(p) \cup {Updated(p, r)})

RefuseUpdate(p) ==
    /\ At(p, "commit")
    /\ req[p].id # None
    /\ ~ \E r \in rows : UpdateFits(p, r)
    /\ Goto(p, "failed")
    /\ UNCHANGED rows

\* Deleting a row that is gone already changes nothing and is no error.
Delete(p) ==
    /\ At(p, "delete")
    /\ CommitAs(p, Others(p))

Step(p) ==
    \/ TryNext(p) \/ Found(p)
    \/ Insert(p) \/ RefuseInsert(p)
    \/ Update(p) \/ RefuseUpdate(p)
    \/ Delete(p)

Next == \E p \in Request : StartCreate(p) \/ StartUpdate(p) \/ StartDelete(p) \/ Step(p)

Spec == Init /\ [][Next]_vars

\* A request that has begun is served to its end by the event loop.
FairSpec == Spec /\ \A p \in Request : WF_vars(Step(p))

-----------------------------------------------------------------------------
Active(p) == req[p].pc \in {"search", "commit"}

\* A slug is the slug of one restaurant, and an owner has one restaurant: the
\* search looks before the commit, so the indexes have to hold it at the commit.
OneRestaurantPerSlug ==
    \A r, s \in rows : r.slug = s.slug \/ r.owner = s.owner \/ r.id = s.id => r = s

\* A search during which nobody else committed has found a slug its commit can
\* write, whatever names share a base: with no race, no restaurant is refused.
QuietSearchSucceeds ==
    \A p \in Request :
        At(p, "commit") /\ ~req[p].raced =>
            IF req[p].id = None THEN InsertFits(p) ELSE \E r \in rows : UpdateFits(p, r)

\* The loop of _ensure_unique_slug has no bound of its own: with no race, it
\* looks up one candidate more than there are other restaurants, at most.
QuietSearchIsShort ==
    \A p \in Request : Active(p) /\ ~req[p].raced => req[p].k <= Cardinality(Others(p))

\* Every request that has begun is answered: no race keeps a search going.
RequestsEnd ==
    \A p \in Request : At(p, "search") ~> req[p].pc \in {"ok", "failed"}

=============================================================================
