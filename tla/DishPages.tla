------------------------------ MODULE DishPages ------------------------------
(***************************************************************************)
(* An owner's client that walks the pages of a dish list while dishes are  *)
(* created, changed and deleted.                                           *)
(*                                                                         *)
(* A page is two SELECTs with the same filters: the number of matching     *)
(* rows, and LIMIT rows from OFFSET of the sorted ones.  Nothing ties them *)
(* to each other, nor a page to the next: an offset counts rows of a list  *)
(* that may have shifted.                                                  *)
(*                                                                         *)
(* A dish is its place in the order and whether the filters match it:      *)
(* deleting it, hiding it and every other change of a filtered column come *)
(* to the same.  The client is external; it asks for the next offset while *)
(* the page says that there is more.                                       *)
(***************************************************************************)
EXTENDS Integers, FiniteSets

CONSTANTS
    Walk,       \* walks through the list
    Dish,       \* ids
    Position,   \* bound: values of the column position
    PageSize,   \* bound: limits asked for
    MaxChanges, \* bound: changes of dishes that exist
    Absent

ASSUME PagesBounds ==
    Position \subseteq Nat /\ PageSize \subseteq Nat \ {0} /\ MaxChanges \in Nat

ASSUME DishAssumption == IsFiniteSet(Dish)

VARIABLES
    dish,     \* dish[d]: the row, Absent without one
    changes,  \* number of changes so far
    walk      \* walk[w]: the walk w

pagesVars == <<dish, changes, walk>>

\* `born` orders created_at.
Row == [pos: Position, born: 1..Cardinality(Dish), listed: BOOLEAN]

\* No row is mistaken for the absence of one.
ASSUME AbsentAssumption == Absent \notin Row

\* `seen`: the dishes of the pages so far; `twice`, some dish was on two of them.
\* History: `steady`, the dishes listed since the beginning that nothing has touched;
\* `left`, a dish has left its place in the list; `came`, one has come to a place in
\* it; `late`, one has come between the last count and its page.
Client == [at: {"idle", "count", "page", "ended"}, limit: PageSize \cup {Absent},
           offset: Nat, total: Nat, seen: SUBSET Dish, twice: BOOLEAN,
           steady: SUBSET Dish, left: BOOLEAN, came: BOOLEAN, late: BOOLEAN]

NoClient == [at |-> "idle", limit |-> Absent, offset |-> 0, total |-> 0, seen |-> {},
             twice |-> FALSE, steady |-> {}, left |-> FALSE, came |-> FALSE, late |-> FALSE]

PagesTypeOK ==
    /\ dish \in [Dish -> Row \cup {Absent}]
    /\ changes \in 0..MaxChanges
    /\ walk \in [Walk -> Client]
    /\ \A w \in Walk : \* what a client is told is about rows there can be
         /\ walk[w].total <= Cardinality(Dish)
         /\ walk[w].offset > 0 /\ walk[w].at \in {"count", "page"}
              => walk[w].offset < Cardinality(Dish)

PagesInit ==
    /\ dish = [d \in Dish |-> Absent]
    /\ changes = 0
    /\ walk = [w \in Walk |-> NoClient]

----------------------------------------------------------------------------
(* DishRepository.list_dishes and PaginatedResponse *)

\* The rows the filters of both queries match.
Listed == {d \in Dish : dish[d] # Absent /\ dish[d].listed}

\* ORDER BY position ASC, created_at DESC.
Before(d, e) ==
    \/ dish[d].pos < dish[e].pos
    \/ dish[d].pos = dish[e].pos /\ dish[d].born > dish[e].born

\* The number of rows sorted before d.
Rank(rows, d) == Cardinality({e \in rows : Before(e, d)})

\* Faulty: the page begins at a row of the page before.
PageOverlapping(offset, limit) ==
    {d \in Listed : offset - 1 <= Rank(Listed, d) /\ Rank(Listed, d) < offset + limit}

\* Faulty: the filters are put on the count only.
PageUnfiltered(offset, limit) ==
    LET rows == {d \in Dish : dish[d] # Absent}
    IN  {d \in rows : offset <= Rank(rows, d) /\ Rank(rows, d) < offset + limit}

\* LIMIT and OFFSET.
Page(offset, limit) ==
    {d \in Listed : offset <= Rank(Listed, d) /\ Rank(Listed, d) < offset + limit}

\* Faulty: a last page that is not full is not announced.
HasMoreFull(offset, limit, total) == offset + limit + limit <= total

\* Faulty: off by one at the end of the list.
HasMoreInclusive(offset, limit, total) == offset + limit <= total

\* has_more
HasMore(offset, limit, total) == offset + limit < total

----------------------------------------------------------------------------
(* The owner's other requests *)

\* Something left its place, or came to one, or both, while w went on.
Shifted(w, d, left, came) ==
    IF walk[w].at \notin {"count", "page"} THEN walk[w]
    ELSE [walk[w] EXCEPT !.steady = @ \ {d}, !.left = @ \/ left, !.came = @ \/ came,
                         !.late = @ \/ (came /\ walk[w].at = "page")]

Shift(d, left, came) == walk' = [w \in Walk |-> Shifted(w, d, left, came)]

CreateDish(d, n, listed) ==
    /\ dish[d] = Absent
    /\ dish' = [dish EXCEPT ![d] =
         [pos |-> n, listed |-> listed, born |-> 1 + Cardinality({e \in Dish : dish[e] # Absent})]]
    /\ Shift(d, FALSE, listed)
    /\ UNCHANGED changes

\* A change of position, or of a column the filters look at (deleted_at too).
ChangeDish(d, n, listed) ==
    /\ changes < MaxChanges
    /\ dish[d] # Absent
    /\ dish' = [dish EXCEPT ![d] = [@ EXCEPT !.pos = n, !.listed = listed]]
    /\ dish' # dish
    /\ Shift(d, dish[d].listed, listed)
    /\ changes' = changes + 1

----------------------------------------------------------------------------
(* The walk *)

\* The first request, for the first page.
BeginWalk(w, limit) ==
    /\ walk[w].at = "idle"
    /\ walk' = [walk EXCEPT ![w] = [NoClient EXCEPT !.at = "count", !.limit = limit,
                                                    !.steady = Listed]]
    /\ UNCHANGED <<dish, changes>>

\* count_query
Count(w) ==
    /\ walk[w].at = "count"
    /\ walk' = [walk EXCEPT ![w] = [@ EXCEPT !.at = "page", !.late = FALSE,
                                             !.total = Cardinality(Listed)]]
    /\ UNCHANGED <<dish, changes>>

\* The page is answered, and the client goes on or has come to the end.
Fetch(w) ==
    LET c == walk[w]
    IN  /\ c.at = "page"
        /\ walk' = [walk EXCEPT ![w] =
             [c EXCEPT !.at = IF HasMore(c.offset, c.limit, c.total) THEN "count" ELSE "ended",
                       !.seen = @ \cup Page(c.offset, c.limit),
                       !.twice = @ \/ c.seen \cap Page(c.offset, c.limit) # {},
                       !.offset = @ + c.limit]]
        /\ UNCHANGED <<dish, changes>>

PagesNext ==
    \/ \E d \in Dish, n \in Position, listed \in BOOLEAN :
         CreateDish(d, n, listed) \/ ChangeDish(d, n, listed)
    \/ \E w \in Walk, limit \in PageSize : BeginWalk(w, limit)
    \/ \E w \in Walk : Count(w) \/ Fetch(w)

PagesSpec == PagesInit /\ [][PagesNext]_pagesVars

----------------------------------------------------------------------------
(* Properties *)

Ended(w) == walk[w].at = "ended"

\* A dish that was listed all along, and never touched, is missing from the pages
\* only when another one left its place before the walk ended, or came to one
\* between the last count and its page.
SteadyMissedOnlyWhenShifted ==
    \A w \in Walk : Ended(w) /\ ~(walk[w].steady \subseteq walk[w].seen)
        => walk[w].left \/ walk[w].late

\* A dish is on two pages only when some dish came to a place in the list during
\* the walk: deletions alone never repeat one.
TwiceOnlyWhenCame == \A w \in Walk : walk[w].twice => walk[w].came

\* When the list stays as it was, the pages together are the list, each dish once,
\* whatever the page size.
QuietWalkIsTheList ==
    \A w \in Walk : Ended(w) /\ ~walk[w].left /\ ~walk[w].came =>
        /\ walk[w].seen = walk[w].steady
        /\ ~walk[w].twice

=============================================================================
