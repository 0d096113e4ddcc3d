------------------------------ MODULE MenuRead ------------------------------
(***************************************************************************)
(* What a menu that is not in the cache is made of.                        *)
(*                                                                         *)
(* MenuCache reads the content of a restaurant as one version.  Here the   *)
(* reading is what it is: a SELECT of the active categories, then the      *)
(* SELECTs of selectinload for their dishes, Chunk categories at a time,   *)
(* with commits of the owner in between.  Those are single steps here, as  *)
(* Catalog says when they can happen.                                      *)
(*                                                                         *)
(* Positions, names and prices are left out: the order is a sort of the    *)
(* rows that were read.                                                    *)
(***************************************************************************)
EXTENDS Integers, FiniteSets

CONSTANTS
    Category, Dish,  \* ids
    Chunk,           \* categories one SELECT of selectinload asks for: 500
    MaxWrites,       \* bound: commits of the owner
    Absent

ASSUME ReadBounds == Chunk \in Nat \ {0} /\ MaxWrites \in Nat

VARIABLES
    category,  \* category[c]: the row, Absent without one
    dish,      \* dish[d]: the row, Absent without one
    writes,    \* commits so far
    read       \* the menu request

readVars == <<category, dish, writes, read>>

CategoryRow == [active: BOOLEAN]

DishRow == [cat: Category, available: BOOLEAN, deleted: BOOLEAN]

\* `cats`: the categories of the first SELECT; `loaded`: what selectinload has
\* loaded of each that the filter lets through, Absent before; `menu`: the answer, {}
\* for a category that is left out.  History: `steady`, the dishes on the menu when
\* the request began that nothing has taken off or moved; `gone`, the dishes that
\* were deleted by then.
Request == [at: {"idle", "categories", "dishes", "answered"},
            cats: SUBSET Category, loaded: [Category -> (SUBSET Dish) \cup {Absent}],
            menu: [Category -> SUBSET Dish], steady: SUBSET Dish, gone: SUBSET Dish]

NoRequest == [at |-> "idle", cats |-> {}, loaded |-> [c \in Category |-> Absent],
              menu |-> [c \in Category |-> {}], steady |-> {}, gone |-> {}]

\* A row, or what was loaded, is never mistaken for the absence of it.
ASSUME AbsentAssumption ==
    /\ Absent \notin CategoryRow /\ Absent \notin DishRow
    /\ \A loaded \in SUBSET Dish : loaded # Absent

ReadTypeOK ==
    /\ category \in [Category -> CategoryRow \cup {Absent}]
    /\ dish \in [Dish -> DishRow \cup {Absent}]
    /\ writes \in 0..MaxWrites
    /\ read \in Request
    /\ \A c \in Category : \* dishes are of categories that were read
         read.loaded[c] # Absent => c \in read.cats

ReadInit ==
    /\ category \in [Category -> CategoryRow]
    /\ dish \in [Dish -> DishRow]
    /\ writes = 0
    /\ read = NoRequest

----------------------------------------------------------------------------
(* The owner's commits *)

\* On the menu as the database has it.
OnMenu(d) == dish[d] # Absent /\ dish[d].available /\ ~dish[d].deleted
             /\ category[dish[d].cat].active

\* A commit, and what is still steady after it.
OwnerWrite ==
    /\ writes < MaxWrites
    /\ writes' = writes + 1
    /\ read' = [read EXCEPT !.steady = {d \in @ : dish'[d] = dish[d]
                                                /\ category'[dish[d].cat] = category[dish[d].cat]}]

\* (De)activation of a category.
SwitchCategory(c) ==
    /\ category[c] # Absent
    /\ category' = [category EXCEPT ![c].active = ~@]
    /\ UNCHANGED dish
    /\ OwnerWrite

DropCategory(c) ==
    /\ category[c] # Absent
    /\ category' = [category EXCEPT ![c] = Absent]
    /\ dish' = [d \in Dish |-> IF dish[d] # Absent /\ dish[d].cat = c THEN Absent ELSE dish[d]]
    /\ OwnerWrite

\* A move, a change of availability or both; also of a deleted dish, by a request
\* that had loaded it before.
ChangeDish(d, c, available) ==
    /\ dish[d] # Absent
    /\ category[c] # Absent
    /\ dish' = [dish EXCEPT ![d] = [@ EXCEPT !.cat = c, !.available = available]]
    /\ dish' # dish
    /\ UNCHANGED category
    /\ OwnerWrite

DeleteDish(d) ==
    /\ dish[d] # Absent
    /\ ~dish[d].deleted
    /\ dish' = [dish EXCEPT ![d].deleted = TRUE]
    /\ UNCHANGED category
    /\ OwnerWrite

----------------------------------------------------------------------------
(* MenuService.get_menu_by_slug, past the cache *)

\* The restaurant is found by its slug.
Begin ==
    /\ read.at = "idle"
    /\ read' = [read EXCEPT !.at = "categories", !.steady = {d \in Dish : OnMenu(d)},
                            !.gone = {d \in Dish : dish[d] # Absent /\ dish[d].deleted}]
    /\ UNCHANGED <<category, dish, writes>>

\* The SELECT of the active categories.
ReadCategories ==
    /\ read.at = "categories"
    /\ read' = [read EXCEPT !.at = "dishes",
                  !.cats = {c \in Category : category[c] # Absent /\ category[c].active}]
    /\ UNCHANGED <<category, dish, writes>>

\* Faulty: the categories that were not active are loaded too.
MissingAny == {c \in Category : read.loaded[c] = Absent}

Missing == {c \in read.cats : read.loaded[c] = Absent}

\* The categories the next SELECT of selectinload asks for.
Chunks ==
    {S \in SUBSET Missing :
        S # {} /\ (S = Missing \/ Cardinality(S) = Chunk) /\ Cardinality(S) <= Chunk}

\* Faulty: deleted dishes are not left out.
VisibleInDeleted(c) == {d \in Dish : dish[d] # Absent /\ dish[d].cat = c /\ dish[d].available}

\* dish.available and dish.deleted_at is None, of the rows as they were loaded.
VisibleIn(c) ==
    {d \in Dish : /\ dish[d] # Absent
                  /\ dish[d].cat = c
                  /\ dish[d].available
                  /\ ~dish[d].deleted}

LoadDishes ==
    /\ read.at = "dishes"
    /\ \E S \in Chunks :
         read' = [read EXCEPT !.loaded = [c \in Category |-> IF c \in S THEN VisibleIn(c) ELSE @[c]]]
    /\ UNCHANGED <<category, dish, writes>>

\* Faulty: a category is left out when one of its dishes is not available.
KeptFull(c) ==
    c \in read.cats /\ read.loaded[c] = {d \in Dish : dish[d] # Absent /\ dish[d].cat = c}

\* Only categories with a dish to show are included.
Kept(c) == c \in read.cats /\ read.loaded[c] # {}

Answer ==
    /\ read.at = "dishes"
    /\ Missing = {}
    /\ read' = [read EXCEPT !.at = "answered",
                  !.menu = [c \in Category |-> IF Kept(c) THEN read.loaded[c] ELSE {}]]
    /\ UNCHANGED <<category, dish, writes>>

ReadNext ==
    \/ \E c \in Category : SwitchCategory(c) \/ DropCategory(c)
    \/ \E d \in Dish, c \in Category, available \in BOOLEAN : ChangeDish(d, c, available)
    \/ \E d \in Dish : DeleteDish(d)
    \/ Begin
    \/ ReadCategories
    \/ LoadDishes
    \/ Answer

ReadSpec == ReadInit /\ [][ReadNext]_readVars

----------------------------------------------------------------------------
(* Properties *)

\* A dish that was to be seen when the request began, and that no one has touched,
\* nor its category, is on the menu, whatever changes around it.
SteadyDishesShown ==
    read.at = "answered" => read.steady \subseteq UNION {read.menu[c] : c \in Category}

\* A dish whose deletion was committed before the request began is not on the
\* menu, also if a stale update or a move of it comes later.
DeletedNotShown == \A c \in Category : read.menu[c] \cap read.gone = {}

=============================================================================
