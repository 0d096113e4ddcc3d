------------------------------- MODULE Catalog -------------------------------
(***************************************************************************)
(* Restaurants, their categories and their dishes, as the admin services   *)
(* change them.                                                            *)
(*                                                                         *)
(* Every operation checks first (does the row exist, is it the caller's,   *)
(* where does a new row go) and commits later, with awaits in between and  *)
(* no row locked: the rows may have changed or gone when the commit runs.  *)
(* What the commit then does is up to the constraints of the database and  *)
(* to the unit of work of the ORM, which updates, by id, the columns whose *)
(* value differs from the one it loaded, and fails when the row has gone.  *)
(* An action is what happens between two awaits that other requests can    *)
(* tell apart; parents never change (restaurant_id and owner_user_id are   *)
(* written once), so a row and the owner above it are read in one step.    *)
(*                                                                         *)
(* Of a category or a dish only the columns that operations read are kept; *)
(* position stands for the others, which are written in the same way.      *)
(***************************************************************************)
EXTENDS Integers, FiniteSetsExt

CONSTANTS
    Request,     \* admin requests in flight at once, in whichever process
    User,
    Restaurant, Category, Dish,  \* ids
    Position,    \* bound: values of the column position
    None

ASSUME PositionAssumption == Position \in SUBSET Int

VARIABLES
    restaurant,  \* restaurant[r]: owner_user_id of the row, None without a row
    category,    \* category[c]: the row of categories
    dish,        \* dish[d]: the row of dishes
    req          \* req[p]: the request p

vars == <<restaurant, category, dish, req>>

CategoryRow == [rest: Restaurant, pos: Position]

DishRow == [cat: Category, pos: Position, available: BOOLEAN, deleted: BOOLEAN]

\* The columns a request is going to write, None for those it leaves alone
\* (deleted_at is only ever set).
Columns == [cat: Category \cup {None}, pos: Position \cup {None},
            available: BOOLEAN \cup {None}, deleted: BOOLEAN]

NoColumns == [cat |-> None, pos |-> None, available |-> None, deleted |-> FALSE]

\* Places asked by a reorder: ordered_ids may leave categories out, and may
\* repeat one, whose last place counts.
Order == {o \in [Category -> Position \cup {None}] :
            \A c, e \in Category : o[c] = o[e] /\ o[c] # None => c = e}

NoOrder == [c \in Category |-> None]

Stage == {"idle", "insertRestaurant", "dropRestaurant", "insertCategory",
          "writeCategory", "checkCategory", "loadDishes", "dropCategory",
          "reorder", "insertDish", "verifyMove", "writeDish", "toggleDish"}

\* `snap`: dishes loaded to be deleted with their category.  `late` is history:
\* dishes put into the category since it was checked for active ones.
Call == [at: Stage, user: User \cup {None}, rest: Restaurant \cup {None},
         cat: Category \cup {None}, dish: Dish \cup {None}, set: Columns,
         order: Order, snap: SUBSET Dish, late: SUBSET Dish]

NoCall == [at |-> "idle", user |-> None, rest |-> None, cat |-> None, dish |-> None,
           set |-> NoColumns, order |-> NoOrder, snap |-> {}, late |-> {}]

ASSUME NoneAssumption ==
    /\ None \notin User \cup Restaurant \cup Category \cup Dish
    /\ None \notin Position
    /\ None \notin BOOLEAN
    /\ None \notin CategoryRow \cup DishRow

TypeOK ==
    /\ restaurant \in [Restaurant -> User \cup {None}]
    /\ category \in [Category -> CategoryRow \cup {None}]
    /\ dish \in [Dish -> DishRow \cup {None}]
    /\ req \in [Request -> Call]

Init ==
    /\ restaurant = [r \in Restaurant |-> None]
    /\ category = [c \in Category |-> None]
    /\ dish = [d \in Dish |-> None]
    /\ req = [p \in Request |-> NoCall]

----------------------------------------------------------------------------
(* The repositories *)

RestaurantsOf(u) == {r \in Restaurant : restaurant[r] = u}

CategoriesOf(r) == {c \in Category : category[c] # None /\ category[c].rest = r}

DishesIn(c) == {d \in Dish : dish[d] # None /\ dish[d].cat = c}

ActiveIn(c) == {d \in DishesIn(c) : ~dish[d].deleted}

RestaurantOf(d) == category[dish[d].cat].rest

\* _verify_restaurant_ownership, _verify_category_ownership, get_dish: the row
\* exists and its restaurant is the caller's (404 or 403 otherwise).
OwnsCategory(u, c) == category[c] # None /\ restaurant[category[c].rest] = u

OwnsDish(u, d) ==
    dish[d] # None /\ ~dish[d].deleted /\ OwnsCategory(u, dish[d].cat)

\* get_next_position, of a category and of a dish: (max_position or -1) + 1,
\* where a maximum of 0 counts as no maximum.
NextPosition(taken) ==
    IF taken = {} \/ Max(taken) = 0 THEN 0 ELSE Max(taken) + 1

\* The value of a column to write: None when it is the one that was loaded.
Changed(old, new) == IF new = old THEN None ELSE new

Written(old, new) == IF new = None THEN old ELSE new

\* uuid4: an id no row has and no request knows.
FreshRestaurant(r) ==
    restaurant[r] = None /\ \A p \in Request : req[p].rest # r

FreshCategory(c) ==
    /\ category[c] = None
    /\ \A p \in Request : req[p].cat # c /\ req[p].set.cat # c /\ req[p].order[c] = None

FreshDish(d) ==
    /\ dish[d] = None
    /\ \A p \in Request : req[p].dish # d /\ d \notin req[p].snap \cup req[p].late

Begin(p, call) == req[p].at = "idle" /\ req' = [req EXCEPT ![p] = call]

End(p) == req' = [req EXCEPT ![p] = NoCall]

\* End, when d is put into c.
EndPutting(p, d, c) ==
    req' = [q \in Request |->
              IF q = p THEN NoCall
              ELSE IF req[q].at \in {"loadDishes", "dropCategory"} /\ req[q].cat = c
              THEN [req[q] EXCEPT !.late = @ \cup {d}] ELSE req[q]]

----------------------------------------------------------------------------
(* RestaurantService *)

\* create finds no restaurant of the user (one that is there answers 409).
CreateRestaurant(p, u) ==
    /\ RestaurantsOf(u) = {}
    /\ Begin(p, [NoCall EXCEPT !.at = "insertRestaurant", !.user = u])
    /\ UNCHANGED <<restaurant, category, dish>>

\* The row is committed, if the unique index of owner_user_id lets it.
InsertRestaurant(p, r) ==
    /\ req[p].at = "insertRestaurant"
    /\ FreshRestaurant(r)
    /\ RestaurantsOf(req[p].user) = {}
    /\ restaurant' = [restaurant EXCEPT ![r] = req[p].user]
    /\ End(p)
    /\ UNCHANGED <<category, dish>>

\* delete finds the restaurant of the user.
DeleteRestaurant(p, u, r) ==
    /\ restaurant[r] = u
    /\ Begin(p, [NoCall EXCEPT !.at = "dropRestaurant", !.user = u, !.rest = r])
    /\ UNCHANGED <<restaurant, category, dish>>

\* The row goes, and with it, by ON DELETE CASCADE, its categories and their
\* dishes: those the unit of work has loaded and those it has not.
DropRestaurant(p) ==
    LET r == req[p].rest
    IN  /\ req[p].at = "dropRestaurant"
        /\ restaurant' = [restaurant EXCEPT ![r] = None]
        /\ category' = [c \in Category |-> IF c \in CategoriesOf(r) THEN None ELSE category[c]]
        /\ dish' = [d \in Dish |-> IF dish[d] # None /\ RestaurantOf(d) = r
                                   THEN None ELSE dish[d]]
        /\ End(p)

----------------------------------------------------------------------------
(* CategoryService *)

\* create finds the restaurant of the user, and computes a position.
CreateCategory(p, u, r) ==
    LET n == NextPosition({category[c].pos : c \in CategoriesOf(r)})
    IN  /\ restaurant[r] = u
        /\ n \in Position
        /\ Begin(p, [NoCall EXCEPT !.at = "insertCategory", !.user = u, !.rest = r,
                                   !.set = [NoColumns EXCEPT !.pos = n]])
        /\ UNCHANGED <<restaurant, category, dish>>

\* The row is committed, if its restaurant still is there (foreign key).
InsertCategory(p, c) ==
    /\ req[p].at = "insertCategory"
    /\ FreshCategory(c)
    /\ restaurant[req[p].rest] # None
    /\ category' = [category EXCEPT ![c] = [rest |-> req[p].rest, pos |-> req[p].set.pos]]
    /\ End(p)
    /\ UNCHANGED <<restaurant, dish>>

\* update loads the category and is given a position.
UpdateCategory(p, u, c, n) ==
    /\ OwnsCategory(u, c)
    /\ Begin(p, [NoCall EXCEPT !.at = "writeCategory", !.user = u, !.cat = c,
                               !.set = [NoColumns EXCEPT !.pos = Changed(category[c].pos, n)]])
    /\ UNCHANGED <<restaurant, category, dish>>

WriteCategory(p) ==
    LET c == req[p].cat
    IN  /\ req[p].at = "writeCategory"
        /\ category[c] # None
        /\ category' = [category EXCEPT ![c] =
                          [rest |-> category[c].rest,
                           pos |-> Written(category[c].pos, req[p].set.pos)]]
        /\ End(p)
        /\ UNCHANGED <<restaurant, dish>>

\* delete loads the category.
DeleteCategory(p, u, c) ==
    /\ OwnsCategory(u, c)
    /\ Begin(p, [NoCall EXCEPT !.at = "checkCategory", !.user = u, !.cat = c])
    /\ UNCHANGED <<restaurant, category, dish>>

\* Faulty: the dishes of the category are not looked at.
CheckNothing(p) ==
    /\ req[p].at = "checkCategory"
    /\ req' = [req EXCEPT ![p].at = "loadDishes"]
    /\ UNCHANGED <<restaurant, category, dish>>

\* has_active_dishes counts none (409 otherwise).
CheckNoActiveDish(p) ==
    /\ req[p].at = "checkCategory"
    /\ ActiveIn(req[p].cat) = {}
    /\ req' = [req EXCEPT ![p].at = "loadDishes"]
    /\ UNCHANGED <<restaurant, category, dish>>

\* The delete cascade of Category.dishes loads the dishes there are by now.
LoadDishes(p) ==
    /\ req[p].at = "loadDishes"
    /\ req' = [req EXCEPT ![p].at = "dropCategory", ![p].snap = DishesIn(req[p].cat)]
    /\ UNCHANGED <<restaurant, category, dish>>

\* The loaded dishes go, by id, wherever they are now, then the category, and
\* by ON DELETE CASCADE the dishes it has gained meanwhile.
DropCategory(p) ==
    LET c == req[p].cat
    IN  /\ req[p].at = "dropCategory"
        /\ category' = [category EXCEPT ![c] = None]
        /\ dish' = [d \in Dish |-> IF d \in req[p].snap \cup DishesIn(c)
                                   THEN None ELSE dish[d]]
        /\ End(p)
        /\ UNCHANGED restaurant

\* reorder finds the restaurant of the user and every listed category in it
\* (400 otherwise).
ReorderCategories(p, u, r, o) ==
    /\ restaurant[r] = u
    /\ o # NoOrder
    /\ \A c \in Category : o[c] # None => c \in CategoriesOf(r)
    /\ Begin(p, [NoCall EXCEPT !.at = "reorder", !.user = u, !.rest = r, !.order = o])
    /\ UNCHANGED <<restaurant, category, dish>>

\* reorder_categories: one UPDATE per listed category, in one transaction.
Reorder(p) ==
    /\ req[p].at = "reorder"
    /\ category' = [c \in Category |->
                      IF c \in CategoriesOf(req[p].rest)
                      THEN [rest |-> category[c].rest,
                            pos |-> Written(category[c].pos, req[p].order[c])]
                      ELSE category[c]]
    /\ End(p)
    /\ UNCHANGED <<restaurant, dish>>

----------------------------------------------------------------------------
(* DishService *)

\* create verifies the category and computes a position among its dishes that
\* are not deleted.
CreateDish(p, u, c, available) ==
    LET n == NextPosition({dish[d].pos : d \in ActiveIn(c)})
    IN  /\ OwnsCategory(u, c)
        /\ n \in Position
        /\ Begin(p, [NoCall EXCEPT !.at = "insertDish", !.user = u, !.cat = c,
                                   !.set = [NoColumns EXCEPT !.pos = n, !.available = available]])
        /\ UNCHANGED <<restaurant, category, dish>>

\* The row is committed, if its category still is there (foreign key).
InsertDish(p, d) ==
    LET c == req[p].cat
    IN  /\ req[p].at = "insertDish"
        /\ FreshDish(d)
        /\ category[c] # None
        /\ dish' = [dish EXCEPT ![d] =
                      [cat |-> c, pos |-> req[p].set.pos,
                       available |-> req[p].set.available, deleted |-> FALSE]]
        /\ EndPutting(p, d, c)
        /\ UNCHANGED <<restaurant, category>>

\* update loads the dish, and is given a position, an availability or both.
UpdateDish(p, u, d, n, b) ==
    /\ OwnsDish(u, d)
    /\ Begin(p, [NoCall EXCEPT !.at = "writeDish", !.user = u, !.dish = d,
                               !.set = [NoColumns EXCEPT
                                          !.pos = Changed(dish[d].pos, n),
                                          !.available = Changed(dish[d].available, b)]])
    /\ UNCHANGED <<restaurant, category, dish>>

\* update loads the dish, and is given a category, and the other columns or not.
MoveDish(p, u, d, c, n, b) ==
    /\ OwnsDish(u, d)
    /\ Begin(p, [NoCall EXCEPT !.at = "verifyMove", !.user = u, !.dish = d, !.cat = c,
                               !.set = [NoColumns EXCEPT
                                          !.cat = Changed(dish[d].cat, c),
                                          !.pos = Changed(dish[d].pos, n),
                                          !.available = Changed(dish[d].available, b)]])
    /\ UNCHANGED <<restaurant, category, dish>>

\* Faulty: whose category it is does not matter.
VerifyNothing(p) ==
    /\ req[p].at = "verifyMove"
    /\ category[req[p].cat] # None
    /\ req' = [req EXCEPT ![p].at = "writeDish"]
    /\ UNCHANGED <<restaurant, category, dish>>

\* The new category is the user's too (404 or 403 otherwise).
VerifyMove(p) ==
    /\ req[p].at = "verifyMove"
    /\ OwnsCategory(req[p].user, req[p].cat)
    /\ req' = [req EXCEPT ![p].at = "writeDish"]
    /\ UNCHANGED <<restaurant, category, dish>>

\* delete loads the dish; deleted_at is going to be set.
DeleteDish(p, u, d) ==
    /\ OwnsDish(u, d)
    /\ Begin(p, [NoCall EXCEPT !.at = "writeDish", !.user = u, !.dish = d,
                               !.set = [NoColumns EXCEPT !.deleted = TRUE]])
    /\ UNCHANGED <<restaurant, category, dish>>

\* toggle_availability loads the dish and negates what it loaded.
ToggleAvailability(p, u, d) ==
    /\ OwnsDish(u, d)
    /\ Begin(p, [NoCall EXCEPT !.at = "toggleDish", !.user = u, !.dish = d,
                               !.set = [NoColumns EXCEPT !.available = ~dish[d].available]])
    /\ UNCHANGED <<restaurant, category, dish>>

\* Faulty: every column is written, deleted_at included.
NewDishRowWhole(old, set) ==
    [cat |-> Written(old.cat, set.cat), pos |-> Written(old.pos, set.pos),
     available |-> Written(old.available, set.available), deleted |-> set.deleted]

NewDishRow(old, set) ==
    [cat |-> Written(old.cat, set.cat), pos |-> Written(old.pos, set.pos),
     available |-> Written(old.available, set.available),
     deleted |-> old.deleted \/ set.deleted]

\* update, soft_delete, toggle_availability: the changed columns are committed,
\* also to a row deleted meanwhile, if a new category is still there.
WriteDish(p) ==
    LET d == req[p].dish
        set == req[p].set
    IN  /\ req[p].at \in {"writeDish", "toggleDish"}
        /\ dish[d] # None
        /\ set.cat # None => category[set.cat] # None
        /\ dish' = [dish EXCEPT ![d] = NewDishRow(dish[d], set)]
        /\ IF set.cat = None THEN End(p) ELSE EndPutting(p, d, set.cat)
        /\ UNCHANGED <<restaurant, category>>

----------------------------------------------------------------------------

\* A check fails, a constraint refuses the commit, the row to update has gone,
\* the connection or the process breaks: the transaction is rolled back.
Abort(p) ==
    /\ req[p].at # "idle"
    /\ End(p)
    /\ UNCHANGED <<restaurant, category, dish>>

\* POST and DELETE of /api/v1/admin/restaurant.
StartRestaurant(p, u) ==
    \/ CreateRestaurant(p, u)
    \/ \E r \in Restaurant : DeleteRestaurant(p, u, r)

\* POST, PUT, DELETE and PATCH (reorder) of /api/v1/admin/categories.
StartCategory(p, u) ==
    \/ \E r \in Restaurant : CreateCategory(p, u, r)
    \/ \E c \in Category, n \in Position : UpdateCategory(p, u, c, n)
    \/ \E c \in Category : DeleteCategory(p, u, c)
    \/ \E r \in Restaurant, o \in Order : ReorderCategories(p, u, r, o)

\* POST, PUT, DELETE and PATCH (availability) of /api/v1/admin/dishes.
StartDish(p, u) ==
    \/ \E c \in Category, available \in BOOLEAN : CreateDish(p, u, c, available)
    \/ \E d \in Dish, n \in Position, b \in BOOLEAN : UpdateDish(p, u, d, n, b)
    \/ \E d \in Dish, c \in Category, n \in Position, b \in BOOLEAN :
         MoveDish(p, u, d, c, n, b)
    \/ \E d \in Dish : DeleteDish(p, u, d) \/ ToggleAvailability(p, u, d)

Start(p, u) == StartRestaurant(p, u) \/ StartCategory(p, u) \/ StartDish(p, u)

Step(p) ==
    \/ \E r \in Restaurant : InsertRestaurant(p, r)
    \/ \E c \in Category : InsertCategory(p, c)
    \/ \E d \in Dish : InsertDish(p, d)
    \/ DropRestaurant(p)
    \/ WriteCategory(p)
    \/ CheckNoActiveDish(p)
    \/ LoadDishes(p)
    \/ DropCategory(p)
    \/ Reorder(p)
    \/ VerifyMove(p)
    \/ WriteDish(p)
    \/ Abort(p)

Next ==
    \/ \E p \in Request, u \in User : Start(p, u)
    \/ \E p \in Request : Step(p)

Spec == Init /\ [][Next]_vars

----------------------------------------------------------------------------
(* Properties *)

\* No row outlives its parent: every category is of a restaurant that exists and
\* every dish of a category that exists, however creations, moves and deletions
\* overlap.
References ==
    /\ \A c \in Category : category[c] # None => restaurant[category[c].rest] # None
    /\ \A d \in Dish : dish[d] # None => category[dish[d].cat] # None

\* A user has one restaurant at most, although create checks in one statement
\* and inserts in another.
OneRestaurantPerOwner ==
    \A r, s \in Restaurant : restaurant[r] # None /\ restaurant[r] = restaurant[s] => r = s

\* What a user has: the restaurant, its categories and their dishes.
Holding(u) ==
    LET cats == {c \in Category : OwnsCategory(u, c)}
    IN  <<RestaurantsOf(u), [c \in cats |-> category[c]],
          [d \in UNION {DishesIn(c) : c \in cats} |-> dish[d]]>>

\* What a user has changes only by a request of that user: ownership is verified
\* some awaits before the commit, and still is what it was.
TenantIsolation ==
    [][\A u \in User : Holding(u)' # Holding(u) =>
         \E p \in Request : req[p].user = u /\ req'[p] # req[p]]_vars

\* A dish never leaves the restaurant it was created in, although update only
\* verifies that the new category is of some restaurant of the same user.
DishStaysInRestaurant ==
    [][\A d \in Dish : dish[d] # None /\ dish'[d] # None
                        => RestaurantOf(d)' = RestaurantOf(d)]_vars

\* A deleted dish stays deleted: an update or a toggle that loaded it before
\* does not bring it back.
DeletedStaysDeleted ==
    [][\A d \in Dish : dish[d] # None /\ dish[d].deleted /\ dish'[d] # None
                        => dish'[d].deleted]_vars

\* An active dish goes with its restaurant only, or with a category it was put
\* into after the check for active dishes.
OnlyLateDishesLost ==
    [][\A d \in Dish : dish[d] # None /\ ~dish[d].deleted /\ dish'[d] = None =>
         \/ restaurant'[RestaurantOf(d)] = None
         \/ \E p \in Request : req[p].at = "dropCategory" /\ d \in req[p].late]_vars

\* category_repo.py:92 "Get the next available position for a new category.":
\* the position computed is not one a category of the restaurant has.  (With one
\* request at a time nothing can have changed since.)
PositionAvailable ==
    \A p \in Request : req[p].at = "insertCategory" =>
        \A c \in CategoriesOf(req[p].rest) : category[c].pos # req[p].set.pos

=============================================================================
