--------------------------- MODULE CatalogProofs ---------------------------
(***************************************************************************)
(* Theorems about Catalog, for any number of requests, users, restaurants, *)
(* categories and dishes.                                                  *)
(*                                                                         *)
(* The rows are kept in order by the constraints of the database, whatever *)
(* the requests do.  That a dish stays in its restaurant takes more: what  *)
(* a request verified about the dish and about its new category must still *)
(* hold when it commits, although neither row is locked.  It does because  *)
(* rows evolve in few ways (Evolves): the invariant IInv records what a    *)
(* request knows (CallOK), and a step of another one cannot falsify it.    *)
(***************************************************************************)
EXTENDS Catalog, TLAPS

\* u owns restaurant r, if r is still there.
RestOK(u, r) == restaurant[r] \in {None, u}

\* u owns the restaurant of category c, if c is still there.
CatOK(u, c) == category[c] # None => restaurant[category[c].rest] = u

\* u owns the restaurant of dish d, if d is still there.
DishOK(u, d) == dish[d] # None => restaurant[RestaurantOf(d)] = u

\* The arguments each stage of a request relies on.
Formed(c) ==
    /\ c.at # "idle" => c.user \in User
    /\ c.at \in {"dropRestaurant", "insertCategory", "reorder"} => c.rest \in Restaurant
    /\ c.at \in {"writeCategory", "checkCategory", "loadDishes", "dropCategory",
                 "insertDish", "verifyMove"} => c.cat \in Category
    /\ c.at \in {"insertCategory", "insertDish"} => c.set.pos \in Position
    /\ c.at = "insertDish" => c.set.available \in BOOLEAN
    /\ c.at \in {"verifyMove", "writeDish", "toggleDish"} => c.dish \in Dish
    /\ c.at = "verifyMove" => c.set.cat \in {None, c.cat}

\* What a request has verified about its restaurant, its category and its dishes.
Verified(c) ==
    /\ c.at \in {"dropRestaurant", "insertCategory", "reorder"} => RestOK(c.user, c.rest)
    /\ c.at \in {"writeCategory", "checkCategory", "loadDishes", "dropCategory", "insertDish"} =>
         CatOK(c.user, c.cat)
    /\ c.at = "dropCategory" => \A d \in c.snap : DishOK(c.user, d)
    /\ c.at \in {"verifyMove", "writeDish", "toggleDish"} => DishOK(c.user, c.dish)
    /\ c.at \in {"writeDish", "toggleDish"} /\ c.set.cat # None => CatOK(c.user, c.set.cat)

Rows ==
    /\ restaurant \in [Restaurant -> User \cup {None}]
    /\ category \in [Category -> CategoryRow \cup {None}]
    /\ dish \in [Dish -> DishRow \cup {None}]
    /\ References
    /\ OneRestaurantPerOwner

Calls ==
    /\ req \in [Request -> Call]
    /\ \A p \in Request : Formed(req[p]) /\ Verified(req[p])

IInv == Rows /\ Calls

\* What any step does to the rows.
Evolves ==
    /\ \A r \in Restaurant :
         /\ restaurant[r] = None /\ restaurant'[r] # None => FreshRestaurant(r)
         /\ restaurant[r] # None => restaurant'[r] \in {None, restaurant[r]}
    /\ \A c \in Category :
         /\ category[c] = None /\ category'[c] # None => FreshCategory(c)
         /\ category[c] # None /\ category'[c] # None => category'[c].rest = category[c].rest
    /\ \A d \in Dish :
         /\ dish[d] = None /\ dish'[d] # None => FreshDish(d)
         /\ dish[d] # None /\ dish'[d] # None =>
              /\ category'[dish'[d].cat].rest = RestaurantOf(d)
              /\ dish[d].deleted => dish'[d].deleted

----------------------------------------------------------------------------
(* Records *)

\* The empty call is a call, and knows nothing.
LEMMA NoCallType == NoCall \in Call /\ Formed(NoCall) /\ Verified(NoCall)
<1>1. NoCall \in Call
  BY DEF NoCall, Call, Stage, NoColumns, Columns, NoOrder, Order
<1>2. QED BY <1>1 DEF NoCall, Formed, Verified

----------------------------------------------------------------------------
(* Requests *)

\* A step that leaves the rows alone, and moves one request on.
LEMMA QuietStep ==
    ASSUME IInv, NEW p \in Request, NEW call \in Call, Formed(call), Verified(call),
           req' = [req EXCEPT ![p] = call],
           UNCHANGED <<restaurant, category, dish>>
    PROVE  IInv' /\ Evolves
<1>1. Rows'
  BY DEF IInv, Rows, References, OneRestaurantPerOwner
<1>2. req' \in [Request -> Call]
  BY DEF IInv, Calls
<1>3. ASSUME NEW q \in Request PROVE Formed(req[q])' /\ Verified(req[q])'
  <2>1. req'[q] = call \/ req'[q] = req[q]
    BY DEF IInv, Calls
  <2>2. Formed(req'[q]) /\ Verified(req'[q])
    BY <2>1 DEF IInv, Calls
  <2>3. QED
    BY <2>2 DEF Formed, Verified, DishOK, CatOK, RestOK, RestaurantOf
<1>4. Evolves
  BY DEF IInv, Rows, Evolves, RestaurantOf
<1>5. QED
  BY <1>1, <1>2, <1>3, <1>4 DEF IInv, Calls

\* What a request knows about a row it mentions stays true.
LEMMA KeptRestaurant ==
    ASSUME Evolves, NEW u \in User, NEW r \in Restaurant, ~FreshRestaurant(r), RestOK(u, r)
    PROVE  RestOK(u, r)'
BY DEF Evolves, RestOK

LEMMA KeptCategory ==
    ASSUME IInv, Evolves, Rows', NEW u \in User, NEW c \in Category,
           ~FreshCategory(c), CatOK(u, c)
    PROVE  CatOK(u, c)'
<1>1. SUFFICES ASSUME category'[c] # None
               PROVE  restaurant'[category'[c].rest] = u
  BY DEF CatOK
<1>2. category[c] # None /\ category'[c].rest = category[c].rest
  BY <1>1 DEF Evolves
<1>3. category[c].rest \in Restaurant
  BY <1>2 DEF IInv, Rows, CategoryRow
<1>4. restaurant[category[c].rest] = u /\ u # None
  BY <1>2, NoneAssumption DEF CatOK
<1>5. restaurant'[category'[c].rest] # None
  BY <1>1 DEF Rows, References
<1>6. QED
  BY <1>2, <1>3, <1>4, <1>5 DEF Evolves

LEMMA KeptDish ==
    ASSUME IInv, Evolves, Rows', NEW u \in User, NEW d \in Dish, ~FreshDish(d), DishOK(u, d)
    PROVE  DishOK(u, d)'
<1>1. SUFFICES ASSUME dish'[d] # None
               PROVE  restaurant'[category'[dish'[d].cat].rest] = u
  BY DEF DishOK, RestaurantOf
<1>2. dish[d] # None /\ category'[dish'[d].cat].rest = RestaurantOf(d)
  BY <1>1 DEF Evolves
<1>3. dish[d].cat \in Category /\ category[dish[d].cat] # None
  BY <1>2 DEF IInv, Rows, References, DishRow
<1>4. RestaurantOf(d) \in Restaurant
  BY <1>3 DEF IInv, Rows, CategoryRow, RestaurantOf
<1>5. restaurant[RestaurantOf(d)] = u /\ u # None
  BY <1>2, NoneAssumption DEF DishOK
<1>6. dish'[d].cat \in Category /\ category'[dish'[d].cat] # None
  BY <1>1 DEF Rows, References, DishRow
<1>7. restaurant'[category'[dish'[d].cat].rest] # None
  BY <1>6 DEF Rows, References
<1>8. QED
  BY <1>2, <1>4, <1>5, <1>7 DEF Evolves

\* A step that changes rows, and ends a request.
LEMMA RowStep ==
    ASSUME IInv, Rows', Evolves, NEW p \in Request,
           req' \in [Request -> Call],
           req'[p] = NoCall,
           \A q \in Request \ {p} :
             /\ req'[q].at = req[q].at /\ req'[q].user = req[q].user
             /\ req'[q].rest = req[q].rest /\ req'[q].cat = req[q].cat
             /\ req'[q].dish = req[q].dish /\ req'[q].set = req[q].set
             /\ req'[q].snap = req[q].snap
    PROVE  IInv'
<1>1. ASSUME NEW q \in Request PROVE Formed(req'[q])
  <2>1. CASE q = p
    BY <2>1, NoCallType
  <2>2. CASE q # p
    BY <2>2 DEF IInv, Calls, Formed
  <2>3. QED BY <2>1, <2>2
<1>2. ASSUME NEW q \in Request PROVE Verified(req[q])'
  <2>1. CASE q = p
    BY <2>1 DEF NoCall, Verified
  <2>2. CASE q # p
    <3>1. Formed(req[q]) /\ Verified(req[q]) /\ req[q] \in Call
      BY DEF IInv, Calls
    <3>2. ASSUME req[q].at \in {"verifyMove", "writeDish", "toggleDish"}
          PROVE  DishOK(req[q].user, req[q].dish)'
      <4>1. req[q].user \in User /\ req[q].dish \in Dish
        BY <3>1, <3>2 DEF Formed
      <4>2. ~FreshDish(req[q].dish)
        BY DEF FreshDish
      <4>3. QED
        BY <2>2, <3>1, <3>2, <4>1, <4>2, KeptDish DEF Verified
    <3>3. ASSUME req[q].at \in {"writeDish", "toggleDish"}, req[q].set.cat # None
          PROVE  CatOK(req[q].user, req[q].set.cat)'
      <4>1. req[q].user \in User /\ req[q].set.cat \in Category
        BY <3>1, <3>3 DEF Formed, Call, Columns
      <4>2. ~FreshCategory(req[q].set.cat)
        BY DEF FreshCategory
      <4>3. QED
        BY <2>2, <3>1, <3>3, <4>1, <4>2, KeptCategory DEF Verified
    <3>4. ASSUME req[q].at \in {"dropRestaurant", "insertCategory", "reorder"}
          PROVE  RestOK(req[q].user, req[q].rest)'
      <4>1. req[q].user \in User /\ req[q].rest \in Restaurant
        BY <3>1, <3>4 DEF Formed
      <4>2. ~FreshRestaurant(req[q].rest)
        BY DEF FreshRestaurant
      <4>3. QED
        BY <2>2, <3>1, <3>4, <4>1, <4>2, KeptRestaurant DEF Verified
    <3>5. ASSUME req[q].at \in {"writeCategory", "checkCategory", "loadDishes",
                                "dropCategory", "insertDish"}
          PROVE  CatOK(req[q].user, req[q].cat)'
      <4>1. req[q].user \in User /\ req[q].cat \in Category
        BY <3>1, <3>5 DEF Formed
      <4>2. ~FreshCategory(req[q].cat)
        BY DEF FreshCategory
      <4>3. QED
        BY <2>2, <3>1, <3>5, <4>1, <4>2, KeptCategory DEF Verified
    <3>6. ASSUME req[q].at = "dropCategory", NEW d \in req[q].snap
          PROVE  DishOK(req[q].user, d)'
      <4>1. req[q].user \in User /\ d \in Dish
        BY <3>1, <3>6 DEF Formed, Call
      <4>2. ~FreshDish(d)
        BY <3>6 DEF FreshDish
      <4>3. QED
        BY <2>2, <3>1, <3>6, <4>1, <4>2, KeptDish DEF Verified
    <3>7. QED
      BY <2>2, <3>2, <3>3, <3>4, <3>5, <3>6 DEF Verified
  <2>3. QED BY <2>1, <2>2
<1>3. QED
  BY <1>1, <1>2 DEF IInv, Calls, Formed

----------------------------------------------------------------------------
(* The actions *)

\* The check a request begins with makes a call that knows what it says.
LEMMA StartStep ==
    ASSUME IInv, NEW p \in Request, NEW u \in User, Start(p, u)
    PROVE  IInv' /\ Evolves
<1> DEFINE Begun == \E call \in Call : /\ Formed(call) /\ Verified(call)
                                       /\ req' = [req EXCEPT ![p] = call]
                                       /\ UNCHANGED <<restaurant, category, dish>>
<1>1. SUFFICES Begun
  BY QuietStep
<1>2. CASE CreateRestaurant(p, u)
  <2> DEFINE call == [NoCall EXCEPT !.at = "insertRestaurant", !.user = u]
  <2>1. call \in Call
    BY NoCallType DEF Call, Stage
  <2>2. Formed(call) /\ Verified(call)
    BY DEF NoCall, Formed, Verified
  <2>3. QED
    BY <1>2, <2>1, <2>2 DEF CreateRestaurant, Begin
<1>3. ASSUME NEW r \in Restaurant, DeleteRestaurant(p, u, r) PROVE Begun
  <2> DEFINE call == [NoCall EXCEPT !.at = "dropRestaurant", !.user = u, !.rest = r]
  <2>1. call \in Call
    BY NoCallType DEF Call, Stage
  <2>2. Formed(call) /\ Verified(call)
    BY <1>3 DEF NoCall, Formed, Verified, DeleteRestaurant, RestOK
  <2>3. QED
    BY <1>3, <2>1, <2>2 DEF DeleteRestaurant, Begin
<1>4. ASSUME NEW r \in Restaurant, CreateCategory(p, u, r) PROVE Begun
  <2> DEFINE n == NextPosition({category[c].pos : c \in CategoriesOf(r)})
             set == [NoColumns EXCEPT !.pos = n]
             call == [NoCall EXCEPT !.at = "insertCategory", !.user = u, !.rest = r,
                                    !.set = set]
  <2>1. n \in Position /\ req' = [req EXCEPT ![p] = call]
        /\ UNCHANGED <<restaurant, category, dish>>
    BY <1>4 DEF CreateCategory, Begin
  <2> HIDE DEF n
  <2>2. set \in Columns /\ set.pos = n
    BY <2>1 DEF NoColumns, Columns
  <2> HIDE DEF set
  <2>3. call \in Call
    BY <2>2, NoCallType DEF Call, Stage
  <2>4. Formed(call) /\ Verified(call)
    BY <1>4, <2>1, <2>2 DEF NoCall, Formed, Verified, CreateCategory, RestOK
  <2>5. QED
    BY <2>1, <2>3, <2>4
<1>5. ASSUME NEW c \in Category, NEW n \in Position, UpdateCategory(p, u, c, n) PROVE Begun
  <2> DEFINE set == [NoColumns EXCEPT !.pos = Changed(category[c].pos, n)]
             call == [NoCall EXCEPT !.at = "writeCategory", !.user = u, !.cat = c,
                                    !.set = set]
  <2>1. req' = [req EXCEPT ![p] = call] /\ UNCHANGED <<restaurant, category, dish>>
    BY <1>5 DEF UpdateCategory, Begin
  <2>2. set \in Columns
    BY DEF NoColumns, Columns, Changed
  <2> HIDE DEF set
  <2>3. call \in Call
    BY <2>2, NoCallType DEF Call, Stage
  <2>4. Formed(call) /\ Verified(call)
    BY <1>5 DEF NoCall, Formed, Verified, UpdateCategory, OwnsCategory, CatOK
  <2>5. QED
    BY <2>1, <2>3, <2>4
<1>6. ASSUME NEW c \in Category, DeleteCategory(p, u, c) PROVE Begun
  <2> DEFINE call == [NoCall EXCEPT !.at = "checkCategory", !.user = u, !.cat = c]
  <2>1. call \in Call
    BY NoCallType DEF Call, Stage
  <2>2. Formed(call) /\ Verified(call)
    BY <1>6 DEF NoCall, Formed, Verified, DeleteCategory, OwnsCategory, CatOK
  <2>3. QED
    BY <1>6, <2>1, <2>2 DEF DeleteCategory, Begin
<1>7. ASSUME NEW r \in Restaurant, NEW o \in Order, ReorderCategories(p, u, r, o) PROVE Begun
  <2> DEFINE call == [NoCall EXCEPT !.at = "reorder", !.user = u, !.rest = r, !.order = o]
  <2>1. call \in Call
    BY NoCallType DEF Call, Stage
  <2>2. Formed(call) /\ Verified(call)
    BY <1>7 DEF NoCall, Formed, Verified, ReorderCategories, RestOK
  <2>3. QED
    BY <1>7, <2>1, <2>2 DEF ReorderCategories, Begin
<1>8. ASSUME NEW c \in Category, NEW b \in BOOLEAN, CreateDish(p, u, c, b) PROVE Begun
  <2> DEFINE n == NextPosition({dish[d].pos : d \in ActiveIn(c)})
             set == [NoColumns EXCEPT !.pos = n, !.available = b]
             call == [NoCall EXCEPT !.at = "insertDish", !.user = u, !.cat = c,
                                    !.set = set]
  <2>1. n \in Position /\ req' = [req EXCEPT ![p] = call]
        /\ UNCHANGED <<restaurant, category, dish>>
    BY <1>8 DEF CreateDish, Begin
  <2> HIDE DEF n
  <2>2. set \in Columns /\ set.pos = n /\ set.available = b
    BY <2>1 DEF NoColumns, Columns
  <2> HIDE DEF set
  <2>3. call \in Call
    BY <2>2, NoCallType DEF Call, Stage
  <2>4. Formed(call) /\ Verified(call)
    BY <1>8, <2>1, <2>2 DEF NoCall, Formed, Verified, CreateDish, OwnsCategory, CatOK
  <2>5. QED
    BY <2>1, <2>3, <2>4
<1>9. ASSUME NEW d \in Dish, OwnsDish(u, d), NEW set \in Columns, set.cat = None,
             NEW at \in {"writeDish", "toggleDish"},
             req' = [req EXCEPT ![p] = [NoCall EXCEPT !.at = at, !.user = u,
                                                      !.dish = d, !.set = set]],
             UNCHANGED <<restaurant, category, dish>>
      PROVE  Begun
  <2> DEFINE call == [NoCall EXCEPT !.at = at, !.user = u, !.dish = d, !.set = set]
  <2>1. call \in Call
    BY NoCallType DEF Call, Stage
  <2>2. DishOK(u, d)
    BY <1>9 DEF OwnsDish, OwnsCategory, DishOK, RestaurantOf
  <2>3. Formed(call) /\ Verified(call)
    BY <1>9, <2>2 DEF NoCall, Formed, Verified
  <2>4. QED
    BY <1>9, <2>1, <2>3
<1>10. ASSUME NEW d \in Dish, NEW n \in Position, NEW b \in BOOLEAN, UpdateDish(p, u, d, n, b)
       PROVE  Begun
  <2> DEFINE set == [NoColumns EXCEPT !.pos = Changed(dish[d].pos, n),
                                      !.available = Changed(dish[d].available, b)]
  <2>1. OwnsDish(u, d) /\ UNCHANGED <<restaurant, category, dish>>
        /\ req' = [req EXCEPT ![p] = [NoCall EXCEPT !.at = "writeDish", !.user = u,
                                                    !.dish = d, !.set = set]]
    BY <1>10 DEF UpdateDish, Begin
  <2>2. set \in Columns /\ set.cat = None
    BY DEF NoColumns, Columns, Changed
  <2> HIDE DEF set
  <2>3. QED
    BY <1>9, <2>1, <2>2
<1>11. ASSUME NEW d \in Dish, NEW c \in Category, NEW n \in Position, NEW b \in BOOLEAN,
              MoveDish(p, u, d, c, n, b)
       PROVE  Begun
  <2> DEFINE set == [NoColumns EXCEPT !.cat = Changed(dish[d].cat, c),
                                      !.pos = Changed(dish[d].pos, n),
                                      !.available = Changed(dish[d].available, b)]
             call == [NoCall EXCEPT !.at = "verifyMove", !.user = u, !.dish = d, !.cat = c,
                                    !.set = set]
  <2>1. OwnsDish(u, d) /\ UNCHANGED <<restaurant, category, dish>>
        /\ req' = [req EXCEPT ![p] = call]
    BY <1>11 DEF MoveDish, Begin
  <2>2. set \in Columns /\ set.cat \in {None, c}
    BY DEF NoColumns, Columns, Changed
  <2> HIDE DEF set
  <2>3. call \in Call
    BY <2>2, NoCallType DEF Call, Stage
  <2>4. DishOK(u, d)
    BY <2>1 DEF OwnsDish, OwnsCategory, DishOK, RestaurantOf
  <2>5. Formed(call) /\ Verified(call)
    BY <2>2, <2>4 DEF NoCall, Formed, Verified
  <2>6. QED
    BY <2>1, <2>3, <2>5
<1>12. ASSUME NEW d \in Dish, DeleteDish(p, u, d) PROVE Begun
  <2> DEFINE set == [NoColumns EXCEPT !.deleted = TRUE]
  <2>1. OwnsDish(u, d) /\ UNCHANGED <<restaurant, category, dish>>
        /\ req' = [req EXCEPT ![p] = [NoCall EXCEPT !.at = "writeDish", !.user = u,
                                                    !.dish = d, !.set = set]]
    BY <1>12 DEF DeleteDish, Begin
  <2>2. set \in Columns /\ set.cat = None
    BY DEF NoColumns, Columns
  <2> HIDE DEF set
  <2>3. QED
    BY <1>9, <2>1, <2>2
<1>13. ASSUME NEW d \in Dish, ToggleAvailability(p, u, d) PROVE Begun
  <2> DEFINE set == [NoColumns EXCEPT !.available = ~dish[d].available]
  <2>1. OwnsDish(u, d) /\ UNCHANGED <<restaurant, category, dish>>
        /\ req' = [req EXCEPT ![p] = [NoCall EXCEPT !.at = "toggleDish", !.user = u,
                                                    !.dish = d, !.set = set]]
    BY <1>13 DEF ToggleAvailability, Begin
  <2>2. set \in Columns /\ set.cat = None
    BY DEF NoColumns, Columns
  <2> HIDE DEF set
  <2>3. QED
    BY <1>9, <2>1, <2>2
<1>14. QED
  BY <1>2, <1>3, <1>4, <1>5, <1>6, <1>7, <1>8, <1>10, <1>11, <1>12, <1>13
     DEF Start, StartRestaurant, StartCategory, StartDish

\* A check after the first makes the request know more, or leaves it as it was.
LEMMA CheckStep ==
    ASSUME IInv, NEW p \in Request,
           CheckNoActiveDish(p) \/ LoadDishes(p) \/ VerifyMove(p) \/ Abort(p)
    PROVE  IInv' /\ Evolves
<1>1. req[p] \in Call /\ Formed(req[p]) /\ Verified(req[p])
  BY DEF IInv, Calls
<1>2. CASE CheckNoActiveDish(p)
  <2> DEFINE call == [req[p] EXCEPT !.at = "loadDishes"]
  <2>1. call \in Call
    BY <1>1 DEF Call, Stage
  <2>2. Formed(call) /\ Verified(call)
    BY <1>1, <1>2 DEF CheckNoActiveDish, Call, Formed, Verified
  <2>3. req' = [req EXCEPT ![p] = call] /\ UNCHANGED <<restaurant, category, dish>>
    BY <1>2 DEF CheckNoActiveDish
  <2>4. QED
    BY <2>1, <2>2, <2>3, QuietStep
<1>3. CASE LoadDishes(p)
  <2> DEFINE call == [req[p] EXCEPT !.at = "dropCategory", !.snap = DishesIn(req[p].cat)]
  <2>1. call \in Call
    BY <1>1 DEF Call, Stage, DishesIn
  <2>2. \A d \in DishesIn(req[p].cat) : DishOK(req[p].user, d)
    BY <1>1, <1>3 DEF LoadDishes, DishesIn, Verified, CatOK, DishOK, RestaurantOf, IInv,
                      Rows, References
  <2>3. Formed(call) /\ Verified(call)
    BY <1>1, <1>3, <2>2 DEF LoadDishes, Call, Formed, Verified
  <2>4. req' = [req EXCEPT ![p] = call] /\ UNCHANGED <<restaurant, category, dish>>
    BY <1>3 DEF LoadDishes
  <2>5. QED
    BY <2>1, <2>3, <2>4, QuietStep
<1>4. CASE VerifyMove(p)
  <2> DEFINE call == [req[p] EXCEPT !.at = "writeDish"]
  <2>1. call \in Call
    BY <1>1 DEF Call, Stage
  <2>2. Formed(call)
    BY <1>1, <1>4 DEF VerifyMove, Call, Formed
  <2>3. DishOK(req[p].user, req[p].dish)
    BY <1>1, <1>4 DEF VerifyMove, Verified
  <2>4. CatOK(req[p].user, req[p].cat) /\ req[p].set.cat \in {None, req[p].cat}
    BY <1>1, <1>4 DEF VerifyMove, OwnsCategory, CatOK, Formed
  <2>5. Verified(call)
    BY <1>1, <2>3, <2>4 DEF Call, Verified
  <2>6. req' = [req EXCEPT ![p] = call] /\ UNCHANGED <<restaurant, category, dish>>
    BY <1>4 DEF VerifyMove
  <2>7. QED
    BY <2>1, <2>2, <2>5, <2>6, QuietStep
<1>5. CASE Abort(p)
  BY <1>5, NoCallType, QuietStep DEF Abort, End
<1>6. QED BY <1>2, <1>3, <1>4, <1>5

\* The two ways a commit ends its request.
LEMMA Ending ==
    ASSUME IInv, NEW p \in Request, NEW d, NEW c,
           End(p) \/ (d \in Dish /\ EndPutting(p, d, c))
    PROVE  /\ req' \in [Request -> Call]
           /\ req'[p] = NoCall
           /\ \A q \in Request \ {p} :
                /\ req'[q].at = req[q].at /\ req'[q].user = req[q].user
                /\ req'[q].rest = req[q].rest /\ req'[q].cat = req[q].cat
                /\ req'[q].dish = req[q].dish /\ req'[q].set = req[q].set
                /\ req'[q].snap = req[q].snap
<1>1. req \in [Request -> Call] /\ NoCall \in Call
  BY NoCallType DEF IInv, Calls
<1>2. CASE End(p)
  BY <1>1, <1>2 DEF End
<1>3. CASE d \in Dish /\ EndPutting(p, d, c)
  <2> DEFINE late(q) == [req[q] EXCEPT !.late = @ \cup {d}]
  <2>1. ASSUME NEW q \in Request
        PROVE  /\ late(q) \in Call
               /\ late(q).at = req[q].at /\ late(q).user = req[q].user
               /\ late(q).rest = req[q].rest /\ late(q).cat = req[q].cat
               /\ late(q).dish = req[q].dish /\ late(q).set = req[q].set
               /\ late(q).snap = req[q].snap
    BY <1>1, <1>3 DEF Call
  <2>2. /\ req' = [q \in Request |-> req'[q]]
        /\ req'[p] = NoCall
        /\ \A q \in Request \ {p} : req'[q] = late(q) \/ req'[q] = req[q]
    BY <1>3 DEF EndPutting
  <2> HIDE DEF late
  <2>3. \A q \in Request : req'[q] \in Call
    BY <1>1, <2>1, <2>2
  <2>4. QED
    BY <2>1, <2>2, <2>3
<1>4. QED BY <1>2, <1>3

\* The rows of a restaurant: the unique index allows one per user.
LEMMA InsertRestaurantRows ==
    ASSUME IInv, NEW p \in Request, NEW r \in Restaurant, InsertRestaurant(p, r)
    PROVE  Rows' /\ Evolves
<1>1. req[p].user \in User
  BY DEF InsertRestaurant, IInv, Calls, Formed
<1>2. /\ restaurant[r] = None /\ restaurant' = [restaurant EXCEPT ![r] = req[p].user]
      /\ UNCHANGED <<category, dish>>
  BY DEF InsertRestaurant, FreshRestaurant
<1>3. restaurant' \in [Restaurant -> User \cup {None}]
  BY <1>1, <1>2 DEF IInv, Rows
<1>4. \A s \in Restaurant : restaurant[s] # None => restaurant'[s] = restaurant[s]
  BY <1>2 DEF IInv, Rows
<1>5. References'
  <2>1. ASSUME NEW c \in Category, category'[c] # None
        PROVE  restaurant'[category'[c].rest] # None
    <3>1. category[c] \in CategoryRow /\ restaurant[category[c].rest] # None
      BY <1>2, <2>1 DEF IInv, Rows, References
    <3>2. QED BY <1>2, <1>4, <3>1 DEF CategoryRow
  <2>2. \A d \in Dish : dish'[d] # None => category'[dish'[d].cat] # None
    BY <1>2 DEF IInv, Rows, References
  <2>3. QED BY <2>1, <2>2 DEF References
<1>6. OneRestaurantPerOwner'
  <2>1. \A s \in Restaurant : restaurant[s] # req[p].user
    BY DEF InsertRestaurant, RestaurantsOf
  <2>2. \A s \in Restaurant : restaurant'[s] = IF s = r THEN req[p].user ELSE restaurant[s]
    BY <1>2 DEF IInv, Rows
  <2>3. QED BY <2>1, <2>2 DEF OneRestaurantPerOwner, IInv, Rows
<1>7. Evolves
  <2>1. FreshRestaurant(r) /\ \A s \in Restaurant : s # r => restaurant'[s] = restaurant[s]
    BY <1>2 DEF InsertRestaurant, IInv, Rows
  <2>2. QED BY <1>2, <1>4, <2>1 DEF Evolves, RestaurantOf
<1>8. QED
  BY <1>2, <1>3, <1>5, <1>6, <1>7 DEF Rows, IInv

\* The rows of a restaurant go with everything below it.
LEMMA DropRestaurantRows ==
    ASSUME IInv, NEW p \in Request, DropRestaurant(p)
    PROVE  Rows' /\ Evolves
<1> DEFINE r == req[p].rest
<1>1. /\ restaurant \in [Restaurant -> User \cup {None}]
      /\ category \in [Category -> CategoryRow \cup {None}]
      /\ dish \in [Dish -> DishRow \cup {None}]
  BY DEF IInv, Rows
<1>2. \A s \in Restaurant : restaurant'[s] = IF s = r THEN None ELSE restaurant[s]
  BY <1>1 DEF DropRestaurant
<1>3. \A c \in Category : category'[c] = IF category[c] # None /\ category[c].rest = r
                                         THEN None ELSE category[c]
  BY DEF DropRestaurant, CategoriesOf
<1>4. \A d \in Dish : dish'[d] = IF dish[d] # None /\ RestaurantOf(d) = r
                                 THEN None ELSE dish[d]
  BY DEF DropRestaurant
<1>5. /\ restaurant' \in [Restaurant -> User \cup {None}]
      /\ category' \in [Category -> CategoryRow \cup {None}]
      /\ dish' \in [Dish -> DishRow \cup {None}]
  <2>1. restaurant' = [s \in Restaurant |-> restaurant'[s]]
        /\ category' = [c \in Category |-> category'[c]]
        /\ dish' = [d \in Dish |-> dish'[d]]
    BY <1>1 DEF DropRestaurant
  <2>2. \A s \in Restaurant : restaurant'[s] \in User \cup {None}
    BY <1>1, <1>2
  <2>3. \A c \in Category : category'[c] \in CategoryRow \cup {None}
    BY <1>1, <1>3
  <2>4. \A d \in Dish : dish'[d] \in DishRow \cup {None}
    BY <1>1, <1>4
  <2>5. QED BY <2>1, <2>2, <2>3, <2>4
<1>6. ASSUME NEW c \in Category, category'[c] # None
      PROVE  category'[c] = category[c] /\ restaurant'[category'[c].rest] # None
  <2>1. category[c] \in CategoryRow /\ category'[c] = category[c] /\ category[c].rest # r
    BY <1>1, <1>3, <1>6
  <2>2. restaurant[category[c].rest] # None
    BY <2>1, <1>6 DEF IInv, Rows, References
  <2>3. QED BY <1>2, <2>1, <2>2 DEF CategoryRow
<1>7. ASSUME NEW d \in Dish, dish'[d] # None
      PROVE  dish'[d] = dish[d] /\ category'[dish'[d].cat] = category[dish[d].cat]
             /\ category'[dish'[d].cat] # None
  <2>1. dish[d] \in DishRow /\ dish'[d] = dish[d] /\ RestaurantOf(d) # r
    BY <1>1, <1>4, <1>7
  <2>2. category[dish[d].cat] # None
    BY <2>1, <1>7 DEF IInv, Rows, References
  <2>3. QED BY <1>3, <2>1, <2>2 DEF DishRow, RestaurantOf
<1>8. References'
  BY <1>6, <1>7 DEF References
<1>9. OneRestaurantPerOwner'
  BY <1>2 DEF OneRestaurantPerOwner, IInv, Rows
<1>10. Evolves
  BY <1>2, <1>6, <1>7 DEF Evolves, RestaurantOf
<1>11. QED
  BY <1>5, <1>8, <1>9, <1>10 DEF Rows

\* The foreign key of a new category is checked when it is inserted.
LEMMA InsertCategoryRows ==
    ASSUME IInv, NEW p \in Request, NEW c \in Category, InsertCategory(p, c)
    PROVE  Rows' /\ Evolves
<1> DEFINE row == [rest |-> req[p].rest, pos |-> req[p].set.pos]
<1>1. req[p].rest \in Restaurant /\ req[p].set.pos \in Position
  BY DEF InsertCategory, IInv, Calls, Formed
<1>2. /\ category[c] = None /\ FreshCategory(c) /\ restaurant[row.rest] # None
      /\ category' = [category EXCEPT ![c] = row]
      /\ UNCHANGED <<restaurant, dish>>
  BY DEF InsertCategory, FreshCategory
<1>3. row \in CategoryRow /\ row # None
  BY <1>1, NoneAssumption DEF CategoryRow
<1> HIDE DEF row
<1>4. /\ category' \in [Category -> CategoryRow \cup {None}]
      /\ \A e \in Category : category'[e] = IF e = c THEN row ELSE category[e]
  BY <1>2, <1>3 DEF IInv, Rows
<1>5. References'
  BY <1>2, <1>3, <1>4 DEF References, IInv, Rows, DishRow
<1>6. Evolves
  BY <1>2, <1>4 DEF Evolves, RestaurantOf, References, IInv, Rows, DishRow
<1>7. QED
  BY <1>2, <1>4, <1>5, <1>6 DEF Rows, IInv, OneRestaurantPerOwner

\* Positions are written without touching what the rows refer to.
LEMMA PositionRows ==
    ASSUME IInv, NEW p \in Request, WriteCategory(p) \/ Reorder(p)
    PROVE  Rows' /\ Evolves
<1>1. category \in [Category -> CategoryRow \cup {None}] /\ req[p] \in Call
  BY DEF IInv, Rows, Calls
<1>2. \A c \in Category : category[c] # None =>
        \A n \in Position \cup {None} :
          /\ [rest |-> category[c].rest, pos |-> Written(category[c].pos, n)] \in CategoryRow
          /\ [rest |-> category[c].rest, pos |-> Written(category[c].pos, n)] # None
  BY <1>1, NoneAssumption DEF CategoryRow, Written
<1>3. /\ category' \in [Category -> CategoryRow \cup {None}]
      /\ \A c \in Category : IF category[c] = None THEN category'[c] = None
                             ELSE category'[c] # None /\ category'[c].rest = category[c].rest
  <2>1. CASE WriteCategory(p)
    <3>1. req[p].set.pos \in Position \cup {None}
      BY <1>1 DEF Call, Columns
    <3>2. req[p].cat \in Category
      BY <2>1 DEF WriteCategory, IInv, Calls, Formed
    <3>3. QED
      BY <1>1, <1>2, <2>1, <3>1, <3>2 DEF WriteCategory
  <2>2. CASE Reorder(p)
    <3>1. \A c \in Category : req[p].order[c] \in Position \cup {None}
      BY <1>1 DEF Call, Order
    <3>2. QED
      BY <1>1, <1>2, <2>2, <3>1 DEF Reorder, CategoriesOf
  <2>3. QED BY <2>1, <2>2
<1>4. UNCHANGED <<restaurant, dish>>
  BY DEF WriteCategory, Reorder
<1>5. References'
  BY <1>3, <1>4 DEF References, IInv, Rows, DishRow
<1>6. Evolves
  BY <1>3, <1>4 DEF Evolves, RestaurantOf, References, IInv, Rows, DishRow
<1>7. QED
  BY <1>3, <1>4, <1>5, <1>6 DEF Rows, IInv, OneRestaurantPerOwner

\* A category goes with every dish it has by then, loaded or not.
LEMMA DropCategoryRows ==
    ASSUME IInv, NEW p \in Request, DropCategory(p)
    PROVE  Rows' /\ Evolves
<1> DEFINE c == req[p].cat
<1>1. c \in Category
  BY DEF DropCategory, IInv, Calls, Formed
<1>2. /\ category \in [Category -> CategoryRow \cup {None}]
      /\ dish \in [Dish -> DishRow \cup {None}]
  BY DEF IInv, Rows
<1>3. /\ category' \in [Category -> CategoryRow \cup {None}]
      /\ \A e \in Category : category'[e] = IF e = c THEN None ELSE category[e]
  BY <1>1, <1>2 DEF DropCategory
<1>4. /\ dish' \in [Dish -> DishRow \cup {None}]
      /\ \A d \in Dish : dish'[d] # None => dish'[d] = dish[d] /\ dish[d].cat # c
  BY <1>2 DEF DropCategory, DishesIn
<1>5. restaurant' = restaurant
  BY DEF DropCategory
<1> HIDE DEF c
<1>6. References'
  BY <1>2, <1>3, <1>4, <1>5 DEF References, IInv, Rows, DishRow
<1>7. Evolves
  BY <1>2, <1>3, <1>4, <1>5 DEF Evolves, RestaurantOf, DishRow
<1>8. QED
  BY <1>3, <1>4, <1>5, <1>6, <1>7 DEF Rows, IInv, OneRestaurantPerOwner

\* The foreign key of a new dish is checked when it is inserted.
LEMMA InsertDishRows ==
    ASSUME IInv, NEW p \in Request, NEW d \in Dish, InsertDish(p, d)
    PROVE  Rows' /\ Evolves
<1> DEFINE row == [cat |-> req[p].cat, pos |-> req[p].set.pos,
                   available |-> req[p].set.available, deleted |-> FALSE]
<1>1. /\ req[p].cat \in Category /\ req[p].set.pos \in Position
      /\ req[p].set.available \in BOOLEAN
  BY DEF InsertDish, IInv, Calls, Formed
<1>2. /\ dish[d] = None /\ FreshDish(d) /\ category[row.cat] # None
      /\ dish' = [dish EXCEPT ![d] = row]
      /\ UNCHANGED <<restaurant, category>>
  BY DEF InsertDish, FreshDish
<1>3. row \in DishRow /\ row # None
  <2>1. ASSUME NEW k \in Category, NEW n \in Position, NEW b \in BOOLEAN
        PROVE  [cat |-> k, pos |-> n, available |-> b, deleted |-> FALSE] \in DishRow
    BY DEF DishRow
  <2>2. row \in DishRow
    BY <1>1, <2>1
  <2>3. None \notin DishRow
    BY NoneAssumption
  <2>4. QED BY <2>2, <2>3
<1> HIDE DEF row
<1>4. /\ dish' \in [Dish -> DishRow \cup {None}]
      /\ \A e \in Dish : dish'[e] = IF e = d THEN row ELSE dish[e]
  BY <1>2, <1>3 DEF IInv, Rows
<1>5. References'
  BY <1>2, <1>4 DEF References, IInv, Rows
<1>6. Evolves
  BY <1>2, <1>4 DEF Evolves, RestaurantOf
<1>7. QED
  BY <1>2, <1>4, <1>5, <1>6 DEF Rows, IInv, OneRestaurantPerOwner

\* The category a dish is moved to is of the restaurant the dish is of: both
\* were the caller's when they were verified, are still, and the caller has one.
LEMMA WriteDishRows ==
    ASSUME IInv, NEW p \in Request, WriteDish(p)
    PROVE  Rows' /\ Evolves
<1> DEFINE d == req[p].dish
           set == req[p].set
           row == NewDishRow(dish[d], set)
<1>1. /\ req[p] \in Call /\ Formed(req[p]) /\ Verified(req[p])
      /\ req[p].at \in {"writeDish", "toggleDish"}
  BY DEF WriteDish, IInv, Calls
<1>2. d \in Dish /\ set \in Columns /\ req[p].user \in User
  BY <1>1 DEF Formed, Call
<1>3. /\ dish[d] # None
      /\ set.cat # None => category[set.cat] # None
      /\ dish' = [dish EXCEPT ![d] = row]
      /\ UNCHANGED <<restaurant, category>>
  BY DEF WriteDish
<1>4. dish[d] \in DishRow /\ category[dish[d].cat] # None
  BY <1>2, <1>3 DEF IInv, Rows, References
<1>5. row \in DishRow /\ row # None
  BY <1>2, <1>4, NoneAssumption DEF NewDishRow, Written, DishRow, Columns
<1>6. row.cat = (IF set.cat = None THEN dish[d].cat ELSE set.cat)
      /\ (dish[d].deleted => row.deleted)
  BY DEF NewDishRow, Written
<1>7. category[row.cat].rest = category[dish[d].cat].rest
  <2>1. CASE set.cat = None
    BY <1>6, <2>1
  <2>2. CASE set.cat # None
    <3>1. restaurant[category[set.cat].rest] = req[p].user
      BY <1>1, <1>3, <2>2 DEF Verified, CatOK
    <3>2. restaurant[category[dish[d].cat].rest] = req[p].user
      BY <1>1, <1>3 DEF Verified, DishOK, RestaurantOf
    <3>3. set.cat \in Category /\ dish[d].cat \in Category
      BY <1>2, <1>4, <2>2 DEF Columns, DishRow
    <3>4. category[set.cat].rest \in Restaurant /\ category[dish[d].cat].rest \in Restaurant
      BY <1>3, <1>4, <2>2, <3>3 DEF IInv, Rows, CategoryRow
    <3>5. req[p].user # None
      BY <1>2, NoneAssumption
    <3>6. category[set.cat].rest = category[dish[d].cat].rest
      BY <3>1, <3>2, <3>4, <3>5 DEF IInv, Rows, OneRestaurantPerOwner
    <3>7. QED BY <1>6, <2>2, <3>6
  <2>3. QED BY <2>1, <2>2
<1>8. category[row.cat] # None
  BY <1>3, <1>4, <1>6
<1> HIDE DEF row, d, set
<1>9. /\ dish' \in [Dish -> DishRow \cup {None}]
      /\ \A e \in Dish : dish'[e] = IF e = d THEN row ELSE dish[e]
  BY <1>3, <1>5 DEF IInv, Rows
<1>10. References'
  BY <1>3, <1>8, <1>9 DEF References, IInv, Rows
<1>11. Evolves
  BY <1>2, <1>3, <1>6, <1>7, <1>9 DEF Evolves, RestaurantOf
<1>12. QED
  BY <1>3, <1>9, <1>10, <1>11 DEF Rows, IInv, OneRestaurantPerOwner

\* The steps that commit.
LEMMA CommitStep ==
    ASSUME IInv, NEW p \in Request, Step(p)
    PROVE  IInv' /\ Evolves
<1>1. ASSUME NEW d, NEW c, Rows' /\ Evolves, End(p) \/ (d \in Dish /\ EndPutting(p, d, c))
      PROVE  IInv' /\ Evolves
  <2>1. /\ req' \in [Request -> Call]
        /\ req'[p] = NoCall
        /\ \A q \in Request \ {p} :
             /\ req'[q].at = req[q].at /\ req'[q].user = req[q].user
             /\ req'[q].rest = req[q].rest /\ req'[q].cat = req[q].cat
             /\ req'[q].dish = req[q].dish /\ req'[q].set = req[q].set
             /\ req'[q].snap = req[q].snap
    BY <1>1, Ending
  <2>2. QED BY <1>1, <2>1, RowStep
<1>2. ASSUME NEW r \in Restaurant, InsertRestaurant(p, r) PROVE IInv' /\ Evolves
  BY <1>1, <1>2, InsertRestaurantRows DEF InsertRestaurant
<1>3. CASE DropRestaurant(p)
  BY <1>1, <1>3, DropRestaurantRows DEF DropRestaurant
<1>4. ASSUME NEW c \in Category, InsertCategory(p, c) PROVE IInv' /\ Evolves
  BY <1>1, <1>4, InsertCategoryRows DEF InsertCategory
<1>5. CASE WriteCategory(p) \/ Reorder(p)
  BY <1>1, <1>5, PositionRows DEF WriteCategory, Reorder
<1>6. CASE DropCategory(p)
  BY <1>1, <1>6, DropCategoryRows DEF DropCategory
<1>7. ASSUME NEW d \in Dish, InsertDish(p, d) PROVE IInv' /\ Evolves
  BY <1>1, <1>7, InsertDishRows DEF InsertDish
<1>8. CASE WriteDish(p)
  <2>1. End(p) \/ EndPutting(p, req[p].dish, req[p].set.cat)
    BY <1>8 DEF WriteDish
  <2>2. req[p].dish \in Dish
    BY <1>8 DEF WriteDish, IInv, Calls, Formed
  <2>3. QED
    BY <1>1, <1>8, <2>1, <2>2, WriteDishRows
<1>9. CASE CheckNoActiveDish(p) \/ LoadDishes(p) \/ VerifyMove(p) \/ Abort(p)
  BY <1>9, CheckStep
<1>10. QED
  BY <1>2, <1>3, <1>4, <1>5, <1>6, <1>7, <1>8, <1>9 DEF Step

----------------------------------------------------------------------------
(* Whose rows a step changes *)

\* Only rows of u change, or come and go.
Confined(u) ==
    /\ \A r \in Restaurant : restaurant'[r] # restaurant[r] => RestOK(u, r) /\ RestOK(u, r)'
    /\ \A c \in Category : category'[c] # category[c] => CatOK(u, c) /\ CatOK(u, c)'
    /\ \A d \in Dish : dish'[d] # dish[d] => DishOK(u, d) /\ DishOK(u, d)'

\* A commit changes rows of the user who asked for it.
LEMMA CommitConfined ==
    ASSUME IInv, Rows', Evolves, NEW p \in Request, Step(p),
           NEW u \in User, u = req[p].user
    PROVE  Confined(u)
<1>1. /\ req[p] \in Call /\ Formed(req[p]) /\ Verified(req[p])
      /\ restaurant \in [Restaurant -> User \cup {None}]
      /\ category \in [Category -> CategoryRow \cup {None}]
      /\ dish \in [Dish -> DishRow \cup {None}]
      /\ References
  BY DEF IInv, Calls, Rows
<1>2. ASSUME NEW r \in Restaurant, InsertRestaurant(p, r) PROVE Confined(u)
  <2>1. restaurant' = [restaurant EXCEPT ![r] = u] /\ restaurant[r] = None
    BY <1>2 DEF InsertRestaurant, FreshRestaurant
  <2>2. \A s \in Restaurant : restaurant'[s] # restaurant[s] => RestOK(u, s) /\ RestOK(u, s)'
    BY <1>1, <2>1 DEF RestOK
  <2>3. QED BY <1>2, <2>2 DEF InsertRestaurant, Confined
<1>3. CASE DropRestaurant(p)
  <2> DEFINE r == req[p].rest
  <2>1. restaurant[r] \in {None, u} /\ r \in Restaurant
    BY <1>1, <1>3 DEF DropRestaurant, Formed, Verified, RestOK
  <2>2. \A s \in Restaurant : restaurant'[s] # restaurant[s] => RestOK(u, s) /\ RestOK(u, s)'
    BY <1>1, <1>3, <2>1 DEF DropRestaurant, RestOK
  <2>3. \A c \in Category : category'[c] # category[c] => CatOK(u, c) /\ CatOK(u, c)'
    BY <1>1, <1>3, <2>1 DEF DropRestaurant, CategoriesOf, CatOK, References
  <2>4. \A d \in Dish : dish'[d] # dish[d] => DishOK(u, d) /\ DishOK(u, d)'
    <3> TAKE d \in Dish
    <3>1. HAVE dish'[d] # dish[d]
    <3>2. dish[d] # None /\ dish'[d] = None /\ RestaurantOf(d) = r
      BY <1>3, <3>1 DEF DropRestaurant
    <3>3. dish[d].cat \in Category /\ category[dish[d].cat] # None
      BY <1>1, <3>2 DEF References, DishRow
    <3>4. restaurant[RestaurantOf(d)] # None
      BY <1>1, <3>3 DEF References, RestaurantOf
    <3>5. QED BY <2>1, <3>2, <3>4 DEF DishOK
  <2>5. QED BY <2>2, <2>3, <2>4 DEF Confined
<1>4. ASSUME NEW c \in Category, InsertCategory(p, c) PROVE Confined(u)
  <2> DEFINE row == [rest |-> req[p].rest, pos |-> req[p].set.pos]
  <2>1. /\ category' = [category EXCEPT ![c] = row] /\ category[c] = None
        /\ restaurant[req[p].rest] = u /\ UNCHANGED <<restaurant, dish>>
    BY <1>1, <1>4 DEF InsertCategory, FreshCategory, Verified, RestOK
  <2>2. row.rest = req[p].rest
    OBVIOUS
  <2> HIDE DEF row
  <2>3. \A e \in Category : category'[e] # category[e] => CatOK(u, e) /\ CatOK(u, e)'
    BY <1>1, <2>1, <2>2 DEF CatOK
  <2>4. QED BY <2>1, <2>3 DEF Confined
<1>5. CASE WriteCategory(p)
  <2>0. PICK c \in Category : c = req[p].cat
    BY <1>1, <1>5 DEF WriteCategory, Formed
  <2>1. CatOK(u, c) /\ ~FreshCategory(c)
    BY <1>1, <1>5, <2>0 DEF WriteCategory, Verified, FreshCategory
  <2>2. CatOK(u, c)'
    BY <2>1, KeptCategory
  <2>3. \A e \in Category : e # c => category'[e] = category[e]
    BY <1>1, <1>5, <2>0 DEF WriteCategory
  <2>4. \A e \in Category : category'[e] # category[e] => CatOK(u, e) /\ CatOK(u, e)'
    BY <2>1, <2>2, <2>3 DEF CatOK
  <2>5. QED BY <1>5, <2>4 DEF WriteCategory, Confined
<1>6. CASE Reorder(p)
  <2>1. UNCHANGED <<restaurant, dish>> /\ RestOK(u, req[p].rest)
    BY <1>1, <1>6 DEF Reorder, Verified
  <2>2. ASSUME NEW c \in Category, category'[c] # category[c]
        PROVE  CatOK(u, c) /\ CatOK(u, c)'
    <3>1. /\ category[c] # None /\ category[c].rest = req[p].rest
          /\ category'[c].rest = category[c].rest
      BY <1>6, <2>2 DEF Reorder, CategoriesOf
    <3>2. restaurant[category[c].rest] # None
      BY <1>1, <3>1 DEF References
    <3>3. QED BY <2>1, <3>1, <3>2 DEF CatOK, RestOK
  <2>3. QED BY <2>1, <2>2 DEF Confined
<1>7. CASE DropCategory(p)
  <2> DEFINE c == req[p].cat
  <2>1. c \in Category /\ CatOK(u, c) /\ restaurant' = restaurant
    BY <1>1, <1>7 DEF DropCategory, Formed, Verified
  <2>2. \A e \in Category : category'[e] # category[e] => CatOK(u, e) /\ CatOK(u, e)'
    BY <1>1, <1>7, <2>1 DEF DropCategory, CatOK
  <2>3. ASSUME NEW d \in Dish, dish'[d] # dish[d]
        PROVE  DishOK(u, d) /\ DishOK(u, d)'
    <3>1. dish'[d] = None /\ (d \in req[p].snap \/ d \in DishesIn(c))
      BY <1>7, <2>3 DEF DropCategory
    <3>2. CASE d \in req[p].snap
      BY <1>1, <1>7, <3>1, <3>2 DEF DropCategory, Verified, DishOK
    <3>3. CASE d \in DishesIn(c)
      BY <1>1, <2>1, <3>1, <3>3 DEF DishesIn, CatOK, DishOK, RestaurantOf, References
    <3>4. QED BY <3>1, <3>2, <3>3
  <2>4. QED BY <2>1, <2>2, <2>3 DEF Confined
<1>8. ASSUME NEW d \in Dish, InsertDish(p, d) PROVE Confined(u)
  <2> DEFINE row == [cat |-> req[p].cat, pos |-> req[p].set.pos,
                     available |-> req[p].set.available, deleted |-> FALSE]
  <2>1. /\ dish' = [dish EXCEPT ![d] = row] /\ dish[d] = None
        /\ restaurant[category[req[p].cat].rest] = u /\ UNCHANGED <<restaurant, category>>
    BY <1>1, <1>8 DEF InsertDish, FreshDish, Verified, CatOK
  <2>2. row.cat = req[p].cat
    OBVIOUS
  <2> HIDE DEF row
  <2>3. \A e \in Dish : dish'[e] # dish[e] => DishOK(u, e) /\ DishOK(u, e)'
    BY <1>1, <2>1, <2>2 DEF DishOK, RestaurantOf
  <2>4. QED BY <2>1, <2>3 DEF Confined
<1>9. CASE WriteDish(p)
  <2>0. PICK d \in Dish : d = req[p].dish
    BY <1>1, <1>9 DEF WriteDish, Formed
  <2>1. DishOK(u, d) /\ ~FreshDish(d)
    BY <1>1, <1>9, <2>0 DEF WriteDish, Verified, FreshDish
  <2>2. DishOK(u, d)'
    BY <2>1, KeptDish
  <2>3. \A e \in Dish : e # d => dish'[e] = dish[e]
    BY <1>1, <1>9, <2>0 DEF WriteDish
  <2>4. \A e \in Dish : dish'[e] # dish[e] => DishOK(u, e) /\ DishOK(u, e)'
    BY <2>1, <2>2, <2>3 DEF DishOK
  <2>5. QED BY <1>9, <2>4 DEF WriteDish, Confined
<1>10. CASE CheckNoActiveDish(p) \/ LoadDishes(p) \/ VerifyMove(p) \/ Abort(p)
  BY <1>10 DEF CheckNoActiveDish, LoadDishes, VerifyMove, Abort, Confined
<1>11. QED
  BY <1>2, <1>3, <1>4, <1>5, <1>6, <1>7, <1>8, <1>9, <1>10 DEF Step

\* What another user has is not touched by a step confined to u.
LEMMA OtherHolding ==
    ASSUME IInv, Rows', NEW u, Confined(u), NEW v \in User, v # u
    PROVE  Holding(v)' = Holding(v)
<1>1. v # None
  BY NoneAssumption
<1>2. \A r \in Restaurant : restaurant'[r] = v <=> restaurant[r] = v
  BY <1>1 DEF Confined, RestOK
<1>3. RestaurantsOf(v)' = RestaurantsOf(v)
  BY <1>2 DEF RestaurantsOf
<1>4. ASSUME NEW c \in Category
      PROVE  /\ OwnsCategory(v, c)' <=> OwnsCategory(v, c)
             /\ OwnsCategory(v, c) => category'[c] = category[c]
  <2>1. CASE category'[c] = category[c]
    <3>1. category[c] # None => category[c].rest \in Restaurant
      BY DEF IInv, Rows, CategoryRow
    <3>2. QED BY <1>2, <2>1, <3>1 DEF OwnsCategory
  <2>2. CASE category'[c] # category[c]
    BY <2>2 DEF Confined, CatOK, OwnsCategory
  <2>3. QED BY <2>1, <2>2
<1> DEFINE cats == {c \in Category : OwnsCategory(v, c)}
<1>5. cats' = cats
  BY <1>4
<1>6. [c \in cats |-> category[c]]' = [c \in cats |-> category[c]]
  BY <1>4, <1>5
<1>7. ASSUME NEW d \in Dish, NEW c \in cats
      PROVE  /\ d \in DishesIn(c)' <=> d \in DishesIn(c)
             /\ d \in DishesIn(c) => dish'[d] = dish[d]
  <2>1. CASE dish'[d] = dish[d]
    BY <2>1 DEF DishesIn
  <2>2. CASE dish'[d] # dish[d]
    <3>1. DishOK(u, d) /\ DishOK(u, d)'
      BY <2>2 DEF Confined
    <3>2. OwnsCategory(v, c) /\ OwnsCategory(v, c)'
      BY <1>4
    <3>3. d \notin DishesIn(c)
      BY <3>1, <3>2 DEF DishesIn, DishOK, OwnsCategory, RestaurantOf
    <3>4. d \notin DishesIn(c)'
      BY <3>1, <3>2 DEF DishesIn, DishOK, OwnsCategory, RestaurantOf
    <3>5. QED BY <3>3, <3>4
  <2>3. QED BY <2>1, <2>2
<1>8. ASSUME NEW c \in cats PROVE DishesIn(c)' = DishesIn(c)
  BY <1>7 DEF DishesIn
<1> DEFINE dishes == UNION {DishesIn(c) : c \in cats}
<1>9. dishes' = dishes /\ \A d \in dishes : dish'[d] = dish[d]
  <2>1. dishes \subseteq Dish
    BY DEF DishesIn
  <2>2. QED BY <1>5, <1>7, <1>8, <2>1
<1>10. [d \in dishes |-> dish[d]]' = [d \in dishes |-> dish[d]]
  BY <1>9
<1>11. QED
  BY <1>3, <1>6, <1>10 DEF Holding

----------------------------------------------------------------------------
(* The theorems *)

\* IInv holds at first.
LEMMA InitIInv == Init => IInv
<1> SUFFICES ASSUME Init PROVE IInv
  OBVIOUS
<1>1. Rows
  BY DEF Init, Rows, References, OneRestaurantPerOwner
<1>2. Calls
  BY NoCallType DEF Init, Calls
<1>3. QED BY <1>1, <1>2 DEF IInv

\* IInv is inductive, and every step evolves the rows in the allowed ways.
LEMMA NextIInv == IInv /\ [Next]_vars => IInv' /\ (Evolves \/ UNCHANGED vars)
<1> SUFFICES ASSUME IInv, [Next]_vars PROVE IInv' /\ (Evolves \/ UNCHANGED vars)
  OBVIOUS
<1>1. ASSUME NEW p \in Request, NEW u \in User, Start(p, u) PROVE IInv' /\ Evolves
  BY <1>1, StartStep
<1>2. ASSUME NEW p \in Request, Step(p) PROVE IInv' /\ Evolves
  BY <1>2, CommitStep
<1>3. CASE UNCHANGED vars
  BY <1>3 DEF vars, IInv, Rows, References, OneRestaurantPerOwner, Calls, Formed,
              Verified, DishOK, CatOK, RestOK, RestaurantOf
<1>4. QED BY <1>1, <1>2, <1>3 DEF Next

----------------------------------------------------------------------------
(* The dishes that go with a category *)

\* A category that is going to be deleted, having had no active dish, has none
\* but the late ones, and those that were loaded to go with it are deleted or late.
Guarded(p) ==
    /\ req[p].at \in {"loadDishes", "dropCategory"} => ActiveIn(req[p].cat) \subseteq req[p].late
    /\ req[p].at = "dropCategory" =>
         \A d \in req[p].snap : dish[d] # None /\ ~dish[d].deleted => d \in req[p].late

ILate == \A p \in Request : Guarded(p)

\* A request stays guarded when every dish put into its category is noted.
LEMMA GuardStays ==
    ASSUME IInv, Evolves, NEW p \in Request, Guarded(p),
           /\ req'[p].at = req[p].at /\ req'[p].cat = req[p].cat /\ req'[p].snap = req[p].snap
           /\ req[p].late \subseteq req'[p].late,
           req[p].at \in {"loadDishes", "dropCategory"} =>
             \A d \in Dish : /\ dish'[d] # None /\ dish'[d].cat = req[p].cat
                             /\ ~(dish[d] # None /\ dish[d].cat = req[p].cat)
                             => d \in req'[p].late
    PROVE  Guarded(p)'
<1>1. req[p].snap \subseteq Dish
  BY DEF IInv, Calls, Call
<1>2. \A d \in Dish : dish[d] # None /\ dish'[d] # None /\ dish[d].deleted => dish'[d].deleted
  BY DEF Evolves
<1>3. ASSUME req[p].at \in {"loadDishes", "dropCategory"}, NEW d \in ActiveIn(req[p].cat)'
      PROVE  d \in req'[p].late
  <2>1. d \in Dish /\ dish'[d] # None /\ ~dish'[d].deleted /\ dish'[d].cat = req[p].cat
    BY <1>3 DEF ActiveIn, DishesIn
  <2>2. CASE dish[d] # None /\ dish[d].cat = req[p].cat
    BY <1>2, <1>3, <2>1, <2>2 DEF Guarded, ActiveIn, DishesIn
  <2>3. CASE ~(dish[d] # None /\ dish[d].cat = req[p].cat)
    BY <1>3, <2>1, <2>3
  <2>4. QED BY <2>2, <2>3
<1>4. ASSUME req[p].at = "dropCategory", NEW d \in req[p].snap,
             dish'[d] # None, ~dish'[d].deleted
      PROVE  d \in req'[p].late
  <2>1. dish[d] # None
    <3>1. d \in Dish /\ ~FreshDish(d)
      BY <1>1, <1>4 DEF FreshDish
    <3>2. QED BY <1>4, <3>1 DEF Evolves
  <2>2. QED BY <1>1, <1>2, <1>4, <2>1 DEF Guarded
<1>5. QED BY <1>3, <1>4 DEF Guarded

\* No request begins with a category to delete.
LEMMA StartUnguarded ==
    ASSUME IInv, NEW p \in Request, NEW u \in User, Start(p, u)
    PROVE  /\ UNCHANGED dish
           /\ \A q \in Request \ {p} : req'[q] = req[q]
           /\ req'[p].at \notin {"loadDishes", "dropCategory"}
<1>1. req \in [Request -> Call]
  BY DEF IInv, Calls
<1>2. CASE StartRestaurant(p, u)
  BY <1>1, <1>2 DEF StartRestaurant, CreateRestaurant, DeleteRestaurant, Begin, NoCall
<1>3. CASE StartCategory(p, u)
  BY <1>1, <1>3 DEF StartCategory, CreateCategory, UpdateCategory, DeleteCategory,
                    ReorderCategories, Begin, NoCall
<1>4. CASE StartDish(p, u)
  <2> DEFINE Begun == /\ UNCHANGED dish
                      /\ \A q \in Request \ {p} : req'[q] = req[q]
                      /\ req'[p].at \in {"insertDish", "verifyMove", "writeDish", "toggleDish"}
  <2>1. ASSUME NEW c \in Category, NEW b \in BOOLEAN, CreateDish(p, u, c, b) PROVE Begun
    <3> DEFINE set == [NoColumns EXCEPT !.pos = NextPosition({dish[d].pos : d \in ActiveIn(c)}),
                                        !.available = b]
               call == [NoCall EXCEPT !.at = "insertDish", !.user = u, !.cat = c, !.set = set]
    <3>1. req' = [req EXCEPT ![p] = call] /\ UNCHANGED dish
      BY <2>1 DEF CreateDish, Begin
    <3> HIDE DEF set
    <3>2. call.at = "insertDish"
      BY DEF NoCall
    <3> HIDE DEF call
    <3>3. QED BY <1>1, <3>1, <3>2
  <2>2. ASSUME NEW d \in Dish, NEW n \in Position, NEW b \in BOOLEAN, UpdateDish(p, u, d, n, b) PROVE Begun
    <3> DEFINE set == [NoColumns EXCEPT !.pos = Changed(dish[d].pos, n),
                                        !.available = Changed(dish[d].available, b)]
               call == [NoCall EXCEPT !.at = "writeDish", !.user = u, !.dish = d, !.set = set]
    <3>1. req' = [req EXCEPT ![p] = call] /\ UNCHANGED dish
      BY <2>2 DEF UpdateDish, Begin
    <3> HIDE DEF set
    <3>2. call.at = "writeDish"
      BY DEF NoCall
    <3> HIDE DEF call
    <3>3. QED BY <1>1, <3>1, <3>2
  <2>3. ASSUME NEW d \in Dish, NEW c \in Category, NEW n \in Position, NEW b \in BOOLEAN,
               MoveDish(p, u, d, c, n, b)
        PROVE  Begun
    <3> DEFINE set == [NoColumns EXCEPT !.cat = Changed(dish[d].cat, c),
                                        !.pos = Changed(dish[d].pos, n),
                                        !.available = Changed(dish[d].available, b)]
               call == [NoCall EXCEPT !.at = "verifyMove", !.user = u, !.dish = d, !.cat = c,
                                       !.set = set]
    <3>1. req' = [req EXCEPT ![p] = call] /\ UNCHANGED dish
      BY <2>3 DEF MoveDish, Begin
    <3> HIDE DEF set
    <3>2. call.at = "verifyMove"
      BY DEF NoCall
    <3> HIDE DEF call
    <3>3. QED BY <1>1, <3>1, <3>2
  <2>4. ASSUME NEW d \in Dish, DeleteDish(p, u, d) PROVE Begun
    <3> DEFINE set == [NoColumns EXCEPT !.deleted = TRUE]
               call == [NoCall EXCEPT !.at = "writeDish", !.user = u, !.dish = d, !.set = set]
    <3>1. req' = [req EXCEPT ![p] = call] /\ UNCHANGED dish
      BY <2>4 DEF DeleteDish, Begin
    <3> HIDE DEF set
    <3>2. call.at = "writeDish"
      BY DEF NoCall
    <3> HIDE DEF call
    <3>3. QED BY <1>1, <3>1, <3>2
  <2>5. ASSUME NEW d \in Dish, ToggleAvailability(p, u, d) PROVE Begun
    <3> DEFINE set == [NoColumns EXCEPT !.available = ~dish[d].available]
               call == [NoCall EXCEPT !.at = "toggleDish", !.user = u, !.dish = d, !.set = set]
    <3>1. req' = [req EXCEPT ![p] = call] /\ UNCHANGED dish
      BY <2>5 DEF ToggleAvailability, Begin
    <3> HIDE DEF set
    <3>2. call.at = "toggleDish"
      BY DEF NoCall
    <3> HIDE DEF call
    <3>3. QED BY <1>1, <3>1, <3>2
  <2>6. Begun
    BY <1>4, <2>1, <2>2, <2>3, <2>4, <2>5 DEF StartDish
  <2>7. QED BY <2>6
<1>5. QED BY <1>2, <1>3, <1>4 DEF Start

\* A dish that is put into a category is noted by all who are deleting it.
LEMMA PuttingNotes ==
    ASSUME IInv, NEW p \in Request, NEW d \in Dish, NEW c, EndPutting(p, d, c),
           NEW q \in Request, q # p
    PROVE  /\ req'[q].at = req[q].at /\ req'[q].cat = req[q].cat /\ req'[q].snap = req[q].snap
           /\ req[q].late \subseteq req'[q].late
           /\ req[q].at \in {"loadDishes", "dropCategory"} /\ req[q].cat = c => d \in req'[q].late
<1> DEFINE noted == [req[q] EXCEPT !.late = @ \cup {d}]
<1>1. req[q] \in Call
  BY DEF IInv, Calls
<1>2. /\ noted.at = req[q].at /\ noted.cat = req[q].cat /\ noted.snap = req[q].snap
      /\ noted.late = req[q].late \cup {d}
  BY <1>1 DEF Call
<1>3. req'[q] = IF req[q].at \in {"loadDishes", "dropCategory"} /\ req[q].cat = c
                THEN noted ELSE req[q]
  BY DEF EndPutting
<1> HIDE DEF noted
<1>4. QED BY <1>2, <1>3

LEMMA InitILate == Init => ILate
BY DEF Init, NoCall, ILate, Guarded

LEMMA NextILate == IInv /\ ILate /\ [Next]_vars => ILate'
<1> SUFFICES ASSUME IInv, ILate, [Next]_vars PROVE ILate'
  OBVIOUS
<1>1. Evolves \/ UNCHANGED vars
  BY NextIInv
<1>2. CASE UNCHANGED vars
  BY <1>2 DEF vars, ILate, Guarded, ActiveIn, DishesIn
<1>3. ASSUME Evolves, NEW p \in Request,
             \A d \in Dish : dish'[d] # None => dish'[d] = dish[d],
             \A q \in Request \ {p} : req'[q] = req[q],
             Guarded(p)'
      PROVE  ILate'
  <2> SUFFICES ASSUME NEW q \in Request, q # p PROVE Guarded(q)'
    BY <1>3 DEF ILate
  <2>1. Guarded(q)
    BY DEF ILate
  <2>2. QED BY <1>3, <2>1, GuardStays
<1>4. ASSUME Evolves, NEW p \in Request, NEW u \in User, Start(p, u) PROVE ILate'
  <2>1. Guarded(p)'
    BY <1>4, StartUnguarded DEF Guarded
  <2>2. QED BY <1>3, <1>4, <2>1, StartUnguarded
<1>5. ASSUME Evolves, NEW p \in Request, Step(p) PROVE ILate'
  <2>1. req \in [Request -> Call] /\ dish \in [Dish -> DishRow \cup {None}] /\ Guarded(p)
    BY DEF IInv, Calls, Rows, ILate
  <2>2. ASSUME End(p) PROVE Guarded(p)' /\ \A q \in Request \ {p} : req'[q] = req[q]
    BY <2>1, <2>2 DEF End, NoCall, Guarded
  <2>3. ASSUME NEW d \in Dish, NEW c, EndPutting(p, d, c),
               \A e \in Dish \ {d} : dish'[e] = dish[e],
               dish'[d] # None => dish'[d].cat = c
        PROVE  ILate'
    <3>1. Guarded(p)'
      BY <2>3 DEF EndPutting, NoCall, Guarded
    <3>2. ASSUME NEW q \in Request, q # p PROVE Guarded(q)'
      <4>1. Guarded(q)
        BY DEF ILate
      <4>2. /\ req'[q].at = req[q].at /\ req'[q].cat = req[q].cat /\ req'[q].snap = req[q].snap
            /\ req[q].late \subseteq req'[q].late
            /\ req[q].at \in {"loadDishes", "dropCategory"} /\ req[q].cat = c
                 => d \in req'[q].late
        BY <2>3, <3>2, PuttingNotes
      <4>3. QED BY <1>5, <2>3, <4>1, <4>2, GuardStays
    <3>3. QED BY <3>1, <3>2 DEF ILate
  <2>4. CASE \/ \E r \in Restaurant : InsertRestaurant(p, r)
             \/ \E c \in Category : InsertCategory(p, c)
             \/ DropRestaurant(p) \/ WriteCategory(p) \/ DropCategory(p) \/ Reorder(p)
             \/ Abort(p)
    <3>1. End(p) /\ \A d \in Dish : dish'[d] # None => dish'[d] = dish[d]
      BY <2>4 DEF InsertRestaurant, InsertCategory, DropRestaurant, WriteCategory,
                  DropCategory, Reorder, Abort
    <3>2. QED BY <1>3, <1>5, <2>2, <3>1
  <2>5. CASE CheckNoActiveDish(p)
    <3>1. req' = [req EXCEPT ![p].at = "loadDishes"] /\ ActiveIn(req[p].cat) = {}
          /\ UNCHANGED dish
      BY <2>5 DEF CheckNoActiveDish
    <3>2. req'[p].at = "loadDishes" /\ req'[p].cat = req[p].cat
          /\ \A q \in Request \ {p} : req'[q] = req[q]
      BY <2>1, <3>1 DEF Call
    <3>3. Guarded(p)'
      BY <3>1, <3>2 DEF Guarded, ActiveIn, DishesIn
    <3>4. QED BY <1>3, <1>5, <3>1, <3>2, <3>3
  <2>6. CASE LoadDishes(p)
    <3> DEFINE call == [req[p] EXCEPT !.at = "dropCategory", !.snap = DishesIn(req[p].cat)]
    <3>1. req' = [req EXCEPT ![p] = call] /\ req[p].at = "loadDishes" /\ UNCHANGED dish
      BY <2>6 DEF LoadDishes
    <3>2. /\ call.at = "dropCategory" /\ call.cat = req[p].cat /\ call.late = req[p].late
          /\ call.snap = DishesIn(req[p].cat)
      BY <2>1 DEF Call
    <3> HIDE DEF call
    <3>3. req'[p] = call /\ \A q \in Request \ {p} : req'[q] = req[q]
      BY <2>1, <3>1
    <3>4. Guarded(p)'
      BY <2>1, <3>1, <3>2, <3>3 DEF Guarded, ActiveIn, DishesIn
    <3>5. QED BY <1>3, <1>5, <3>1, <3>3, <3>4
  <2>7. CASE VerifyMove(p)
    <3>1. req' = [req EXCEPT ![p].at = "writeDish"] /\ UNCHANGED dish
      BY <2>7 DEF VerifyMove
    <3>2. req'[p].at = "writeDish" /\ \A q \in Request \ {p} : req'[q] = req[q]
      BY <2>1, <3>1 DEF Call
    <3>3. QED BY <1>3, <1>5, <3>1, <3>2 DEF Guarded
  <2>8. ASSUME NEW d \in Dish, InsertDish(p, d) PROVE ILate'
    <3> DEFINE row == [cat |-> req[p].cat, pos |-> req[p].set.pos,
                       available |-> req[p].set.available, deleted |-> FALSE]
    <3>1. dish' = [dish EXCEPT ![d] = row] /\ EndPutting(p, d, req[p].cat)
      BY <2>8 DEF InsertDish
    <3>2. row.cat = req[p].cat
      OBVIOUS
    <3> HIDE DEF row
    <3>3. PICK c : c = req[p].cat
      OBVIOUS
    <3>4. EndPutting(p, d, c) /\ dish'[d].cat = c /\ \A e \in Dish \ {d} : dish'[e] = dish[e]
      BY <2>1, <3>1, <3>2, <3>3
    <3>5. QED BY <2>3, <3>4
  <2>9. CASE WriteDish(p)
    <3>1. PICK d \in Dish : d = req[p].dish
      BY <2>9 DEF WriteDish, IInv, Calls, Formed
    <3>2. /\ dish' = [dish EXCEPT ![d] = NewDishRow(dish[d], req[p].set)] /\ dish[d] # None
          /\ IF req[p].set.cat = None THEN End(p) ELSE EndPutting(p, d, req[p].set.cat)
      BY <2>9, <3>1 DEF WriteDish
    <3>3. /\ dish'[d].cat = Written(dish[d].cat, req[p].set.cat)
          /\ \A e \in Dish \ {d} : dish'[e] = dish[e]
      BY <2>1, <3>1, <3>2 DEF NewDishRow
    <3>4. CASE req[p].set.cat = None
      <4>1. dish'[d].cat = dish[d].cat /\ End(p)
        BY <3>2, <3>3, <3>4 DEF Written
      <4>2. ASSUME NEW q \in Request, q # p PROVE Guarded(q)'
        <5>1. Guarded(q) /\ req'[q] = req[q]
          BY <2>2, <4>1, <4>2 DEF ILate
        <5>2. QED BY <1>5, <3>2, <3>3, <4>1, <5>1, GuardStays
      <4>3. QED BY <2>2, <4>1, <4>2 DEF ILate
    <3>5. CASE req[p].set.cat # None
      <4>1. PICK c : c = req[p].set.cat
        OBVIOUS
      <4>2. EndPutting(p, d, c) /\ dish'[d].cat = c
        BY <3>2, <3>3, <3>5, <4>1 DEF Written
      <4>3. QED BY <2>3, <3>3, <4>2
    <3>6. QED BY <3>4, <3>5
  <2>10. QED
    BY <1>5, <2>4, <2>5, <2>6, <2>7, <2>8, <2>9 DEF Step
<1>6. QED BY <1>1, <1>2, <1>4, <1>5 DEF Next

\* The inductive invariant holds of every reachable state.
THEOREM Invariance == Spec => []IInv
BY InitIInv, NextIInv, PTL DEF Spec

\* Every row and every request keeps its type.
THEOREM TypeCorrect == Spec => []TypeOK
<1>1. IInv => TypeOK
  BY DEF IInv, Rows, Calls, TypeOK
<1>2. QED BY <1>1, Invariance, PTL

\* No row outlives its parent, however the requests of
\* RestaurantService, CategoryService and DishService overlap.
THEOREM ReferencesHold == Spec => []References
<1>1. IInv => References
  BY DEF IInv, Rows
<1>2. QED BY <1>1, Invariance, PTL

\* RestaurantService.create leaves a user with one restaurant at most.
THEOREM OneRestaurant == Spec => []OneRestaurantPerOwner
<1>1. IInv => OneRestaurantPerOwner
  BY DEF IInv, Rows
<1>2. QED BY <1>1, Invariance, PTL

\* DishService.update never moves a dish to another restaurant, although what
\* it verified may be out of date when it commits.
THEOREM DishStays == Spec => DishStaysInRestaurant
<1>1. IInv /\ [Next]_vars =>
        [\A d \in Dish : dish[d] # None /\ dish'[d] # None
                           => RestaurantOf(d)' = RestaurantOf(d)]_vars
  <2> SUFFICES ASSUME IInv, [Next]_vars, ~UNCHANGED vars,
                      NEW d \in Dish, dish[d] # None, dish'[d] # None
               PROVE  RestaurantOf(d)' = RestaurantOf(d)
    OBVIOUS
  <2>1. Evolves
    BY NextIInv
  <2>2. QED BY <2>1 DEF Evolves, RestaurantOf
<1>2. QED BY <1>1, Invariance, PTL DEF Spec, DishStaysInRestaurant

\* No request brings a deleted dish back.
THEOREM DeletedStays == Spec => DeletedStaysDeleted
<1>1. IInv /\ [Next]_vars =>
        [\A d \in Dish : dish[d] # None /\ dish[d].deleted /\ dish'[d] # None
                           => dish'[d].deleted]_vars
  <2> SUFFICES ASSUME IInv, [Next]_vars, ~UNCHANGED vars,
                      NEW d \in Dish, dish[d] # None, dish[d].deleted, dish'[d] # None
               PROVE  dish'[d].deleted
    OBVIOUS
  <2>1. Evolves
    BY NextIInv
  <2>2. QED BY <2>1 DEF Evolves
<1>2. QED BY <1>1, Invariance, PTL DEF Spec, DeletedStaysDeleted

\* A request changes nothing of what another user has: the ownership it verified
\* some awaits ago is still what it was when it commits.
THEOREM Isolation == Spec => TenantIsolation
<1>1. IInv /\ [Next]_vars =>
        [\A u \in User : Holding(u)' # Holding(u) =>
           \E p \in Request : req[p].user = u /\ req'[p] # req[p]]_vars
  <2> SUFFICES ASSUME IInv, [Next]_vars, ~UNCHANGED vars,
                      NEW u \in User, Holding(u)' # Holding(u)
               PROVE  \E p \in Request : req[p].user = u /\ req'[p] # req[p]
    OBVIOUS
  <2>1. IInv' /\ Evolves
    BY NextIInv
  <2>2. ASSUME NEW p \in Request, NEW v \in User, Start(p, v) PROVE FALSE
    <3>1. UNCHANGED <<restaurant, category, dish>>
      BY <2>2 DEF Start, StartRestaurant, StartCategory, StartDish, CreateRestaurant,
         DeleteRestaurant, CreateCategory, UpdateCategory, DeleteCategory,
         ReorderCategories, CreateDish, UpdateDish, MoveDish, DeleteDish, ToggleAvailability
    <3>2. Holding(u)' = Holding(u)
      BY <3>1 DEF Holding, OwnsCategory, RestaurantsOf, DishesIn
    <3>3. QED BY <3>2
  <2>3. ASSUME NEW p \in Request, Step(p) PROVE req[p].user = u /\ req'[p] # req[p]
    <3>1. PICK v \in User : v = req[p].user
      <4>1. req[p].at # "idle"
        BY <2>3 DEF Step, InsertRestaurant, InsertCategory, InsertDish, DropRestaurant,
           WriteCategory, CheckNoActiveDish, LoadDishes, DropCategory, Reorder, VerifyMove,
           WriteDish, Abort
      <4>2. QED BY <4>1 DEF IInv, Calls, Formed
    <3>2. req[p].user = u
      <4>1. Confined(v)
        BY <2>1, <2>3, <3>1, CommitConfined DEF IInv
      <4>2. QED BY <2>1, <3>1, <4>1, OtherHolding DEF IInv
    <3>3. CASE CheckNoActiveDish(p) \/ LoadDishes(p) \/ VerifyMove(p) \/ Abort(p)
      <4>1. UNCHANGED <<restaurant, category, dish>>
        BY <3>3 DEF CheckNoActiveDish, LoadDishes, VerifyMove, Abort
      <4>2. Holding(u)' = Holding(u)
        BY <4>1 DEF Holding, OwnsCategory, RestaurantsOf, DishesIn
      <4>3. QED BY <4>2
    <3>4. CASE ~(CheckNoActiveDish(p) \/ LoadDishes(p) \/ VerifyMove(p) \/ Abort(p))
      <4>1. req[p].at # "idle" /\ req'[p] = NoCall
        BY <2>3, <3>4 DEF Step, InsertRestaurant, InsertCategory, InsertDish, DropRestaurant,
           WriteCategory, DropCategory, Reorder, WriteDish, End, EndPutting, IInv, Calls
      <4>2. NoCall.at = "idle"
        BY DEF NoCall
      <4>3. QED BY <3>2, <4>1, <4>2
    <3>5. QED BY <3>3, <3>4
  <2>4. QED BY <2>2, <2>3 DEF Next, vars
<1>2. QED BY <1>1, Invariance, PTL DEF Spec, TenantIsolation

\* CategoryService.delete takes no active dish along but one that was put into the
\* category after it had been checked.
THEOREM LateDishes == Spec => OnlyLateDishesLost
<1>1. IInv /\ ILate /\ [Next]_vars =>
        [\A d \in Dish : dish[d] # None /\ ~dish[d].deleted /\ dish'[d] = None =>
           \/ restaurant'[RestaurantOf(d)] = None
           \/ \E p \in Request : req[p].at = "dropCategory" /\ d \in req[p].late]_vars
  <2> SUFFICES ASSUME IInv, ILate, Next,
                      NEW d \in Dish, dish[d] # None, ~dish[d].deleted, dish'[d] = None
               PROVE  \/ restaurant'[RestaurantOf(d)] = None
                      \/ \E p \in Request : req[p].at = "dropCategory" /\ d \in req[p].late
    OBVIOUS
  <2>1. dish \in [Dish -> DishRow \cup {None}] /\ None \notin DishRow
    BY NoneAssumption DEF IInv, Rows
  <2>2. ASSUME NEW p \in Request, NEW u \in User, Start(p, u) PROVE FALSE
    BY <2>2, StartUnguarded
  <2>3. PICK p \in Request : Step(p)
    BY <2>2 DEF Next
  <2>4. CASE DropRestaurant(p)
    <3>1. RestaurantOf(d) = req[p].rest /\ req[p].rest \in Restaurant
      BY <2>4 DEF DropRestaurant, IInv, Calls, Formed
    <3>2. QED BY <2>4, <3>1 DEF DropRestaurant, IInv, Rows
  <2>5. CASE DropCategory(p)
    <3>1. d \in req[p].snap \/ d \in ActiveIn(req[p].cat)
      BY <2>5 DEF DropCategory, ActiveIn
    <3>2. QED BY <2>5, <3>1 DEF DropCategory, ILate, Guarded
  <2>6. ASSUME NEW e \in Dish, InsertDish(p, e) PROVE FALSE
    <3> DEFINE row == [cat |-> req[p].cat, pos |-> req[p].set.pos,
                       available |-> req[p].set.available, deleted |-> FALSE]
    <3>1. dish' = [dish EXCEPT ![e] = row] /\ dish[e] = None
      BY <2>6 DEF InsertDish, FreshDish
    <3> HIDE DEF row
    <3>2. QED BY <2>1, <3>1
  <2>7. CASE WriteDish(p)
    <3>1. Rows'
      BY <2>7, WriteDishRows
    <3>2. dish' = [dish EXCEPT ![req[p].dish] = NewDishRow(dish[req[p].dish], req[p].set)]
          /\ req[p].dish = d /\ req[p].set \in Columns
      BY <2>1, <2>7 DEF WriteDish, IInv, Calls, Formed, Call
    <3>3. NewDishRow(dish[d], req[p].set) \in DishRow
      BY <2>1, <3>2 DEF NewDishRow, Written, DishRow, Columns
    <3>4. QED BY <2>1, <3>2, <3>3
  <2>8. ASSUME UNCHANGED dish PROVE FALSE
    BY <2>8
  <2>9. QED
    BY <2>3, <2>4, <2>5, <2>6, <2>7, <2>8 DEF Step, InsertRestaurant, InsertCategory,
       WriteCategory, CheckNoActiveDish, LoadDishes, Reorder, VerifyMove, Abort
<1>2. Spec => [](IInv /\ ILate)
  BY InitIInv, InitILate, NextIInv, NextILate, PTL DEF Spec
<1>3. QED BY <1>1, <1>2, PTL DEF Spec, OnlyLateDishesLost

=============================================================================
