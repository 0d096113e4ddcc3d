----------------------------- MODULE CategoryOrder -----------------------------
(***************************************************************************)
(* What reordering categories promises: the order that was asked for is    *)
(* put in place in one step, whatever other requests do, or not at all.    *)
(***************************************************************************)
EXTENDS Naturals, Sequences

CONSTANTS Request, Category, MaxListed, None

VARIABLES
    place,  \* place[c]: the position of c, None when there is no such category
    asked   \* asked[p]: the order p has asked for, empty when it awaits no answer

Init ==
    /\ place = [c \in Category |-> 0]
    /\ asked = [p \in Request |-> <<>>]

Ask(p) ==
    /\ asked[p] = <<>>
    /\ \E n \in 1..MaxListed : \E ids \in [1..n -> Category] :
         asked' = [asked EXCEPT ![p] = ids]
    /\ UNCHANGED place

\* Where `ids` has c: the last of its places, counted from 0.
PlaceIn(ids, c) ==
    CHOOSE n \in 0..Len(ids) - 1 :
        ids[n + 1] = c /\ \A k \in n + 2..Len(ids) : ids[k] # c

Listed(p) == {asked[p][k] : k \in 1..Len(asked[p])}

\* The categories that are listed get their places; those that have gone stay away.
Reorder(p) ==
    /\ asked[p] # <<>>
    /\ place' = [c \in Category |-> IF place[c] # None /\ c \in Listed(p)
                                    THEN PlaceIn(asked[p], c) ELSE place[c]]
    /\ asked' = [asked EXCEPT ![p] = <<>>]

Refuse(p) ==
    /\ asked[p] # <<>>
    /\ asked' = [asked EXCEPT ![p] = <<>>]
    /\ UNCHANGED place

Put(c) ==
    /\ place[c] # None
    /\ place' = [place EXCEPT ![c] = 0]
    /\ UNCHANGED asked

Delete(c) ==
    /\ place' = [place EXCEPT ![c] = None]
    /\ UNCHANGED asked

Next ==
    \/ \E p \in Request : Ask(p) \/ Reorder(p) \/ Refuse(p)
    \/ \E c \in Category : Put(c) \/ Delete(c)

Spec == Init /\ [][Next]_<<place, asked>>

=============================================================================
