--------------------------- MODULE ReordersProofs ---------------------------
(***************************************************************************)
(* Theorems about Reorders, for any number of requests and categories and  *)
(* lists of any length, and about DishPages, for any number of walks and   *)
(* dishes and pages of any size.                                           *)
(*                                                                         *)
(* A transaction holds the lock of every row it has written and remembers  *)
(* what the row was before; the row has the last place at which the list   *)
(* named it so far, and the categories that were named and not written are *)
(* gone for good (Written).  So what the others see never changes before   *)
(* the commit, and at the commit every category that is left is where the  *)
(* list has it.                                                            *)
(*                                                                         *)
(* While no dish leaves a list, the steady ones only move away from its    *)
(* beginning (SteadyBehind); while none comes, they only move towards it   *)
(* (SeenBehind).  So the first are not passed over, and the second are not *)
(* met again.                                                              *)
(***************************************************************************)
EXTENDS Reorders, DishPages, FiniteSetTheorems, SequenceTheorems, WellFoundedInduction, TLAPS

\* A request that was asked for an order is at a place of its list, or at the end.
ListOK(p) ==
    req[p].at \in {"verify", "update"} =>
        /\ Len(req[p].ids) >= 1
        /\ req[p].next <= Len(req[p].ids) + 1
        /\ req[p].at = "verify" => req[p].next <= Len(req[p].ids)

\* Nothing is written before the lookups are through.
Clean(p) == req[p].at \in {"idle", "verify"} => WroteOf(p) = {}

\* n is the last of the places in ids, up to k, that name c.
LastPlace(n, ids, c, k) ==
    /\ n \in 1..k
    /\ ids[n] = c
    /\ \A j \in n + 1..k : ids[j] # c

Written(p) ==
    \A c \in Category :
        /\ req[p].undo[c] # None =>
             /\ locked[c] = p
             /\ pos[c] # None
             /\ LastPlace(pos[c] + 1, req[p].ids, c, req[p].next - 1)
        /\ req[p].undo[c] = None =>
             \A k \in 1..req[p].next - 1 : req[p].ids[k] = c => pos[c] = None

IInv ==
    /\ TypeOK
    /\ \A p \in Request :
         ListOK(p) /\ Clean(p) /\ (req[p].at = "update" => Written(p))

----------------------------------------------------------------------------
(* Lists and calls *)

LEMMA ListType ==
    ASSUME NEW ids \in BoundedSeq(Category, MaxListed)
    PROVE  /\ Len(ids) \in 0..MaxListed
           /\ ids \in [1..Len(ids) -> Category]
<1>1. PICK m \in 0..MaxListed : ids \in [1..m -> Category]
  BY DEF BoundedSeq, SeqOf
<1>2. m \in Nat
  BY <1>1, BoundsAssumption
<1>3. ids \in Seq(Category)
  BY <1>1, <1>2, SeqDef
<1>4. Len(ids) \in Nat /\ ids \in [1..Len(ids) -> Category]
  BY <1>3, LenProperties
<1>5. \A k \in Nat : k \in 1..m <=> k \in 1..Len(ids)
  BY <1>1, <1>4
<1>6. Len(ids) <= m
  BY <1>2, <1>4, <1>5
<1>7. QED BY <1>1, <1>4, <1>6, BoundsAssumption

LEMMA NoCallType == NoCall \in Call
<1>1. <<>> \in BoundedSeq(Category, MaxListed)
  <2>1. <<>> \in [1..0 -> Category] /\ 0 \in 0..MaxListed
    BY BoundsAssumption
  <2>2. QED BY <2>1 DEF BoundedSeq, SeqOf
<1>2. [c \in Category |-> None] \in [Category -> Nat \cup {None}]
  OBVIOUS
<1>3. QED BY <1>1, <1>2, BoundsAssumption DEF NoCall, Call

LEMMA CallParts ==
    ASSUME TypeOK, NEW p \in Request
    PROVE  /\ req[p] \in Call
           /\ req[p].at \in {"idle", "verify", "update", "committed", "failed"}
           /\ req[p].next \in 1..MaxListed + 1
           /\ req[p].undo \in [Category -> Nat \cup {None}]
           /\ req[p].ids \in BoundedSeq(Category, MaxListed)
           /\ Len(req[p].ids) \in 0..MaxListed
           /\ req[p].ids \in [1..Len(req[p].ids) -> Category]
<1>1. req[p] \in Call
  BY DEF TypeOK
<1>2. QED BY <1>1, ListType DEF Call

LEMMA SetParts ==
    ASSUME TypeOK, NEW p \in Request, NEW call \in Call, Set(p, call)
    PROVE  /\ req' \in [Request -> Call]
           /\ req'[p] = call
           /\ \A q \in Request \ {p} : req'[q] = req[q]
BY DEF TypeOK, Set

----------------------------------------------------------------------------
(* Steps *)

\* A step that leaves the rows a request has written, and brings no row back.
LEMMA OthersStay ==
    ASSUME NEW q \in Request, Written(q), req'[q] = req[q],
           \A c \in Category : locked[c] = q => locked'[c] = q /\ pos'[c] = pos[c],
           \A c \in Category : pos[c] = None => pos'[c] = None
    PROVE  Written(q)'
BY DEF Written, LastPlace

LEMMA InitIInv == Init => IInv
<1> SUFFICES ASSUME Init PROVE IInv
  OBVIOUS
<1>1. req \in [Request -> Call] /\ \A p \in Request : req[p].at = "idle"
  BY NoCallType DEF Init, NoCall
<1>2. \A p \in Request : WroteOf(p) = {}
  BY DEF Init, NoCall, WroteOf
<1>3. TypeOK
  BY <1>1 DEF Init, TypeOK
<1>4. QED BY <1>1, <1>2, <1>3 DEF IInv, ListOK, Clean

\* A step of one request that leaves the table alone.
LEMMA LocalStep ==
    ASSUME IInv, NEW p \in Request, req[p].at \in {"idle", "verify"},
           req' \in [Request -> Call], \A q \in Request \ {p} : req'[q] = req[q],
           UNCHANGED <<pos, locked>>,
           req'[p].at \in {"verify", "update", "failed"},
           \A c \in Category : req'[p].undo[c] = None,
           req'[p].at \in {"verify", "update"} =>
               Len(req'[p].ids) >= 1 /\ req'[p].next <= Len(req'[p].ids),
           req'[p].at = "update" => req'[p].next = 1
    PROVE  IInv'
<1>1. \A c \in Category : locked[c] # p
  BY NoneAssumption DEF IInv, TypeOK
<1>2. TypeOK'
  BY <1>1 DEF IInv, TypeOK, WroteOf
<1>3. ASSUME NEW q \in Request \ {p}
      PROVE  (ListOK(q) /\ Clean(q) /\ (req[q].at = "update" => Written(q)))'
  <2>1. req'[q] = req[q] /\ ListOK(q) /\ Clean(q) /\ (req[q].at = "update" => Written(q))
    BY <1>3 DEF IInv
  <2>2. req[q].at = "update" => Written(q)'
    BY <2>1, OthersStay
  <2>3. QED BY <2>1, <2>2 DEF ListOK, Clean, WroteOf
<1>4. ListOK(p)' /\ Clean(p)'
  <2>1. Len(req'[p].ids) \in Nat /\ req'[p].next \in Nat
    BY ListType, BoundsAssumption DEF Call
  <2>2. QED BY <2>1 DEF ListOK, Clean, WroteOf
<1>5. (req[p].at = "update" => Written(p))'
  BY DEF Written
<1>6. QED BY <1>2, <1>3, <1>4, <1>5 DEF IInv

LEMMA StepBegin ==
    ASSUME IInv, NEW p \in Request, NEW ids \in Listing, Begin(p, ids)
    PROVE  IInv'
<1> DEFINE call == [NoCall EXCEPT !.at = "verify", !.ids = ids]
<1>1. ids \in BoundedSeq(Category, MaxListed) /\ Len(ids) >= 1
  <2>1. ids \in BoundedSeq(Category, MaxListed) /\ ids # <<>>
    BY DEF Listing
  <2>2. Len(ids) # 0
    BY <2>1, ListType, EmptySeq DEF BoundedSeq, SeqOf
  <2>3. QED BY <2>1, <2>2, ListType, BoundsAssumption
<1>2. /\ call \in Call /\ call.at = "verify" /\ call.ids = ids /\ call.next = 1
      /\ \A c \in Category : call.undo[c] = None
  BY <1>1, NoCallType DEF NoCall, Call
<1>3. Set(p, call) /\ UNCHANGED <<pos, locked>> /\ req[p].at = "idle"
  BY DEF Begin
<1> HIDE DEF call
<1>4. /\ req' \in [Request -> Call] /\ req'[p] = call
      /\ \A q \in Request \ {p} : req'[q] = req[q]
  BY <1>2, <1>3, SetParts DEF IInv
<1>5. QED BY <1>1, <1>2, <1>3, <1>4, LocalStep

\* What a lookup does, field by field.
LEMMA VerifyParts ==
    ASSUME IInv, NEW p \in Request, Verify(p)
    PROVE  /\ req[p].at = "verify"
           /\ req' \in [Request -> Call] /\ \A q \in Request \ {p} : req'[q] = req[q]
           /\ req'[p].at \in {"verify", "update", "failed"}
           /\ req'[p].ids = req[p].ids /\ req'[p].undo = req[p].undo
           /\ req'[p].at \in {"verify", "update"} => req'[p].next <= Len(req[p].ids)
           /\ req'[p].at = "update" => req'[p].next = 1
           /\ UNCHANGED <<pos, locked>>
<1>1. /\ req[p] \in Call /\ Len(req[p].ids) \in Nat /\ req[p].next \in Nat
      /\ req[p].at = "verify" /\ Len(req[p].ids) >= 1 /\ req[p].next <= Len(req[p].ids)
      /\ Len(req[p].ids) <= MaxListed /\ req[p].next >= 1
      /\ TypeOK /\ UNCHANGED <<pos, locked>>
  BY CallParts, BoundsAssumption DEF IInv, Verify, ListOK
<1>2. CASE Set(p, [req[p] EXCEPT !.at = "failed"])
  <2> DEFINE call == [req[p] EXCEPT !.at = "failed"]
  <2>1. /\ call \in Call /\ call.at = "failed" /\ call.undo = req[p].undo
        /\ call.ids = req[p].ids
    BY <1>1 DEF Call
  <2>2. Set(p, call)
    BY <1>2
  <2> HIDE DEF call
  <2>3. QED BY <1>1, <2>1, <2>2, SetParts
<1>3. CASE req[p].next = Len(req[p].ids) /\ Set(p, [req[p] EXCEPT !.at = "update", !.next = 1])
  <2> DEFINE call == [req[p] EXCEPT !.at = "update", !.next = 1]
  <2>1. /\ call \in Call /\ call.at = "update" /\ call.undo = req[p].undo
        /\ call.ids = req[p].ids /\ call.next = 1
    <3>1. 1 \in 1..MaxListed + 1
      BY BoundsAssumption
    <3>2. QED BY <1>1, <3>1 DEF Call
  <2>2. Set(p, call)
    BY <1>3
  <2> HIDE DEF call
  <2>3. QED BY <1>1, <2>1, <2>2, SetParts
<1>4. CASE /\ req[p].next # Len(req[p].ids)
           /\ Set(p, [req[p] EXCEPT !.at = "verify", !.next = req[p].next + 1])
  <2> DEFINE call == [req[p] EXCEPT !.at = "verify", !.next = req[p].next + 1]
  <2>1. /\ call \in Call /\ call.at = "verify" /\ call.undo = req[p].undo
        /\ call.ids = req[p].ids /\ call.next = req[p].next + 1
    <3>1. req[p].next + 1 \in 1..MaxListed + 1
      BY <1>1, <1>4, BoundsAssumption
    <3>2. QED BY <1>1, <3>1 DEF Call
  <2>2. Set(p, call)
    BY <1>4
  <2> HIDE DEF call
  <2>3. QED BY <1>1, <1>4, <2>1, <2>2, SetParts
<1>5. QED BY <1>2, <1>3, <1>4 DEF Verify

LEMMA StepVerify ==
    ASSUME IInv, NEW p \in Request, Verify(p)
    PROVE  IInv'
<1>1. \A c \in Category : req[p].undo[c] = None
  BY VerifyParts DEF IInv, Clean, WroteOf
<1>2. Len(req[p].ids) >= 1
  BY VerifyParts DEF IInv, ListOK
<1>3. QED BY <1>1, <1>2, VerifyParts, LocalStep

\* What an UPDATE does, field by field.
LEMMA UpdateParts ==
    ASSUME IInv, NEW p \in Request, Update(p)
    PROVE  \E c \in Category :
             /\ req[p].at = "update" /\ req[p].next <= Len(req[p].ids)
             /\ c = req[p].ids[req[p].next] /\ locked[c] \in {None, p}
             /\ req' \in [Request -> Call] /\ \A q \in Request \ {p} : req'[q] = req[q]
             /\ req'[p].at = "update" /\ req'[p].ids = req[p].ids
             /\ req'[p].next = req[p].next + 1
             /\ \A d \in Category \ {c} : req'[p].undo[d] = req[p].undo[d]
             /\ pos[c] = None => req'[p].undo[c] = req[p].undo[c] /\ UNCHANGED <<pos, locked>>
             /\ pos[c] # None =>
                  /\ req'[p].undo[c] = IF req[p].undo[c] = None THEN pos[c] ELSE req[p].undo[c]
                  /\ pos' = [pos EXCEPT ![c] = req[p].next - 1]
                  /\ locked' = [locked EXCEPT ![c] = p]
<1>1. PICK c \in Wants(p) :
        /\ MayLock(p, c)
        /\ IF pos[c] = None
           THEN /\ Set(p, [req[p] EXCEPT !.next = req[p].next + 1])
                /\ UNCHANGED <<pos, locked>>
           ELSE /\ Set(p, [req[p] EXCEPT !.next = req[p].next + 1,
                             !.undo[c] = IF req[p].undo[c] = None THEN pos[c] ELSE req[p].undo[c]])
                /\ pos' = [pos EXCEPT ![c] = req[p].next - 1]
                /\ locked' = [locked EXCEPT ![c] = p]
  BY DEF Update
<1>2. /\ req[p].at = "update" /\ req[p].next <= Len(req[p].ids)
      /\ c = req[p].ids[req[p].next] /\ locked[c] \in {None, p}
  BY <1>1 DEF Wants, MayLock
<1>3. /\ req[p] \in Call /\ Len(req[p].ids) \in Nat /\ req[p].next \in Nat /\ req[p].next >= 1
      /\ Len(req[p].ids) <= MaxListed /\ req[p].ids \in [1..Len(req[p].ids) -> Category]
      /\ req[p].undo \in [Category -> Nat \cup {None}]
      /\ pos \in [Category -> Nat \cup {None}] /\ TypeOK
  BY CallParts, BoundsAssumption DEF IInv, TypeOK
<1>4. c \in Category /\ req[p].next + 1 \in 1..MaxListed + 1
  BY <1>2, <1>3, BoundsAssumption
<1>5. CASE pos[c] = None
  <2> DEFINE call == [req[p] EXCEPT !.next = req[p].next + 1]
  <2>1. /\ call \in Call /\ call.at = "update" /\ call.ids = req[p].ids
        /\ call.next = req[p].next + 1 /\ call.undo = req[p].undo
    BY <1>2, <1>3, <1>4 DEF Call
  <2>2. Set(p, call) /\ UNCHANGED <<pos, locked>>
    BY <1>1, <1>5
  <2> HIDE DEF call
  <2>3. /\ req' \in [Request -> Call] /\ req'[p] = call
        /\ \A q \in Request \ {p} : req'[q] = req[q]
    BY <1>3, <2>1, <2>2, SetParts
  <2>4. QED BY <1>2, <1>4, <1>5, <2>1, <2>2, <2>3
<1>6. CASE pos[c] # None
  <2> DEFINE old == IF req[p].undo[c] = None THEN pos[c] ELSE req[p].undo[c]
             call == [req[p] EXCEPT !.next = req[p].next + 1, !.undo[c] = old]
  <2>1. old \in Nat
    BY <1>3, <1>4, <1>6
  <2>2. /\ Set(p, call) /\ pos' = [pos EXCEPT ![c] = req[p].next - 1]
        /\ locked' = [locked EXCEPT ![c] = p]
    BY <1>1, <1>6
  <2>3. old = IF req[p].undo[c] = None THEN pos[c] ELSE req[p].undo[c]
    OBVIOUS
  <2> HIDE DEF old
  <2>4. /\ call \in Call /\ call.at = "update" /\ call.ids = req[p].ids
        /\ call.next = req[p].next + 1 /\ call.undo = [req[p].undo EXCEPT ![c] = old]
    <3>1. [req[p].undo EXCEPT ![c] = old] \in [Category -> Nat \cup {None}]
      BY <1>3, <2>1
    <3>2. QED BY <1>2, <1>3, <1>4, <3>1 DEF Call
  <2> HIDE DEF call
  <2>5. call.undo[c] = old /\ \A d \in Category \ {c} : call.undo[d] = req[p].undo[d]
    BY <1>3, <1>4, <2>4
  <2>6. /\ req' \in [Request -> Call] /\ req'[p] = call
        /\ \A q \in Request \ {p} : req'[q] = req[q]
    BY <1>3, <2>2, <2>4, SetParts
  <2>7. QED BY <1>2, <1>4, <1>6, <2>2, <2>3, <2>4, <2>5, <2>6
<1>7. QED BY <1>5, <1>6

\* An UPDATE that finds its row gone: only the place in the list moves.
LEMMA StepUpdateGone ==
    ASSUME IInv, NEW p \in Request, NEW c \in Category,
           req[p].at = "update", req[p].next <= Len(req[p].ids), c = req[p].ids[req[p].next],
           req' \in [Request -> Call], \A q \in Request \ {p} : req'[q] = req[q],
           req'[p].at = "update", req'[p].ids = req[p].ids, req'[p].next = req[p].next + 1,
           \A d \in Category : req'[p].undo[d] = req[p].undo[d],
           pos[c] = None, UNCHANGED <<pos, locked>>
    PROVE  IInv'
<1>1. /\ Len(req[p].ids) \in Nat /\ req[p].next \in Nat
      /\ req[p].next >= 1 /\ Len(req[p].ids) >= 1 /\ Written(p) /\ ListOK(p)
  BY CallParts, BoundsAssumption DEF IInv, ListOK
<1>2. TypeOK'
  BY DEF IInv, TypeOK, WroteOf
<1>3. ASSUME NEW q \in Request \ {p}
      PROVE  (ListOK(q) /\ Clean(q) /\ (req[q].at = "update" => Written(q)))'
  <2>1. req'[q] = req[q] /\ ListOK(q) /\ Clean(q) /\ (req[q].at = "update" => Written(q))
    BY <1>3 DEF IInv
  <2>2. req[q].at = "update" => Written(q)'
    BY <2>1, OthersStay
  <2>3. QED BY <2>1, <2>2 DEF ListOK, Clean, WroteOf
<1>4. ListOK(p)' /\ Clean(p)'
  BY <1>1 DEF ListOK, Clean
<1>5. Written(p)'
  <2> SUFFICES ASSUME NEW d \in Category
               PROVE  /\ req[p].undo[d] # None =>
                           /\ locked[d] = p /\ pos[d] # None
                           /\ LastPlace(pos[d] + 1, req[p].ids, d, req[p].next)
                      /\ req[p].undo[d] = None =>
                           \A k \in 1..req[p].next : req[p].ids[k] = d => pos[d] = None
    BY <1>1 DEF Written
  <2>1. /\ req[p].undo[d] # None =>
             /\ locked[d] = p /\ pos[d] # None
             /\ LastPlace(pos[d] + 1, req[p].ids, d, req[p].next - 1)
        /\ req[p].undo[d] = None =>
             \A k \in 1..req[p].next - 1 : req[p].ids[k] = d => pos[d] = None
    BY <1>1 DEF Written
  <2>2. pos[d] # None => pos[d] \in Nat /\ c # d
    BY DEF IInv, TypeOK
  <2>3. \A k \in 1..req[p].next : k \in 1..req[p].next - 1 \/ k = req[p].next
    BY <1>1
  <2>4. QED BY <1>1, <2>1, <2>2, <2>3 DEF LastPlace
<1>6. QED BY <1>2, <1>3, <1>4, <1>5 DEF IInv

\* An UPDATE of a row that is free, or locked already by this transaction.
LEMMA StepUpdateRow ==
    ASSUME IInv, NEW p \in Request, NEW c \in Category, NEW n \in Nat,
           req[p].at = "update", n = req[p].next, n >= 1, n <= Len(req[p].ids),
           c = req[p].ids[n], locked[c] \in {None, p},
           req' \in [Request -> Call], \A q \in Request \ {p} : req'[q] = req[q],
           req'[p].at = "update", req'[p].ids = req[p].ids, req'[p].next = n + 1,
           req'[p].undo[c] # None,
           \A d \in Category \ {c} : req'[p].undo[d] = req[p].undo[d],
           pos' \in [Category -> Nat \cup {None}], pos'[c] = n - 1,
           locked' \in [Category -> Request \cup {None}], locked'[c] = p,
           \A d \in Category \ {c} : pos'[d] = pos[d] /\ locked'[d] = locked[d],
           pos[c] # None
    PROVE  IInv'
<1>1. /\ Len(req[p].ids) \in Nat /\ Written(p)
      /\ pos \in [Category -> Nat \cup {None}] /\ locked \in [Category -> Request \cup {None}]
  BY CallParts, BoundsAssumption DEF IInv, TypeOK
<1>2. TypeOK'
  <2>1. ASSUME NEW d \in Category, locked'[d] # None
        PROVE  req'[locked'[d]].at = "update" /\ req'[locked'[d]].undo[d] # None
    <3>1. CASE locked'[d] = p
      <4>1. req'[p].undo[d] # None
        <5>1. CASE d = c
          BY <5>1
        <5>2. CASE d # c
          <6>1. locked[d] = p
            BY <3>1, <5>2
          <6>2. p # None
            BY NoneAssumption
          <6>3. req[p].undo[d] # None
            BY <6>1, <6>2 DEF IInv, TypeOK, WroteOf
          <6>4. QED BY <5>2, <6>3
        <5>3. QED BY <5>1, <5>2
      <4>2. QED BY <3>1, <4>1
    <3>2. CASE locked'[d] # p
      <4>1. d # c /\ locked'[d] = locked[d]
        BY <3>2
      <4>2. locked[d] \in Request \ {p} /\ locked[d] # None
        BY <1>1, <2>1, <3>2, <4>1
      <4>3. req[locked[d]].at = "update" /\ req[locked[d]].undo[d] # None
        BY <4>2 DEF IInv, TypeOK, WroteOf
      <4>4. QED BY <4>1, <4>2, <4>3
    <3>3. QED BY <3>1, <3>2
  <2>2. QED BY <2>1 DEF TypeOK, WroteOf
<1>3. ASSUME NEW q \in Request \ {p}
      PROVE  (ListOK(q) /\ Clean(q) /\ (req[q].at = "update" => Written(q)))'
  <2>1. req'[q] = req[q] /\ ListOK(q) /\ Clean(q) /\ (req[q].at = "update" => Written(q))
    BY <1>3 DEF IInv
  <2>2. \A d \in Category : locked[d] = q => d # c
    BY <1>3, NoneAssumption
  <2>3. req[q].at = "update" => Written(q)'
    BY <2>1, <2>2, OthersStay
  <2>4. QED BY <2>1, <2>3 DEF ListOK, Clean, WroteOf
<1>4. ListOK(p)' /\ Clean(p)'
  BY <1>1 DEF ListOK, Clean
<1>5. Written(p)'
  <2> SUFFICES ASSUME NEW d \in Category
               PROVE  /\ req'[p].undo[d] # None =>
                           /\ locked'[d] = p /\ pos'[d] # None
                           /\ LastPlace(pos'[d] + 1, req[p].ids, d, n)
                      /\ req'[p].undo[d] = None =>
                           \A k \in 1..n : req[p].ids[k] = d => pos'[d] = None
    BY <1>1 DEF Written
  <2>1. CASE d = c
    <3>1. pos'[c] + 1 = n /\ pos'[c] \in Nat
      OBVIOUS
    <3>2. LastPlace(n, req[p].ids, c, n)
      BY DEF LastPlace
    <3>3. QED BY <2>1, <3>1, <3>2, NoneAssumption
  <2>2. CASE d # c
    <3>1. /\ req[p].undo[d] # None =>
               /\ locked[d] = p /\ pos[d] # None
               /\ LastPlace(pos[d] + 1, req[p].ids, d, n - 1)
          /\ req[p].undo[d] = None =>
               \A k \in 1..n - 1 : req[p].ids[k] = d => pos[d] = None
      BY <1>1 DEF Written
    <3>2. pos[d] # None => pos[d] \in Nat
      BY <1>1
    <3>3. \A k \in 1..n : k \in 1..n - 1 \/ k = n
      BY <1>1
    <3>4. /\ req[p].undo[d] # None =>
               /\ locked[d] = p /\ pos[d] # None
               /\ LastPlace(pos[d] + 1, req[p].ids, d, n)
          /\ req[p].undo[d] = None =>
               \A k \in 1..n : req[p].ids[k] = d => pos[d] = None
      BY <1>1, <2>2, <3>1, <3>2, <3>3 DEF LastPlace
    <3>5. QED BY <2>2, <3>4
  <2>3. QED BY <2>1, <2>2
<1>6. QED BY <1>2, <1>3, <1>4, <1>5 DEF IInv

LEMMA StepUpdate ==
    ASSUME IInv, NEW p \in Request, Update(p)
    PROVE  IInv'
<1>1. PICK c \in Category :
        /\ req[p].at = "update" /\ req[p].next <= Len(req[p].ids)
        /\ c = req[p].ids[req[p].next] /\ locked[c] \in {None, p}
        /\ req' \in [Request -> Call] /\ \A q \in Request \ {p} : req'[q] = req[q]
        /\ req'[p].at = "update" /\ req'[p].ids = req[p].ids
        /\ req'[p].next = req[p].next + 1
        /\ \A d \in Category \ {c} : req'[p].undo[d] = req[p].undo[d]
        /\ pos[c] = None => req'[p].undo[c] = req[p].undo[c] /\ UNCHANGED <<pos, locked>>
        /\ pos[c] # None =>
             /\ req'[p].undo[c] = IF req[p].undo[c] = None THEN pos[c] ELSE req[p].undo[c]
             /\ pos' = [pos EXCEPT ![c] = req[p].next - 1]
             /\ locked' = [locked EXCEPT ![c] = p]
  BY UpdateParts
<1>2. /\ req[p].next \in Nat /\ req[p].next >= 1 /\ req[p].next - 1 \in Nat
      /\ pos \in [Category -> Nat \cup {None}] /\ locked \in [Category -> Request \cup {None}]
  BY CallParts, BoundsAssumption DEF IInv, TypeOK
<1>3. CASE pos[c] = None
  BY <1>1, <1>3, StepUpdateGone
<1>4. CASE pos[c] # None
  <2> PICK n \in Nat : n = req[p].next
    BY <1>2
  <2>1. /\ pos' \in [Category -> Nat \cup {None}] /\ pos'[c] = n - 1
        /\ \A d \in Category \ {c} : pos'[d] = pos[d]
    BY <1>1, <1>2, <1>4
  <2>2. /\ locked' \in [Category -> Request \cup {None}] /\ locked'[c] = p
        /\ \A d \in Category \ {c} : locked'[d] = locked[d]
    BY <1>1, <1>2, <1>4
  <2>3. req'[p].undo[c] # None
    BY <1>1, <1>4
  <2>4. n >= 1 /\ n <= Len(req[p].ids) /\ c = req[p].ids[n] /\ req'[p].next = n + 1
    BY <1>1, <1>2
  <2>5. /\ req[p].at = "update" /\ locked[c] \in {None, p}
        /\ req' \in [Request -> Call] /\ \A q \in Request \ {p} : req'[q] = req[q]
        /\ req'[p].at = "update" /\ req'[p].ids = req[p].ids
        /\ \A d \in Category \ {c} : req'[p].undo[d] = req[p].undo[d]
    BY <1>1
  <2>6. QED BY <1>4, <2>1, <2>2, <2>3, <2>4, <2>5, StepUpdateRow
<1>5. QED BY <1>3, <1>4

\* The end of a transaction: its locks are free, the rows of others untouched.
LEMMA StepEnd ==
    ASSUME IInv, NEW p \in Request, NEW call \in Call, Set(p, call),
           call.at \in {"committed", "failed"}, FreeLocks(p),
           pos' \in [Category -> Nat \cup {None}],
           \A c \in Category : locked[c] # p => pos'[c] = pos[c],
           \A c \in Category : pos[c] = None => pos'[c] = None
    PROVE  IInv'
<1>1. /\ req' \in [Request -> Call] /\ req'[p] = call
      /\ \A q \in Request \ {p} : req'[q] = req[q]
  BY SetParts DEF IInv
<1>2. /\ locked \in [Category -> Request \cup {None}]
      /\ locked' \in [Category -> Request \cup {None}]
      /\ \A c \in Category : locked'[c] = IF locked[c] = p THEN None ELSE locked[c]
  BY DEF FreeLocks, IInv, TypeOK
<1>3. TypeOK'
  <2>1. ASSUME NEW c \in Category, locked'[c] # None
        PROVE  req'[locked'[c]].at = "update" /\ req'[locked'[c]].undo[c] # None
    <3>1. locked'[c] = locked[c] /\ locked[c] \in Request \ {p}
      BY <1>2, <2>1
    <3>2. req[locked[c]].at = "update" /\ req[locked[c]].undo[c] # None
      BY <2>1, <3>1 DEF IInv, TypeOK, WroteOf
    <3>3. QED BY <1>1, <3>1, <3>2
  <2>2. QED BY <1>1, <1>2, <2>1 DEF TypeOK, WroteOf
<1>4. ASSUME NEW q \in Request \ {p}
      PROVE  (ListOK(q) /\ Clean(q) /\ (req[q].at = "update" => Written(q)))'
  <2>1. req'[q] = req[q] /\ ListOK(q) /\ Clean(q) /\ (req[q].at = "update" => Written(q))
    BY <1>1, <1>4 DEF IInv
  <2>2. req[q].at = "update" => Written(q)'
    BY <1>2, <2>1, OthersStay
  <2>3. QED BY <2>1, <2>2 DEF ListOK, Clean, WroteOf
<1>5. ListOK(p)' /\ Clean(p)' /\ (req[p].at = "update" => Written(p))'
  BY <1>1 DEF ListOK, Clean
<1>6. QED BY <1>3, <1>4, <1>5 DEF IInv

LEMMA StepCommit ==
    ASSUME IInv, NEW p \in Request, Commit(p)
    PROVE  IInv'
<1> DEFINE call == [req[p] EXCEPT !.at = "committed"]
<1>1. call \in Call /\ call.at = "committed"
  BY CallParts DEF IInv, Call
<1>2. Set(p, call) /\ FreeLocks(p) /\ pos' = pos
  BY DEF Commit
<1> HIDE DEF call
<1>3. pos' \in [Category -> Nat \cup {None}]
  BY <1>2 DEF IInv, TypeOK
<1>4. QED BY <1>1, <1>2, <1>3, StepEnd

\* A rollback puts the rows back that were written, which are locked.
LEMMA RollbackParts ==
    ASSUME IInv, NEW p \in Request, Fail(p)
    PROVE  /\ pos' \in [Category -> Nat \cup {None}]
           /\ \A c \in Category :
                /\ c \in WroteOf(p) => locked[c] = p /\ pos'[c] = req[p].undo[c]
                /\ c \notin WroteOf(p) => pos'[c] = pos[c]
                /\ pos[c] = None => pos'[c] = None
<1>1. pos' = [c \in Category |-> IF c \in WroteOf(p) THEN req[p].undo[c] ELSE pos[c]]
  BY DEF Fail
<1>2. /\ pos \in [Category -> Nat \cup {None}]
      /\ req[p].undo \in [Category -> Nat \cup {None}]
  BY CallParts DEF IInv, TypeOK
<1>3. \A c \in WroteOf(p) : locked[c] = p /\ pos[c] # None
  BY DEF Fail, IInv, Clean, Written, WroteOf
<1>4. QED BY <1>1, <1>2, <1>3

LEMMA StepFail ==
    ASSUME IInv, NEW p \in Request, Fail(p)
    PROVE  IInv'
<1> DEFINE call == [req[p] EXCEPT !.at = "failed"]
<1>1. call \in Call /\ call.at = "failed"
  BY CallParts DEF IInv, Call
<1>2. Set(p, call) /\ FreeLocks(p)
  BY DEF Fail
<1> HIDE DEF call
<1>3. QED BY <1>1, <1>2, RollbackParts, StepEnd

\* Another request writes or deletes a row that nobody has locked.
LEMMA StepOther ==
    ASSUME IInv, NEW c \in Category, locked[c] = None, pos[c] # None,
           NEW n \in Nat \cup {None}, pos' = [pos EXCEPT ![c] = n],
           UNCHANGED <<locked, req>>
    PROVE  IInv'
<1>1. /\ pos' \in [Category -> Nat \cup {None}]
      /\ \A d \in Category : locked[d] # None => pos'[d] = pos[d]
      /\ \A d \in Category : pos[d] = None => pos'[d] = None
  BY DEF IInv, TypeOK
<1>2. TypeOK'
  BY <1>1 DEF IInv, TypeOK, WroteOf
<1>3. ASSUME NEW q \in Request
      PROVE  (ListOK(q) /\ Clean(q) /\ (req[q].at = "update" => Written(q)))'
  <2>1. req'[q] = req[q] /\ ListOK(q) /\ Clean(q) /\ (req[q].at = "update" => Written(q))
    BY DEF IInv
  <2>2. req[q].at = "update" => Written(q)'
    BY <1>1, <2>1, OthersStay, NoneAssumption
  <2>3. QED BY <2>1, <2>2 DEF ListOK, Clean, WroteOf
<1>4. QED BY <1>2, <1>3 DEF IInv

LEMMA NextIInv == IInv /\ [Next]_vars => IInv'
<1> SUFFICES ASSUME IInv, [Next]_vars PROVE IInv'
  OBVIOUS
<1>1. ASSUME NEW p \in Request, NEW ids \in Listing, Begin(p, ids) PROVE IInv'
  BY <1>1, StepBegin
<1>2. ASSUME NEW p \in Request, Verify(p) PROVE IInv'
  BY <1>2, StepVerify
<1>3. ASSUME NEW p \in Request, Update(p) PROVE IInv'
  BY <1>3, StepUpdate
<1>4. ASSUME NEW p \in Request, Commit(p) PROVE IInv'
  BY <1>4, StepCommit
<1>5. ASSUME NEW p \in Request, Fail(p) PROVE IInv'
  BY <1>5, StepFail
<1>6. ASSUME NEW c \in Category, PutPosition(c, 0) PROVE IInv'
  BY <1>6, StepOther DEF PutPosition
<1>7. ASSUME NEW c \in Category, DeleteCategory(c) PROVE IInv'
  BY <1>7, StepOther DEF DeleteCategory
<1>8. CASE UNCHANGED vars
  <2>1. TypeOK'
    BY <1>8 DEF vars, IInv, TypeOK, WroteOf
  <2>2. \A q \in Request : (ListOK(q) /\ Clean(q) /\ (req[q].at = "update" => Written(q)))'
    BY <1>8 DEF vars, IInv, ListOK, Clean, WroteOf, Written
  <2>3. QED BY <2>1, <2>2 DEF IInv
<1>9. QED BY <1>1, <1>2, <1>3, <1>4, <1>5, <1>6, <1>7, <1>8 DEF Next, Step, BreakCircle

LEMMA Invariant == Spec => []IInv
BY InitIInv, NextIInv, PTL DEF Spec

----------------------------------------------------------------------------
(* Reorders implements CategoryOrder *)

\* What a row is for the others depends on the last write, the lock and the one
\* that has it.
LEMMA SeenAt ==
    /\ \A c \in Category : Seen[c] = IF locked[c] = None THEN pos[c] ELSE req[locked[c]].undo[c]
    /\ DOMAIN Seen = Category
BY DEF Seen

LEMMA PendingOf ==
    ASSUME NEW p \in Request
    PROVE  Pending[p] = IF req[p].at \in {"verify", "update"} THEN req[p].ids ELSE <<>>
BY DEF Pending

LEMMA PendingStep ==
    ASSUME NEW p \in Request, \A q \in Request \ {p} : req'[q] = req[q],
           NEW ids, ids = IF req'[p].at \in {"verify", "update"} THEN req'[p].ids ELSE <<>>
    PROVE  Pending' = [Pending EXCEPT ![p] = ids]
BY DEF Pending

\* A step that writes no row, by a request that has written none.
LEMMA SeenStays ==
    ASSUME IInv, NEW p \in Request, req[p].at # "update",
           \A q \in Request \ {p} : req'[q] = req[q], UNCHANGED <<pos, locked>>
    PROVE  Seen' = Seen
<1>1. ASSUME NEW c \in Category, locked[c] # None PROVE req'[locked[c]] = req[locked[c]]
  BY <1>1 DEF IInv, TypeOK
<1>2. QED BY <1>1 DEF Seen

LEMMA InitImplements == Init => Atomic!Init
<1> SUFFICES ASSUME Init PROVE Seen = [c \in Category |-> 0] /\ Pending = [p \in Request |-> <<>>]
  BY DEF Atomic!Init
<1>1. \A p \in Request : req[p].at = "idle"
  BY DEF Init, NoCall
<1>2. QED BY <1>1 DEF Init, Seen, Pending

LEMMA BeginAsks ==
    ASSUME IInv, NEW p \in Request, NEW ids \in Listing, Begin(p, ids)
    PROVE  Atomic!Ask(p)
<1> DEFINE call == [NoCall EXCEPT !.at = "verify", !.ids = ids]
<1>1. ids \in BoundedSeq(Category, MaxListed) /\ ids # <<>>
  BY DEF Listing
<1>2. call \in Call /\ call.at = "verify" /\ call.ids = ids
  BY <1>1, NoCallType DEF NoCall, Call
<1>3. Set(p, call) /\ UNCHANGED <<pos, locked>> /\ req[p].at = "idle"
  BY DEF Begin
<1> HIDE DEF call
<1>4. req'[p] = call /\ \A q \in Request \ {p} : req'[q] = req[q]
  BY <1>2, <1>3, SetParts DEF IInv
<1>5. Seen' = Seen
  BY <1>3, <1>4, SeenStays
<1>6. Pending' = [Pending EXCEPT ![p] = ids]
  BY <1>2, <1>4, PendingStep
<1>7. Pending[p] = <<>>
  BY <1>3, PendingOf
<1>8. \E n \in 1..MaxListed : ids \in [1..n -> Category]
  <2>1. PICK n \in 0..MaxListed : ids \in [1..n -> Category]
    BY <1>1 DEF BoundedSeq, SeqOf
  <2>2. n # 0
    BY <1>1, <2>1
  <2>3. QED BY <2>1, <2>2, BoundsAssumption
<1>9. QED BY <1>5, <1>6, <1>7, <1>8 DEF Atomic!Ask

\* A request that is not to be answered any more, and that the others do not notice.
LEMMA Refused ==
    ASSUME IInv, NEW p \in Request, req[p].at \in {"verify", "update"},
           req'[p].at \notin {"verify", "update"},
           \A q \in Request \ {p} : req'[q] = req[q], Seen' = Seen
    PROVE  Atomic!Refuse(p)
<1>1. Pending' = [Pending EXCEPT ![p] = <<>>]
  BY PendingStep
<1>2. Pending[p] # <<>>
  <2>1. Pending[p] = req[p].ids
    BY PendingOf
  <2>2. Len(req[p].ids) # 0
    BY CallParts DEF IInv, ListOK
  <2>3. Len(<<>>) = 0
    OBVIOUS
  <2>4. QED BY <2>1, <2>2, <2>3
<1>3. QED BY <1>1, <1>2 DEF Atomic!Refuse

LEMMA VerifyImplements ==
    ASSUME IInv, NEW p \in Request, Verify(p)
    PROVE  Atomic!Refuse(p) \/ UNCHANGED <<Seen, Pending>>
<1>1. Seen' = Seen
  BY VerifyParts, SeenStays
<1>2. CASE req'[p].at = "failed"
  BY <1>1, <1>2, VerifyParts, Refused
<1>3. CASE req'[p].at \in {"verify", "update"}
  <2>1. Pending' = Pending
    BY <1>3, VerifyParts DEF Pending
  <2>2. QED BY <1>1, <2>1
<1>4. QED BY <1>2, <1>3, VerifyParts

\* An UPDATE, which the others do not see.
LEMMA UpdateImplements ==
    ASSUME IInv, NEW p \in Request, Update(p)
    PROVE  UNCHANGED <<Seen, Pending>>
<1>1. PICK c \in Category :
        /\ req[p].at = "update" /\ req[p].next <= Len(req[p].ids)
        /\ c = req[p].ids[req[p].next] /\ locked[c] \in {None, p}
        /\ req' \in [Request -> Call] /\ \A q \in Request \ {p} : req'[q] = req[q]
        /\ req'[p].at = "update" /\ req'[p].ids = req[p].ids
        /\ req'[p].next = req[p].next + 1
        /\ \A d \in Category \ {c} : req'[p].undo[d] = req[p].undo[d]
        /\ pos[c] = None => req'[p].undo[c] = req[p].undo[c] /\ UNCHANGED <<pos, locked>>
        /\ pos[c] # None =>
             /\ req'[p].undo[c] = IF req[p].undo[c] = None THEN pos[c] ELSE req[p].undo[c]
             /\ pos' = [pos EXCEPT ![c] = req[p].next - 1]
             /\ locked' = [locked EXCEPT ![c] = p]
  BY UpdateParts
<1>2. /\ pos \in [Category -> Nat \cup {None}] /\ locked \in [Category -> Request \cup {None}]
  BY DEF IInv, TypeOK
<1>3. Pending' = Pending
  BY <1>1 DEF Pending
<1>4. ASSUME NEW d \in Category
      PROVE  (IF locked'[d] = None THEN pos'[d] ELSE req'[locked'[d]].undo[d])
             = IF locked[d] = None THEN pos[d] ELSE req[locked[d]].undo[d]
  <2>1. CASE pos[c] = None
    BY <1>1, <1>2, <2>1
  <2>2. CASE pos[c] # None /\ d # c
    BY <1>1, <1>2, <2>2
  <2>3. CASE pos[c] # None /\ d = c
    <3>1. locked'[c] = p /\ p # None
      BY <1>1, <1>2, <2>3, NoneAssumption
    <3>2. CASE locked[c] = None
      <4>1. req[p].undo[c] = None
        BY <1>1, <3>1, <3>2 DEF IInv, Written
      <4>2. QED BY <1>1, <2>3, <3>1, <3>2, <4>1
    <3>3. CASE locked[c] = p
      <4>1. req[p].undo[c] # None
        BY <1>1, <3>1, <3>3 DEF IInv, TypeOK, WroteOf
      <4>2. QED BY <1>1, <2>3, <3>1, <3>3, <4>1
    <3>4. QED BY <1>1, <3>2, <3>3
  <2>4. QED BY <2>1, <2>2, <2>3
<1>5. Seen' = Seen
  BY <1>4 DEF Seen
<1>6. QED BY <1>3, <1>5

\* The place a list gives to a category is the last one that names it.
LEMMA PlaceIsLast ==
    ASSUME NEW ids, Len(ids) \in Nat, NEW c, NEW n \in Nat, LastPlace(n + 1, ids, c, Len(ids))
    PROVE  Atomic!PlaceIn(ids, c) = n
<1> DEFINE Final(k) == ids[k + 1] = c /\ \A j \in k + 2..Len(ids) : ids[j] # c
<1>1. n \in 0..Len(ids) - 1 /\ Final(n)
  BY DEF LastPlace
<1>2. ASSUME NEW k \in 0..Len(ids) - 1, Final(k) PROVE k = n
  <2>1. ~(k < n)
    BY <1>1, <1>2
  <2>2. ~(n < k)
    BY <1>1, <1>2
  <2>3. QED BY <2>1, <2>2
<1>3. Atomic!PlaceIn(ids, c) = CHOOSE k \in 0..Len(ids) - 1 : Final(k)
  BY DEF Atomic!PlaceIn
<1> HIDE DEF Final
<1>4. QED BY <1>1, <1>2, <1>3

LEMMA CommitReorders ==
    ASSUME IInv, NEW p \in Request, Commit(p)
    PROVE  Atomic!Reorder(p)
<1> DEFINE call == [req[p] EXCEPT !.at = "committed"]
<1>1. call \in Call /\ call.at = "committed"
  BY CallParts DEF IInv, Call
<1>2. Set(p, call) /\ FreeLocks(p) /\ pos' = pos
  BY DEF Commit
<1> HIDE DEF call
<1>3. /\ req'[p] = call /\ \A q \in Request \ {p} : req'[q] = req[q]
      /\ \A c \in Category : locked'[c] = IF locked[c] = p THEN None ELSE locked[c]
      /\ locked \in [Category -> Request \cup {None}] /\ pos \in [Category -> Nat \cup {None}]
  BY <1>1, <1>2, SetParts DEF IInv, TypeOK, FreeLocks
<1>4. PICK ids : ids = req[p].ids
  OBVIOUS
<1>5. /\ req[p].at = "update" /\ Written(p) /\ p # None
      /\ Len(ids) \in Nat /\ Len(ids) >= 1 /\ req[p].next = Len(ids) + 1
  BY <1>4, CallParts, BoundsAssumption, NoneAssumption DEF Commit, Done, IInv, ListOK
<1>6. Pending[p] = ids /\ Pending' = [Pending EXCEPT ![p] = <<>>] /\ ids # <<>>
  <2>1. Len(<<>>) = 0
    OBVIOUS
  <2>2. Pending[p] = ids
    BY <1>4, <1>5, PendingOf
  <2>3. Pending' = [Pending EXCEPT ![p] = <<>>]
    BY <1>1, <1>3, PendingStep
  <2>4. QED BY <1>5, <2>1, <2>2, <2>3
<1>7. ASSUME NEW c \in Category
      PROVE  (IF locked'[c] = None THEN pos'[c] ELSE req'[locked'[c]].undo[c])
             = IF Seen[c] # None /\ c \in Atomic!Listed(p)
               THEN Atomic!PlaceIn(ids, c) ELSE Seen[c]
  <2>1. /\ req[p].undo[c] # None =>
             locked[c] = p /\ pos[c] # None /\ LastPlace(pos[c] + 1, ids, c, Len(ids))
        /\ req[p].undo[c] = None => \A k \in 1..Len(ids) : ids[k] = c => pos[c] = None
    <3>1. req[p].next - 1 = Len(ids)
      BY <1>5
    <3>2. QED BY <1>4, <1>5, <3>1 DEF Written
  <2>2. c \in Atomic!Listed(p) <=> \E k \in 1..Len(ids) : ids[k] = c
    BY <1>6 DEF Atomic!Listed
  <2>3. CASE locked[c] = p
    <3>1. req[p].undo[c] # None
      BY <1>5, <2>3 DEF IInv, TypeOK, WroteOf
    <3>2. pos[c] \in Nat /\ LastPlace(pos[c] + 1, ids, c, Len(ids))
      BY <1>3, <2>1, <3>1
    <3>3. Atomic!PlaceIn(ids, c) = pos[c]
      BY <1>5, <3>2, PlaceIsLast
    <3>4. c \in Atomic!Listed(p)
      BY <2>2, <3>2 DEF LastPlace
    <3>5. Seen[c] = req[p].undo[c]
      BY <1>5, <2>3, SeenAt
    <3>6. locked'[c] = None
      BY <1>3, <2>3
    <3>7. QED BY <1>2, <3>1, <3>3, <3>4, <3>5, <3>6
  <2>4. CASE locked[c] # p
    <3>1. locked'[c] = locked[c] /\ (locked[c] # None => locked[c] \in Request \ {p})
      BY <1>3, <2>4
    <3>2. (IF locked'[c] = None THEN pos'[c] ELSE req'[locked'[c]].undo[c]) = Seen[c]
      BY <1>2, <1>3, <3>1, SeenAt
    <3>3. c \in Atomic!Listed(p) => Seen[c] = None
      <4>1. SUFFICES ASSUME c \in Atomic!Listed(p) PROVE Seen[c] = None
        OBVIOUS
      <4>2. pos[c] = None
        BY <2>1, <2>2, <2>4, <4>1
      <4>3. locked[c] = None
        <5>1. SUFFICES ASSUME locked[c] # None PROVE FALSE
          OBVIOUS
        <5>2. /\ locked[c] \in Request /\ req[locked[c]].at = "update"
              /\ req[locked[c]].undo[c] # None
          BY <3>1, <5>1 DEF IInv, TypeOK, WroteOf
        <5>3. Written(locked[c])
          BY <5>2 DEF IInv
        <5>4. QED BY <4>2, <5>2, <5>3 DEF Written
      <4>4. QED BY <4>2, <4>3, SeenAt
    <3>4. QED BY <3>2, <3>3
  <2>5. QED BY <2>3, <2>4
<1>8. Seen' = [c \in Category |-> IF Seen[c] # None /\ c \in Atomic!Listed(p)
                                  THEN Atomic!PlaceIn(ids, c) ELSE Seen[c]]
  <2>1. Seen' = [c \in Category |-> IF locked'[c] = None THEN pos'[c]
                                    ELSE req'[locked'[c]].undo[c]]
    BY DEF Seen
  <2>2. QED BY <1>7, <2>1
<1>9. QED BY <1>6, <1>8 DEF Atomic!Reorder

LEMMA FailRefuses ==
    ASSUME IInv, NEW p \in Request, Fail(p)
    PROVE  Atomic!Refuse(p)
<1> DEFINE call == [req[p] EXCEPT !.at = "failed"]
<1>1. call \in Call /\ call.at = "failed"
  BY CallParts DEF IInv, Call
<1>2. Set(p, call) /\ FreeLocks(p) /\ req[p].at \in {"verify", "update"}
  BY DEF Fail
<1> HIDE DEF call
<1>3. /\ req'[p] = call /\ \A q \in Request \ {p} : req'[q] = req[q]
      /\ \A c \in Category : locked'[c] = IF locked[c] = p THEN None ELSE locked[c]
      /\ locked \in [Category -> Request \cup {None}] /\ p # None
  BY <1>1, <1>2, SetParts, NoneAssumption DEF IInv, TypeOK, FreeLocks
<1>4. ASSUME NEW c \in Category
      PROVE  (IF locked'[c] = None THEN pos'[c] ELSE req'[locked'[c]].undo[c]) = Seen[c]
  <2>1. CASE locked[c] = p
    <3>1. c \in WroteOf(p)
      BY <1>3, <2>1 DEF IInv, TypeOK
    <3>2. pos'[c] = req[p].undo[c]
      BY <3>1, RollbackParts
    <3>3. QED BY <1>3, <2>1, <3>2, SeenAt
  <2>2. CASE locked[c] # p
    <3>1. pos'[c] = pos[c]
      BY <2>2, RollbackParts
    <3>2. locked[c] # None => locked[c] \in Request \ {p}
      BY <1>3, <2>2
    <3>3. QED BY <1>3, <2>2, <3>1, <3>2, SeenAt
  <2>3. QED BY <2>1, <2>2
<1>5. Seen' = Seen
  BY <1>4 DEF Seen
<1>6. req'[p].at \notin {"verify", "update"}
  BY <1>1, <1>3
<1>7. QED BY <1>2, <1>3, <1>5, <1>6, Refused

\* A row that is not locked is seen as it is.
LEMMA OtherSeen ==
    ASSUME IInv, NEW c \in Category, locked[c] = None, NEW n, pos' = [pos EXCEPT ![c] = n],
           UNCHANGED <<locked, req>>
    PROVE  Seen[c] = pos[c] /\ Seen' = [Seen EXCEPT ![c] = n] /\ Pending' = Pending
<1>1. pos'[c] = n /\ \A d \in Category \ {c} : pos'[d] = pos[d]
  BY DEF IInv, TypeOK
<1>2. Pending' = Pending
  BY DEF Pending
<1>3. Seen[c] = pos[c]
  BY SeenAt
<1>4. \A d \in Category : (IF locked'[d] = None THEN pos'[d] ELSE req'[locked'[d]].undo[d])
                          = IF d = c THEN n ELSE Seen[d]
  BY <1>1, SeenAt
<1>5. Seen' = [Seen EXCEPT ![c] = n]
  BY <1>4 DEF Seen
<1>6. QED BY <1>2, <1>3, <1>5

LEMMA NextImplements == IInv /\ [Next]_vars => [Atomic!Next]_<<Seen, Pending>>
<1> SUFFICES ASSUME IInv, [Next]_vars PROVE [Atomic!Next]_<<Seen, Pending>>
  OBVIOUS
<1>1. ASSUME NEW p \in Request, NEW ids \in Listing, Begin(p, ids) PROVE Atomic!Next
  BY <1>1, BeginAsks DEF Atomic!Next
<1>2. ASSUME NEW p \in Request, Verify(p) PROVE [Atomic!Next]_<<Seen, Pending>>
  BY <1>2, VerifyImplements DEF Atomic!Next
<1>3. ASSUME NEW p \in Request, Update(p) PROVE UNCHANGED <<Seen, Pending>>
  BY <1>3, UpdateImplements
<1>4. ASSUME NEW p \in Request, Commit(p) PROVE Atomic!Next
  BY <1>4, CommitReorders DEF Atomic!Next
<1>5. ASSUME NEW p \in Request, Fail(p) PROVE Atomic!Next
  BY <1>5, FailRefuses DEF Atomic!Next
<1>6. ASSUME NEW c \in Category, PutPosition(c, 0) PROVE Atomic!Next
  <2>1. PICK n : n = 0
    OBVIOUS
  <2>2. /\ IInv /\ locked[c] = None /\ pos[c] # None
        /\ pos' = [pos EXCEPT ![c] = n] /\ locked' = locked /\ req' = req
    BY <1>6, <2>1 DEF PutPosition
  <2>3. Seen[c] = pos[c] /\ Seen' = [Seen EXCEPT ![c] = n] /\ Pending' = Pending
    BY <2>2, OtherSeen
  <2>4. Atomic!Put(c)
    BY <2>1, <2>2, <2>3 DEF Atomic!Put
  <2>5. QED BY <2>4 DEF Atomic!Next
<1>7. ASSUME NEW c \in Category, DeleteCategory(c) PROVE Atomic!Next
  <2>1. Atomic!Delete(c)
    BY <1>7, OtherSeen DEF DeleteCategory, Atomic!Delete
  <2>2. QED BY <2>1 DEF Atomic!Next
<1>8. CASE UNCHANGED vars
  BY <1>8 DEF vars, Seen, Pending
<1>9. QED BY <1>1, <1>2, <1>3, <1>4, <1>5, <1>6, <1>7, <1>8 DEF Next, Step, BreakCircle

----------------------------------------------------------------------------
(* Circles *)

\* Along any circle the row that is waited for comes ever later in an order that
\* suits all of its requests, but a finite order has a last row.
LEMMA CircleDisagrees == IInv => CirclesDisagree
<1> SUFFICES ASSUME IInv, NEW S \in SUBSET Request, Circle(S),
                    NEW order \in [Category -> 1..Cardinality(Category)], IsInjective(order),
                    \A p \in S : Follows(p, order)
             PROVE  FALSE
  BY DEF CirclesDisagree
<1>1. PICK N \in Nat : N = Cardinality(Category)
  BY CategoryAssumption, FS_CardinalityType
<1> DEFINE Awaited(p) == req[p].ids[req[p].next]
           Later(p) == {k \in 1..N : k >= order[Awaited(p)]}
           T == {Later(p) : p \in S}
<1>2. ASSUME NEW p \in S
      PROVE  /\ Awaited(p) \in Category /\ locked[Awaited(p)] \in S \ {p}
             /\ order[Awaited(p)] \in 1..N
  <2>1. PICK c \in Wants(p) : ~MayLock(p, c) /\ locked[c] \in S
    BY DEF Circle
  <2>2. c = Awaited(p) /\ req[p].next <= Len(req[p].ids) /\ locked[c] # p
    BY <2>1 DEF Wants, MayLock
  <2>3. Awaited(p) \in Category
    BY <2>2, CallParts, BoundsAssumption DEF IInv
  <2>4. QED BY <1>1, <2>1, <2>2, <2>3
<1>3. ASSUME NEW p \in S
      PROVE  \E q \in S : order[Awaited(p)] < order[Awaited(q)]
  <2>1. PICK q \in S \ {p} : q = locked[Awaited(p)]
    BY <1>2
  <2>2. req[q].at = "update" /\ req[q].undo[Awaited(p)] # None
    BY <1>2, <2>1, NoneAssumption DEF IInv, TypeOK, WroteOf
  <2>3. PICK n \in 1..req[q].next - 1 : req[q].ids[n] = Awaited(p)
    BY <1>2, <2>2 DEF IInv, Written, LastPlace
  <2>4. /\ req[q].next \in Nat /\ req[q].next >= 1 /\ req[q].next <= Len(req[q].ids)
        /\ Len(req[q].ids) \in Nat
    BY CallParts, BoundsAssumption DEF IInv, Circle, Wants
  <2>5. order[Awaited(p)] <= order[Awaited(q)]
    <3>1. n \in 1..Len(req[q].ids) /\ req[q].next \in 1..Len(req[q].ids) /\ n < req[q].next
      BY <2>3, <2>4
    <3>2. order[req[q].ids[n]] <= order[req[q].ids[req[q].next]]
      BY <3>1 DEF Follows
    <3>3. QED BY <2>3, <3>2
  <2>6. Awaited(p) # Awaited(q)
    BY <1>2, <2>1
  <2>7. order[Awaited(p)] # order[Awaited(q)]
    BY <1>2, <2>6 DEF IsInjective
  <2>8. QED BY <1>2, <2>5, <2>7
<1>4. T # {} /\ T \subseteq SUBSET (1..N)
  BY DEF Circle
<1>5. IsWellFoundedOn(StrictSubsetOrdering(1..N), SUBSET (1..N))
  <2>1. IsFiniteSet(1..N)
    BY FS_Interval
  <2>2. QED BY <2>1, FS_FiniteSubsetsOfFinite, FS_StrictSubsetOrderingWellFounded
<1> HIDE DEF T
<1>6. PICK s \in T : \A t \in T : <<t, s>> \notin StrictSubsetOrdering(1..N)
  BY <1>4, <1>5, WFMin
<1> USE DEF T
<1>7. PICK p \in S : s = Later(p)
  BY <1>6
<1>8. PICK q \in S : order[Awaited(p)] < order[Awaited(q)]
  BY <1>3
<1>9. Later(q) \subseteq Later(p) /\ Later(q) # Later(p)
  <2>1. order[Awaited(p)] \in 1..N /\ order[Awaited(q)] \in 1..N
    BY <1>2
  <2>2. order[Awaited(p)] \in Later(p) /\ order[Awaited(p)] \notin Later(q)
    BY <1>8, <2>1
  <2>3. Later(q) \subseteq Later(p)
    BY <1>8, <2>1
  <2>4. QED BY <2>2, <2>3
<1>10. <<Later(q), Later(p)>> \in StrictSubsetOrdering(1..N)
  BY <1>9 DEF StrictSubsetOrdering
<1>11. QED BY <1>6, <1>7, <1>10

----------------------------------------------------------------------------
(* Theorems *)

\* The rows, their locks and the requests are of the shape the code gives them, and
\* every lock belongs to a transaction that is under way and has written the row.
THEOREM TypeCorrect == Spec => []TypeOK
<1>1. IInv => TypeOK
  BY DEF IInv
<1>2. QED BY <1>1, Invariant, PTL

\* CategoryRepository.reorder_categories: the UPDATEs of a reorder, row by row under
\* locks, come to the one step of CategoryOrder or to nothing.
THEOREM ReordersAreAtomic == Spec => ImplementsOrder
<1>1. Init => Atomic!Init
  BY InitImplements
<1>2. IInv /\ [Next]_vars => [Atomic!Next]_<<Seen, Pending>>
  BY NextImplements
<1>3. QED BY <1>1, <1>2, Invariant, PTL DEF Spec, ImplementsOrder, Atomic!Spec

\* Reorders that list the categories in one order never wait in a circle.
THEOREM AgreeingReordersPass == Spec => []CirclesDisagree
BY CircleDisagrees, Invariant, PTL

----------------------------------------------------------------------------
(* DishPages: the invariant *)

Going(w) == walk[w].at \in {"count", "page"}

\* The number of listed dishes that are sorted before d.
Place(d) == Rank(Listed, d)

\* The count of a page is that of its list while nothing comes or goes between them.
Counted(w) ==
    /\ walk[w].at # "idle" => walk[w].limit \in PageSize
    /\ walk[w].at = "page" /\ ~walk[w].left /\ ~walk[w].late
         => walk[w].total = Cardinality(Listed)
    /\ walk[w].late => walk[w].came

\* While nothing leaves, a steady dish only moves away from the beginning, so the
\* ones before the offset have been on a page.
SteadyBehind(w) ==
    ~walk[w].left => \A d \in walk[w].steady :
        /\ Going(w) => d \in Listed /\ (Place(d) < walk[w].offset => d \in walk[w].seen)
        /\ Ended(w) /\ ~walk[w].late => d \in walk[w].seen

\* While nothing comes, dishes only move towards the beginning, so the ones that have
\* been on a page are before the offset.
SeenBehind(w) ==
    ~walk[w].came =>
        /\ ~walk[w].twice
        /\ Going(w) => \A d \in walk[w].seen \cap Listed : Place(d) < walk[w].offset

QuietList(w) ==
    ~walk[w].left /\ ~walk[w].came =>
        /\ walk[w].seen \subseteq walk[w].steady
        /\ Going(w) => walk[w].steady = Listed

WalkOK(w) == Counted(w) /\ SteadyBehind(w) /\ SeenBehind(w) /\ QuietList(w)

PagesInv == PagesTypeOK /\ \A w \in Walk : WalkOK(w)

LEMMA DishFinite ==
    /\ Cardinality(Dish) \in Nat
    /\ \A S \in SUBSET Dish :
         IsFiniteSet(S) /\ Cardinality(S) \in Nat /\ Cardinality(S) <= Cardinality(Dish)
<1>1. Cardinality(Dish) \in Nat
  BY DishAssumption, FS_CardinalityType
<1>2. ASSUME NEW S \in SUBSET Dish
      PROVE  IsFiniteSet(S) /\ Cardinality(S) \in Nat /\ Cardinality(S) <= Cardinality(Dish)
  <2>1. IsFiniteSet(S) /\ Cardinality(S) <= Cardinality(Dish)
    BY DishAssumption, FS_Subset
  <2>2. QED BY <2>1, FS_CardinalityType
<1>3. QED BY <1>1, <1>2

LEMMA SmallerSet ==
    ASSUME NEW S \in SUBSET Dish, NEW T \in SUBSET S
    PROVE  Cardinality(T) <= Cardinality(S)
BY DishFinite, FS_Subset

\* A listed dish has fewer rows before it than there are listed.
LEMMA PlaceInList ==
    ASSUME dish \in [Dish -> Row \cup {Absent}]
    PROVE  /\ \A d \in Dish : Place(d) \in Nat
           /\ \A d \in Listed : Place(d) < Cardinality(Listed)
<1>1. Listed \in SUBSET Dish
  BY DEF Listed
<1>2. ASSUME NEW d \in Dish PROVE Place(d) \in Nat
  <2>1. {e \in Listed : Before(e, d)} \in SUBSET Dish
    BY <1>1
  <2>2. QED BY <2>1, DishFinite DEF Place, Rank
<1>3. ASSUME NEW d \in Listed PROVE Place(d) < Cardinality(Listed)
  <2> DEFINE ahead == {e \in Listed : Before(e, d)}
  <2>1. dish[d] \in Row
    BY DEF Listed
  <2>2. dish[d].pos \in Nat /\ dish[d].born \in Nat
    <3>1. dish[d].pos \in Position /\ dish[d].born \in 1..Cardinality(Dish)
      BY <2>1 DEF Row
    <3>2. Cardinality(Dish) \in Nat
      BY DishFinite
    <3>3. dish[d].pos \in Nat
      BY <3>1, PagesBounds
    <3>4. dish[d].born \in Nat
      BY <3>1, <3>2
    <3>5. QED BY <3>3, <3>4
  <2>3. d \notin ahead
    BY <2>2 DEF Before
  <2>4. ahead \in SUBSET Listed /\ ahead # Listed
    BY <2>3
  <2>5. IsFiniteSet(Listed) /\ Cardinality(Listed) \in Nat /\ Cardinality(ahead) \in Nat
    BY <1>1, <2>4, DishFinite
  <2>6. Cardinality(ahead) <= Cardinality(Listed) /\ Cardinality(ahead) # Cardinality(Listed)
    BY <2>4, <2>5, FS_Subset
  <2>7. QED BY <2>5, <2>6 DEF Place, Rank
<1>4. QED BY <1>2, <1>3

LEMMA PrimedPlace == \A d \in Dish : Place(d)' \in Nat
<1>1. Listed' \in SUBSET Dish
  BY DEF Listed
<1>2. ASSUME NEW d \in Dish PROVE Place(d)' \in Nat
  <2>1. {e \in Listed' : Before(e, d)'} \in SUBSET Dish
    BY <1>1
  <2>2. QED BY <2>1, DishFinite DEF Place, Rank
<1>3. QED BY <1>2


\* What the dishes' order is after one of them has come, gone or moved.
LEMMA OneMoves ==
    ASSUME NEW d \in Dish, \A e \in Dish \ {d} : dish'[e] = dish[e]
    PROVE  /\ d \notin Listed => /\ Listed \subseteq Listed'
                                 /\ \A e \in Listed : Place(e) <= Place(e)'
           /\ d \notin Listed' => /\ Listed' \subseteq Listed
                                  /\ \A e \in Listed' : Place(e)' <= Place(e)
<1> DEFINE Ahead(e) == {f \in Listed : Before(f, e)}
           Ahead2(e) == {f \in Listed' : Before(f, e)'}
<1>1. Listed \in SUBSET Dish /\ Listed' \in SUBSET Dish
  BY DEF Listed
<1>2. \A e \in Dish \ {d} : e \in Listed <=> e \in Listed'
  BY DEF Listed
<1>3. \A e, f \in Dish \ {d} : Before(f, e) <=> Before(f, e)'
  BY DEF Before
<1>4. \A e : Place(e) = Cardinality(Ahead(e)) /\ Place(e)' = Cardinality(Ahead2(e))
  BY DEF Place, Rank
<1>5. ASSUME d \notin Listed
      PROVE  Listed \subseteq Listed' /\ \A e \in Listed : Place(e) <= Place(e)'
  <2>1. Listed \subseteq Listed'
    BY <1>1, <1>2, <1>5
  <2>2. ASSUME NEW e \in Listed PROVE Place(e) <= Place(e)'
    <3>1. Ahead(e) \in SUBSET Ahead2(e) /\ Ahead2(e) \in SUBSET Dish
      BY <1>1, <1>3, <1>5, <2>1
    <3>2. QED BY <3>1, <1>4, SmallerSet
  <2>3. QED BY <2>1, <2>2
<1>6. ASSUME d \notin Listed'
      PROVE  Listed' \subseteq Listed /\ \A e \in Listed' : Place(e)' <= Place(e)
  <2>1. Listed' \subseteq Listed
    BY <1>1, <1>2, <1>6
  <2>2. ASSUME NEW e \in Listed' PROVE Place(e)' <= Place(e)
    <3>1. Ahead2(e) \in SUBSET Ahead(e) /\ Ahead(e) \in SUBSET Dish
      BY <1>1, <1>3, <1>6, <2>1
    <3>2. QED BY <3>1, <1>4, SmallerSet
  <2>3. QED BY <2>1, <2>2
<1>7. QED BY <1>5, <1>6

LEMMA NothingMoves ==
    ASSUME dish' = dish
    PROVE  Listed' = Listed /\ \A d : Place(d)' = Place(d)
BY DEF Listed, Place, Rank, Before

----------------------------------------------------------------------------
(* DishPages: the steps *)

LEMMA ClientParts ==
    ASSUME PagesTypeOK, NEW w \in Walk
    PROVE  /\ walk[w] \in Client
           /\ walk[w].at \in {"idle", "count", "page", "ended"}
           /\ walk[w].offset \in Nat /\ walk[w].total \in Nat
           /\ walk[w].seen \subseteq Dish /\ walk[w].steady \subseteq Dish
           /\ walk[w].left \in BOOLEAN /\ walk[w].came \in BOOLEAN
           /\ walk[w].late \in BOOLEAN /\ walk[w].twice \in BOOLEAN
BY DEF PagesTypeOK, Client

LEMMA InitPagesInv == PagesInit => PagesInv
<1> SUFFICES ASSUME PagesInit PROVE PagesInv
  OBVIOUS
<1>1. NoClient \in Client
  BY DEF NoClient, Client
<1>2. ASSUME NEW w \in Walk
      PROVE  walk[w] = NoClient
  BY DEF PagesInit
<1>3. Cardinality(Dish) \in Nat
  BY DishFinite
<1>4. PagesTypeOK
  <2>1. \A w \in Walk : walk[w].total = 0 /\ walk[w].offset = 0
    BY <1>2 DEF NoClient
  <2>2. QED BY <1>1, <1>3, <2>1, PagesBounds DEF PagesInit, PagesTypeOK
<1>5. ASSUME NEW w \in Walk PROVE WalkOK(w)
  BY <1>2 DEF NoClient, WalkOK, Counted, SteadyBehind, SeenBehind, QuietList, Going, Ended
<1>6. QED BY <1>4, <1>5 DEF PagesInv

\* A walk that has not begun, or has ended, does not look at the dishes.
LEMMA RestingWalk ==
    ASSUME PagesInv, NEW w \in Walk, ~Going(w), walk'[w] = walk[w]
    PROVE  WalkOK(w)'
BY DEF PagesInv, WalkOK, Counted, SteadyBehind, SeenBehind, QuietList, Going, Ended

LEMMA ShiftedParts ==
    ASSUME PagesTypeOK, NEW d \in Dish, NEW left \in BOOLEAN, NEW came \in BOOLEAN,
           Shift(d, left, came), NEW w \in Walk, Going(w)
    PROVE  /\ walk'[w] \in Client
           /\ walk'[w].at = walk[w].at /\ walk'[w].limit = walk[w].limit
           /\ walk'[w].offset = walk[w].offset /\ walk'[w].total = walk[w].total
           /\ walk'[w].seen = walk[w].seen /\ walk'[w].twice = walk[w].twice
           /\ walk'[w].steady = walk[w].steady \ {d}
           /\ walk'[w].left = (walk[w].left \/ left)
           /\ walk'[w].came = (walk[w].came \/ came)
           /\ walk'[w].late = (walk[w].late \/ (came /\ walk[w].at = "page"))
<1>1. walk[w] \in Client
  BY ClientParts
<1>2. walk'[w] = [walk[w] EXCEPT !.steady = @ \ {d}, !.left = @ \/ left, !.came = @ \/ came,
                                 !.late = @ \/ (came /\ walk[w].at = "page")]
  BY DEF Shift, Shifted, Going
<1>3. /\ walk'[w].at = walk[w].at /\ walk'[w].limit = walk[w].limit
      /\ walk'[w].offset = walk[w].offset /\ walk'[w].total = walk[w].total
      /\ walk'[w].seen = walk[w].seen /\ walk'[w].twice = walk[w].twice
      /\ walk'[w].steady = walk[w].steady \ {d}
  BY <1>1, <1>2 DEF Client
<1>4. walk'[w].left = (walk[w].left \/ left)
  BY <1>1, <1>2 DEF Client
<1>5. walk'[w].came = (walk[w].came \/ came)
  BY <1>1, <1>2 DEF Client
<1>6. walk'[w].late = (walk[w].late \/ (came /\ walk[w].at = "page"))
  BY <1>1, <1>2 DEF Client
<1>7. walk'[w] \in Client
  BY <1>1, <1>2 DEF Client
<1>8. QED BY <1>3, <1>4, <1>5, <1>6, <1>7

LEMMA ShiftType ==
    ASSUME PagesTypeOK, NEW d \in Dish, NEW left \in BOOLEAN, NEW came \in BOOLEAN,
           Shift(d, left, came)
    PROVE  /\ walk' \in [Walk -> Client]
           /\ \A w \in Walk : /\ walk'[w].total <= Cardinality(Dish)
                              /\ walk'[w].offset > 0 /\ walk'[w].at \in {"count", "page"}
                                   => walk'[w].offset < Cardinality(Dish)
<1>1. ASSUME NEW w \in Walk
      PROVE  /\ walk'[w] \in Client
             /\ walk'[w].at = walk[w].at /\ walk'[w].offset = walk[w].offset
             /\ walk'[w].total = walk[w].total
  <2>1. CASE Going(w)
    BY <2>1, ShiftedParts
  <2>2. CASE ~Going(w)
    BY <2>2, ClientParts DEF Shift, Shifted, Going
  <2>3. QED BY <2>1, <2>2
<1>2. walk' = [w \in Walk |-> walk'[w]]
  BY DEF Shift
<1>3. QED BY <1>1, <1>2 DEF PagesTypeOK

\* A dish has come to its place, or left it, or moved, or is none of the list's.
LEMMA OwnerStep ==
    ASSUME PagesInv, dish' \in [Dish -> Row \cup {Absent}],
           NEW d \in Dish, \A e \in Dish \ {d} : dish'[e] = dish[e],
           NEW left \in BOOLEAN, left <=> d \in Listed,
           NEW came \in BOOLEAN, came <=> d \in Listed', Shift(d, left, came)
    PROVE  \A w \in Walk : WalkOK(w)'
<1> SUFFICES ASSUME NEW w \in Walk PROVE WalkOK(w)'
  OBVIOUS
<1>1. CASE ~Going(w)
  <2>1. walk'[w] = walk[w]
    BY <1>1 DEF Shift, Shifted, Going
  <2>2. QED BY <1>1, <2>1, RestingWalk
<1>2. CASE Going(w)
  <2>1. /\ walk'[w].at = walk[w].at /\ walk'[w].limit = walk[w].limit
        /\ walk'[w].offset = walk[w].offset /\ walk'[w].total = walk[w].total
        /\ walk'[w].seen = walk[w].seen /\ walk'[w].twice = walk[w].twice
        /\ walk'[w].steady = walk[w].steady \ {d}
        /\ walk'[w].left = (walk[w].left \/ left)
        /\ walk'[w].came = (walk[w].came \/ came)
        /\ walk'[w].late = (walk[w].late \/ (came /\ walk[w].at = "page"))
    BY <1>2, ShiftedParts DEF PagesInv
  <2>2. WalkOK(w)
    BY DEF PagesInv
  <2>3. /\ d \notin Listed => /\ Listed \subseteq Listed'
                              /\ \A e \in Listed : Place(e) <= Place(e)'
        /\ d \notin Listed' => /\ Listed' \subseteq Listed
                               /\ \A e \in Listed' : Place(e)' <= Place(e)
    BY OneMoves
  <2>4. /\ \A e \in Dish : Place(e) \in Nat /\ Place(e)' \in Nat
        /\ Listed \subseteq Dish /\ Listed' \subseteq Dish
    <3>1. \A e \in Dish : Place(e) \in Nat
      BY PlaceInList DEF PagesInv, PagesTypeOK
    <3>2. \A e \in Dish : Place(e)' \in Nat
      BY PrimedPlace
    <3>3. QED BY <3>1, <3>2 DEF Listed
  <2>5. walk[w].offset \in Nat /\ walk[w].seen \subseteq Dish /\ walk[w].steady \subseteq Dish
    BY ClientParts DEF PagesInv
  <2>6. Counted(w)'
    <3>1. walk'[w].limit \in PageSize /\ (walk'[w].late => walk'[w].came)
      BY <1>2, <2>1, <2>2 DEF WalkOK, Counted, Going
    <3>2. ASSUME walk'[w].at = "page", ~walk'[w].left, ~walk'[w].late
          PROVE  walk'[w].total = Cardinality(Listed')
      <4>1. d \notin Listed /\ d \notin Listed' /\ ~walk[w].left /\ ~walk[w].late
        BY <2>1, <3>2
      <4>2. Listed' = Listed
        BY <2>3, <4>1
      <4>3. QED BY <2>1, <2>2, <3>2, <4>1, <4>2 DEF WalkOK, Counted
    <3>3. QED BY <3>1, <3>2 DEF Counted
  <2>7. SteadyBehind(w)'
    <3> SUFFICES ASSUME ~walk'[w].left, NEW e \in walk'[w].steady
                 PROVE  e \in Listed' /\ (Place(e)' < walk'[w].offset => e \in walk'[w].seen)
      BY <1>2, <2>1 DEF SteadyBehind, Going, Ended
    <3>1. d \notin Listed /\ ~walk[w].left /\ e \in walk[w].steady
      BY <2>1
    <3>2. e \in Listed /\ (Place(e) < walk[w].offset => e \in walk[w].seen)
      BY <1>2, <2>2, <3>1 DEF WalkOK, SteadyBehind
    <3>3. e \in Listed' /\ Place(e) <= Place(e)' /\ Place(e) \in Nat /\ Place(e)' \in Nat
      BY <2>3, <2>4, <3>1, <3>2
    <3>4. QED BY <2>1, <2>5, <3>2, <3>3
  <2>8. SeenBehind(w)'
    <3> SUFFICES ASSUME ~walk'[w].came
                 PROVE  /\ ~walk'[w].twice
                        /\ \A e \in walk'[w].seen \cap Listed' : Place(e)' < walk'[w].offset
      BY DEF SeenBehind
    <3>1. d \notin Listed' /\ ~walk[w].came
      BY <2>1
    <3>2. ~walk[w].twice /\ \A e \in walk[w].seen \cap Listed : Place(e) < walk[w].offset
      BY <1>2, <2>2, <3>1 DEF WalkOK, SeenBehind
    <3>3. ASSUME NEW e \in walk[w].seen \cap Listed' PROVE Place(e)' < walk[w].offset
      <4>1. e \in Listed /\ Place(e)' <= Place(e) /\ Place(e) \in Nat /\ Place(e)' \in Nat
        BY <2>3, <2>4, <3>1, <3>3
      <4>2. Place(e) < walk[w].offset
        BY <3>2, <3>3, <4>1
      <4>3. QED BY <2>5, <4>1, <4>2
    <3>4. QED BY <2>1, <3>2, <3>3
  <2>9. QuietList(w)'
    <3>1. ASSUME ~walk'[w].left, ~walk'[w].came
          PROVE  walk'[w].seen \subseteq walk'[w].steady /\ walk'[w].steady = Listed'
      <4>1. d \notin Listed /\ d \notin Listed' /\ ~walk[w].left /\ ~walk[w].came
        BY <2>1, <3>1
      <4>2. walk[w].seen \subseteq walk[w].steady /\ walk[w].steady = Listed
        BY <1>2, <2>2, <4>1 DEF WalkOK, QuietList
      <4>3. Listed' = Listed
        BY <2>3, <4>1
      <4>4. QED BY <2>1, <4>1, <4>2, <4>3
    <3>2. QED BY <3>1 DEF QuietList
  <2>10. QED BY <2>6, <2>7, <2>8, <2>9 DEF WalkOK
<1>3. QED BY <1>1, <1>2

\* What a change does to the other parts of the state.
LEMMA DishStep ==
    ASSUME PagesInv, NEW d \in Dish, NEW row \in Row, dish' = [dish EXCEPT ![d] = row],
           changes' \in 0..MaxChanges, NEW left \in BOOLEAN, left <=> d \in Listed,
           NEW came \in BOOLEAN, came <=> d \in Listed', Shift(d, left, came)
    PROVE  PagesInv'
<1>1. dish' \in [Dish -> Row \cup {Absent}] /\ \A e \in Dish \ {d} : dish'[e] = dish[e]
  BY DEF PagesInv, PagesTypeOK
<1>2. \A w \in Walk : WalkOK(w)'
  BY <1>1, OwnerStep
<1>3. PagesTypeOK'
  BY <1>1, ShiftType DEF PagesInv, PagesTypeOK
<1>4. QED BY <1>2, <1>3 DEF PagesInv

LEMMA StepCreateDish ==
    ASSUME PagesInv, NEW d \in Dish, NEW n \in Position, NEW listed \in BOOLEAN,
           CreateDish(d, n, listed)
    PROVE  PagesInv'
<1> DEFINE rows == {e \in Dish : dish[e] # Absent}
           row == [pos |-> n, listed |-> listed, born |-> 1 + Cardinality(rows)]
<1>1. dish[d] = Absent /\ dish' = [dish EXCEPT ![d] = row] /\ changes' = changes
      /\ Shift(d, FALSE, listed) /\ dish \in [Dish -> Row \cup {Absent}]
  BY DEF CreateDish, PagesInv, PagesTypeOK
<1>2. 1 + Cardinality(rows) \in 1..Cardinality(Dish)
  <2>1. rows \in SUBSET (Dish \ {d}) /\ Dish \ {d} \in SUBSET Dish
    BY <1>1
  <2>2. Cardinality(rows) <= Cardinality(Dish \ {d})
    BY <2>1, SmallerSet
  <2>3. Cardinality(Dish \ {d}) = Cardinality(Dish) - 1
    BY DishAssumption, FS_RemoveElement
  <2>4. Cardinality(rows) \in Nat /\ Cardinality(Dish) \in Nat
    BY <2>1, DishFinite
  <2>5. QED BY <2>2, <2>3, <2>4
<1> HIDE DEF rows
<1>3. row \in Row /\ row.listed = listed
  BY <1>2 DEF Row
<1> HIDE DEF row
<1>4. d \notin Listed /\ dish'[d] = row
  BY <1>1 DEF Listed
<1>5. listed <=> d \in Listed'
  BY <1>3, <1>4, AbsentAssumption DEF Listed
<1>6. changes' \in 0..MaxChanges
  BY <1>1 DEF PagesInv, PagesTypeOK
<1>7. PICK left \in BOOLEAN : left = FALSE
  OBVIOUS
<1>8. Shift(d, left, listed) /\ (left <=> d \in Listed)
  BY <1>1, <1>4, <1>7
<1>9. QED BY <1>1, <1>3, <1>5, <1>6, <1>8, DishStep

LEMMA StepChangeDish ==
    ASSUME PagesInv, NEW d \in Dish, NEW n \in Position, NEW listed \in BOOLEAN,
           ChangeDish(d, n, listed)
    PROVE  PagesInv'
<1>1. /\ dish \in [Dish -> Row \cup {Absent}] /\ dish[d] # Absent /\ changes < MaxChanges
      /\ Shift(d, dish[d].listed, listed) /\ changes' = changes + 1
      /\ changes \in 0..MaxChanges
  BY DEF ChangeDish, PagesInv, PagesTypeOK
<1>2. PICK row : row = [dish[d] EXCEPT !.pos = n, !.listed = listed]
  OBVIOUS
<1>3. dish' = [dish EXCEPT ![d] = row]
  BY <1>2 DEF ChangeDish
<1>4. dish[d] \in Row
  BY <1>1
<1>5. row \in Row /\ row.listed = listed /\ dish[d].listed \in BOOLEAN
  BY <1>2, <1>4 DEF Row
<1>6. dish'[d] = row
  BY <1>1, <1>3
<1>7. PICK left \in BOOLEAN : left = dish[d].listed
  BY <1>5
<1>8. Shift(d, left, listed) /\ (left <=> d \in Listed)
  BY <1>1, <1>7 DEF Listed
<1>9. listed <=> d \in Listed'
  BY <1>5, <1>6, AbsentAssumption DEF Listed
<1>10. changes' \in 0..MaxChanges
  BY <1>1, PagesBounds
<1>11. QED BY <1>3, <1>5, <1>8, <1>9, <1>10, DishStep

\* A step of one walk: the dishes and the other walks stay.
LEMMA WalkStep ==
    ASSUME PagesInv, UNCHANGED <<dish, changes>>, NEW w \in Walk, NEW c \in Client,
           walk' = [walk EXCEPT ![w] = c], c.total <= Cardinality(Dish),
           c.offset > 0 /\ c.at \in {"count", "page"} => c.offset < Cardinality(Dish),
           WalkOK(w)'
    PROVE  PagesInv'
<1>1. \A v \in Walk \ {w} : walk'[v] = walk[v]
  BY DEF PagesInv, PagesTypeOK
<1>2. walk'[w] = c /\ walk' \in [Walk -> Client]
  BY DEF PagesInv, PagesTypeOK
<1>3. PagesTypeOK'
  BY <1>1, <1>2 DEF PagesInv, PagesTypeOK
<1>4. Listed' = Listed /\ \A d : Place(d)' = Place(d)
  BY NothingMoves
<1>5. ASSUME NEW v \in Walk \ {w} PROVE WalkOK(v)'
  BY <1>1, <1>4, <1>5
  DEF PagesInv, WalkOK, Counted, SteadyBehind, SeenBehind, QuietList, Going, Ended
<1>6. QED BY <1>3, <1>5 DEF PagesInv

LEMMA StepBeginWalk ==
    ASSUME PagesInv, NEW w \in Walk, NEW limit \in PageSize, BeginWalk(w, limit)
    PROVE  PagesInv'
<1>1. PICK c : c = [NoClient EXCEPT !.at = "count", !.limit = limit, !.steady = Listed]
  OBVIOUS
<1>2. walk' = [walk EXCEPT ![w] = c] /\ UNCHANGED <<dish, changes>>
  BY <1>1 DEF BeginWalk
<1>3. /\ c.at = "count" /\ c.limit = limit /\ c.offset = 0 /\ c.total = 0 /\ c.seen = {}
      /\ c.steady = Listed /\ c.left = FALSE /\ c.came = FALSE /\ c.late = FALSE
      /\ c.twice = FALSE
  BY <1>1 DEF NoClient
<1>4. c \in Client
  BY <1>1 DEF NoClient, Client, Listed
<1>5. walk'[w] = c
  BY <1>2 DEF PagesInv, PagesTypeOK
<1>6. Listed' = Listed /\ \A d : Place(d)' = Place(d)
  BY <1>2, NothingMoves
<1>7. \A d \in Listed : Place(d) \in Nat
  BY PlaceInList DEF PagesInv, PagesTypeOK, Listed
<1>8. Counted(w)' /\ SeenBehind(w)' /\ QuietList(w)'
  BY <1>3, <1>5, <1>6 DEF Counted, SeenBehind, QuietList, Going
<1>9. SteadyBehind(w)'
  BY <1>3, <1>5, <1>6, <1>7 DEF SteadyBehind, Going, Ended
<1>10. Cardinality(Dish) \in Nat
  BY DishFinite
<1>11. WalkOK(w)'
  BY <1>8, <1>9 DEF WalkOK
<1>12. c.total <= Cardinality(Dish) /\ ~(c.offset > 0)
  BY <1>3, <1>10
<1>13. QED BY <1>2, <1>4, <1>11, <1>12, WalkStep

LEMMA StepCount ==
    ASSUME PagesInv, NEW w \in Walk, Count(w)
    PROVE  PagesInv'
<1>1. PICK c : c = [walk[w] EXCEPT !.at = "page", !.late = FALSE,
                                   !.total = Cardinality(Listed)]
  OBVIOUS
<1>2. walk' = [walk EXCEPT ![w] = c] /\ UNCHANGED <<dish, changes>> /\ walk[w].at = "count"
  BY <1>1 DEF Count
<1>3. walk[w] \in Client /\ WalkOK(w)
  BY ClientParts DEF PagesInv
<1>4. Cardinality(Listed) \in Nat /\ Cardinality(Listed) <= Cardinality(Dish)
  BY DishFinite DEF Listed
<1>5. c \in Client
  BY <1>1, <1>3, <1>4 DEF Client
<1>6. /\ c.at = "page" /\ c.limit = walk[w].limit /\ c.offset = walk[w].offset
      /\ c.total = Cardinality(Listed) /\ c.seen = walk[w].seen /\ c.late = FALSE
      /\ c.steady = walk[w].steady /\ c.left = walk[w].left /\ c.came = walk[w].came
      /\ c.twice = walk[w].twice
  BY <1>1, <1>3 DEF Client
<1>7. walk'[w] = c
  BY <1>2 DEF PagesInv, PagesTypeOK
<1>8. Listed' = Listed /\ \A d : Place(d)' = Place(d)
  BY <1>2, NothingMoves
<1>9. Counted(w)' /\ SeenBehind(w)' /\ QuietList(w)'
  BY <1>2, <1>3, <1>6, <1>7, <1>8 DEF WalkOK, Counted, SeenBehind, QuietList, Going
<1>10. SteadyBehind(w)'
  BY <1>2, <1>3, <1>6, <1>7, <1>8 DEF WalkOK, SteadyBehind, Going, Ended
<1>11. c.offset > 0 => c.offset < Cardinality(Dish)
  BY <1>2, <1>6 DEF PagesInv, PagesTypeOK
<1>12. QED BY <1>2, <1>4, <1>5, <1>6, <1>9, <1>10, <1>11, WalkStep DEF WalkOK

\* The rows of a page are those whose places are from the offset on, below the limit.
LEMMA StepFetch ==
    ASSUME PagesInv, NEW w \in Walk, Fetch(w)
    PROVE  PagesInv'
<1>1. PICK old : old = walk[w]
  OBVIOUS
<1>2. PICK page : page = Page(old.offset, old.limit)
  OBVIOUS
<1>3. PICK c : c = [old EXCEPT
           !.at = IF HasMore(old.offset, old.limit, old.total) THEN "count" ELSE "ended",
           !.seen = @ \cup page, !.twice = @ \/ old.seen \cap page # {},
           !.offset = @ + old.limit]
  OBVIOUS
<1>4. walk' = [walk EXCEPT ![w] = c] /\ UNCHANGED <<dish, changes>> /\ old.at = "page"
  BY <1>1, <1>2, <1>3 DEF Fetch
<1>5. old \in Client /\ WalkOK(w)
  BY <1>1, ClientParts DEF PagesInv
<1>6. old.limit \in Nat \ {0} /\ old.offset \in Nat /\ old.total \in Nat
      /\ old.total <= Cardinality(Dish) /\ Cardinality(Dish) \in Nat
  <2>1. old.limit \in PageSize
    BY <1>1, <1>4, <1>5 DEF WalkOK, Counted
  <2>2. old.offset \in Nat /\ old.total \in Nat /\ old.total <= Cardinality(Dish)
    BY <1>1, <1>5 DEF Client, PagesInv, PagesTypeOK
  <2>3. QED BY <2>1, <2>2, PagesBounds, DishFinite
<1>7. /\ \A d \in Dish : Place(d) \in Nat
      /\ \A d \in Listed : Place(d) < Cardinality(Listed)
      /\ Listed \subseteq Dish /\ Cardinality(Listed) \in Nat
  <2>1. Listed \subseteq Dish
    BY DEF Listed
  <2>2. QED BY <2>1, PlaceInList, DishFinite DEF PagesInv, PagesTypeOK
<1>8. \A d \in Dish : d \in page <=> /\ d \in Listed /\ old.offset <= Place(d)
                                    /\ Place(d) < old.offset + old.limit
  BY <1>2 DEF Page, Place, Listed
<1>9. page \subseteq Listed
  BY <1>2 DEF Page
<1>10. /\ c.offset = old.offset + old.limit /\ c.seen = old.seen \cup page
       /\ c.limit = old.limit /\ c.total = old.total /\ c.steady = old.steady
       /\ c.left = old.left /\ c.came = old.came /\ c.late = old.late
  BY <1>3, <1>5 DEF Client
<1>11. c.at = IF old.offset + old.limit < old.total THEN "count" ELSE "ended"
  BY <1>3, <1>5 DEF Client, HasMore
<1>12. c.twice = (old.twice \/ old.seen \cap page # {})
  BY <1>3, <1>5 DEF Client
<1>13. c \in Client
  <2>1. page \subseteq Dish /\ old.offset + old.limit \in Nat
    BY <1>6, <1>7, <1>9
  <2>2. QED BY <1>3, <1>5, <2>1 DEF Client
<1>14. walk'[w] = c
  BY <1>4 DEF PagesInv, PagesTypeOK
<1>15. Listed' = Listed /\ \A d : Place(d)' = Place(d)
  BY <1>4, NothingMoves
<1>16. Counted(w)'
  BY <1>1, <1>4, <1>5, <1>10, <1>11, <1>14 DEF WalkOK, Counted
<1>17. SteadyBehind(w)'
  <2> SUFFICES ASSUME ~old.left, NEW d \in old.steady
               PROVE  /\ c.at = "count" => d \in Listed /\ (Place(d) < c.offset => d \in c.seen)
                      /\ c.at = "ended" /\ ~old.late => d \in c.seen
    BY <1>10, <1>11, <1>14, <1>15 DEF SteadyBehind, Going, Ended
  <2>1. d \in Listed /\ (Place(d) < old.offset => d \in old.seen)
    BY <1>1, <1>4, <1>5 DEF WalkOK, SteadyBehind, Going
  <2>2. Place(d) \in Nat /\ Place(d) < Cardinality(Listed) /\ d \in Dish
    BY <1>7, <2>1
  <2>3. Place(d) < c.offset => d \in c.seen
    BY <1>6, <1>8, <1>10, <2>1, <2>2
  <2>4. c.at = "ended" /\ ~old.late => Place(d) < c.offset
    <3>1. ~old.late => old.total = Cardinality(Listed)
      BY <1>1, <1>4, <1>5 DEF WalkOK, Counted
    <3>2. QED BY <1>6, <1>7, <1>10, <1>11, <2>2, <3>1
  <2>5. QED BY <2>1, <2>3, <2>4
<1>18. SeenBehind(w)'
  <2> SUFFICES ASSUME ~old.came
               PROVE  ~c.twice /\ \A d \in c.seen \cap Listed : Place(d) < c.offset
    BY <1>10, <1>14, <1>15 DEF SeenBehind
  <2>1. ~old.twice /\ \A d \in old.seen \cap Listed : Place(d) < old.offset
    BY <1>1, <1>4, <1>5 DEF WalkOK, SeenBehind, Going
  <2>2. old.seen \cap page = {}
    BY <1>6, <1>7, <1>8, <1>9, <2>1
  <2>3. ASSUME NEW d \in c.seen \cap Listed PROVE Place(d) < c.offset
    BY <1>6, <1>7, <1>8, <1>10, <2>1, <2>3
  <2>4. QED BY <1>12, <2>1, <2>2, <2>3
<1>19. QuietList(w)'
  <2> SUFFICES ASSUME ~old.left, ~old.came
               PROVE  c.seen \subseteq c.steady /\ c.steady = Listed
    BY <1>10, <1>14, <1>15 DEF QuietList
  <2>1. old.seen \subseteq old.steady /\ old.steady = Listed
    BY <1>1, <1>4, <1>5 DEF WalkOK, QuietList, Going
  <2>2. QED BY <1>9, <1>10, <2>1
<1>20. WalkOK(w)'
  BY <1>16, <1>17, <1>18, <1>19 DEF WalkOK
<1>21. c.total <= Cardinality(Dish)
       /\ (c.offset > 0 /\ c.at \in {"count", "page"} => c.offset < Cardinality(Dish))
  BY <1>6, <1>10, <1>11
<1>22. QED BY <1>4, <1>13, <1>20, <1>21, WalkStep

LEMMA NextPagesInv == PagesInv /\ [PagesNext]_pagesVars => PagesInv'
<1> SUFFICES ASSUME PagesInv, [PagesNext]_pagesVars PROVE PagesInv'
  OBVIOUS
<1>1. ASSUME NEW d \in Dish, NEW n \in Position, NEW listed \in BOOLEAN,
             CreateDish(d, n, listed) \/ ChangeDish(d, n, listed)
      PROVE  PagesInv'
  BY <1>1, StepCreateDish, StepChangeDish
<1>2. ASSUME NEW w \in Walk, NEW limit \in PageSize, BeginWalk(w, limit) PROVE PagesInv'
  BY <1>2, StepBeginWalk
<1>3. ASSUME NEW w \in Walk, Count(w) \/ Fetch(w) PROVE PagesInv'
  BY <1>3, StepCount, StepFetch
<1>4. ASSUME UNCHANGED pagesVars PROVE PagesInv'
  <2>1. Listed' = Listed /\ (\A d : Place(d)' = Place(d)) /\ walk' = walk
        /\ dish' = dish /\ changes' = changes
    BY <1>4, NothingMoves DEF pagesVars
  <2>2. PagesTypeOK'
    BY <2>1 DEF PagesInv, PagesTypeOK
  <2>3. \A w \in Walk : WalkOK(w)'
    BY <2>1
    DEF PagesInv, WalkOK, Counted, SteadyBehind, SeenBehind, QuietList, Going, Ended
  <2>4. QED BY <2>2, <2>3 DEF PagesInv
<1>5. QED BY <1>1, <1>2, <1>3, <1>4 DEF PagesNext

LEMMA PagesInvariant == PagesSpec => []PagesInv
BY InitPagesInv, NextPagesInv, PTL DEF PagesSpec

\* Every page's offset and total are about rows there can be (PagesTypeOK): the
\* client asks for no page that begins where no dish can be.
THEOREM PagesTypeCorrect == PagesSpec => []PagesTypeOK
<1>1. PagesInv => PagesTypeOK
  BY DEF PagesInv
<1>2. QED BY <1>1, PagesInvariant, PTL

\* However many dishes there are and whatever the page size, list_dishes misses a
\* dish that was listed all along only when another one left its place during the
\* walk or came between a count and its page.
THEOREM SteadyDishesFound == PagesSpec => []SteadyMissedOnlyWhenShifted
<1>1. PagesInv => SteadyMissedOnlyWhenShifted
  BY DEF PagesInv, WalkOK, SteadyBehind, SteadyMissedOnlyWhenShifted
<1>2. QED BY <1>1, PagesInvariant, PTL

\* A dish is on two pages of list_dishes only when one came to a place in the list
\* during the walk; deletions alone never repeat one.
THEOREM NoDishTwice == PagesSpec => []TwiceOnlyWhenCame
<1>1. PagesInv => TwiceOnlyWhenCame
  <2> SUFFICES ASSUME PagesInv, NEW w \in Walk, ~walk[w].came PROVE ~walk[w].twice
    BY DEF TwiceOnlyWhenCame
  <2>1. QED BY DEF PagesInv, WalkOK, SeenBehind
<1>2. QED BY <1>1, PagesInvariant, PTL

\* The pages of a list that stays as it was are together the list, each dish once,
\* for every page size.
THEOREM QuietWalks == PagesSpec => []QuietWalkIsTheList
<1>1. PagesInv => QuietWalkIsTheList
  <2> SUFFICES ASSUME PagesInv, NEW w \in Walk, Ended(w), ~walk[w].left, ~walk[w].came
               PROVE  walk[w].seen = walk[w].steady /\ ~walk[w].twice
    BY DEF QuietWalkIsTheList
  <2>1. walk[w].seen \subseteq walk[w].steady /\ ~walk[w].twice /\ ~walk[w].late
    BY DEF PagesInv, WalkOK, QuietList, SeenBehind, Counted
  <2>2. walk[w].steady \subseteq walk[w].seen
    BY <2>1 DEF PagesInv, WalkOK, SteadyBehind
  <2>3. QED BY <2>1, <2>2
<1>2. QED BY <1>1, PagesInvariant, PTL

=============================================================================
