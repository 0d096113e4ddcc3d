------------------------------ MODULE Reorders ------------------------------
(***************************************************************************)
(* Requests that reorder the categories of one restaurant at the same      *)
(* time, a row at a time.                                                  *)
(*                                                                         *)
(* Catalog takes a reorder for one step.  Here its UPDATEs are steps of    *)
(* their own: each locks its row until the transaction ends, waits when    *)
(* another transaction has the lock, and then finds the row as that one    *)
(* left it.  Requests list the rows in orders of their own, so they may    *)
(* wait in a circle, which PostgreSQL breaks by failing one of them.       *)
(*                                                                         *)
(* A row that is locked has the position its transaction wrote, which the  *)
(* others do not see before the commit; a rollback takes it back.          *)
(***************************************************************************)
EXTENDS Integers, SequencesExt

CONSTANTS
    Request,    \* reorders
    Category,   \* ids
    MaxListed,  \* bound: length of ordered_ids
    None

ASSUME BoundsAssumption == MaxListed \in Nat \ {0}

\* No position and no transaction is mistaken for the absence of one.
ASSUME NoneAssumption == None \notin Nat \cup Request

ASSUME CategoryAssumption == IsFiniteSet(Category)

VARIABLES
    pos,      \* pos[c]: position in the last version of the row, None without one
    locked,   \* locked[c]: the request whose transaction has the row's lock
    req       \* req[p]: the request p

vars == <<pos, locked, req>>

\* `next`: place in ordered_ids.  `undo`: the positions before the first write, None
\* for the rows that were not written.
Call == [at: {"idle", "verify", "update", "committed", "failed"},
         ids: BoundedSeq(Category, MaxListed), next: 1..MaxListed + 1,
         undo: [Category -> Nat \cup {None}]]

NoCall == [at |-> "idle", ids |-> <<>>, next |-> 1,
           undo |-> [c \in Category |-> None]]

WroteOf(p) == {c \in Category : req[p].undo[c] # None}

TypeOK ==
    /\ pos \in [Category -> Nat \cup {None}]
    /\ locked \in [Category -> Request \cup {None}]
    /\ req \in [Request -> Call]
    /\ \A c \in Category : locked[c] # None => \* a lock is a live transaction's
         req[locked[c]].at = "update" /\ c \in WroteOf(locked[c])

\* The restaurant's categories; where they are is not looked at.
Init ==
    /\ pos = [c \in Category |-> 0]
    /\ locked = [c \in Category |-> None]
    /\ req = [p \in Request |-> NoCall]

----------------------------------------------------------------------------

Set(p, call) == req' = [req EXCEPT ![p] = call]

FreeLocks(p) == locked' = [c \in Category |-> IF locked[c] = p THEN None ELSE locked[c]]

Begin(p, ids) ==
    /\ req[p].at = "idle"
    /\ Set(p, [NoCall EXCEPT !.at = "verify", !.ids = ids])
    /\ UNCHANGED <<pos, locked>>

\* CategoryService.reorder looks every listed category up (400 when one is none of
\* the restaurant's), one after the other.
Verify(p) ==
    LET c == req[p].ids[req[p].next]
        last == req[p].next = Len(req[p].ids)
    IN  /\ req[p].at = "verify"
        /\ IF pos[c] = None THEN Set(p, [req[p] EXCEPT !.at = "failed"])
           ELSE Set(p, [req[p] EXCEPT !.at = IF last THEN "update" ELSE "verify",
                                      !.next = IF last THEN 1 ELSE @ + 1])
        /\ UNCHANGED <<pos, locked>>

\* Faulty: a lock of one's own is waited for.
MayLockOnce(p, c) == locked[c] = None

MayLock(p, c) == locked[c] \in {None, p}

Wants(p) == IF req[p].at = "update" /\ req[p].next <= Len(req[p].ids)
            THEN {req[p].ids[req[p].next]} ELSE {}

\* One UPDATE of enumerate(ordered_ids): it finds its row, and locks it, or finds
\* that the row has gone.  A category listed twice gets its last place.
Update(p) ==
    \E c \in Wants(p) :
        /\ MayLock(p, c)
        /\ IF pos[c] = None
           THEN Set(p, [req[p] EXCEPT !.next = @ + 1]) /\ UNCHANGED <<pos, locked>>
           ELSE /\ Set(p, [req[p] EXCEPT !.next = @ + 1, !.undo[c] = IF @ = None THEN pos[c] ELSE @])
                /\ pos' = [pos EXCEPT ![c] = req[p].next - 1]
                /\ locked' = [locked EXCEPT ![c] = p]

Done(p) == req[p].at = "update" /\ req[p].next > Len(req[p].ids)

\* Faulty: the session is never committed, and its connection is kept.
CommitNever(p) ==
    /\ Done(p)
    /\ Set(p, [req[p] EXCEPT !.at = "committed"])
    /\ UNCHANGED <<pos, locked>>

Commit(p) ==
    /\ Done(p)
    /\ Set(p, [req[p] EXCEPT !.at = "committed"])
    /\ FreeLocks(p)
    /\ UNCHANGED pos

\* PUT of a category's position, by a request that commits it at once.
PutPosition(c, n) ==
    /\ locked[c] = None
    /\ pos[c] # None
    /\ pos' = [pos EXCEPT ![c] = n]
    /\ UNCHANGED <<locked, req>>

\* DELETE of a category, as soon as no transaction has its row.
DeleteCategory(c) ==
    /\ locked[c] = None
    /\ pos[c] # None
    /\ pos' = [pos EXCEPT ![c] = None]
    /\ UNCHANGED <<locked, req>>

\* Faulty: the connection goes back to the pool with its transaction open.
FailOpen(p) ==
    /\ req[p].at \in {"verify", "update"}
    /\ Set(p, [req[p] EXCEPT !.at = "failed"])
    /\ UNCHANGED <<pos, locked>>

\* Faulty: what was written stays.
FailKeeping(p) ==
    /\ req[p].at \in {"verify", "update"}
    /\ Set(p, [req[p] EXCEPT !.at = "failed"])
    /\ FreeLocks(p)
    /\ UNCHANGED pos

\* An exception (a broken connection, a circle): the transaction is rolled back.
Fail(p) ==
    /\ req[p].at \in {"verify", "update"}
    /\ Set(p, [req[p] EXCEPT !.at = "failed"])
    /\ pos' = [c \in Category |-> IF c \in WroteOf(p) THEN req[p].undo[c] ELSE pos[c]]
    /\ FreeLocks(p)

\* The requests of S wait for each other.
Circle(S) ==
    S # {} /\ \A p \in S : \E c \in Wants(p) : ~MayLock(p, c) /\ locked[c] \in S

\* deadlock_timeout: PostgreSQL finds the circle and fails one that is in it.
BreakCircle(p) ==
    /\ \E S \in SUBSET Request : p \in S /\ Circle(S) /\ \A T \in SUBSET S : Circle(T) => T = S
    /\ Fail(p)

Step(p) == Verify(p) \/ Update(p) \/ Commit(p) \/ BreakCircle(p)

Listing == {ids \in BoundedSeq(Category, MaxListed) : ids # <<>>}

Next ==
    \/ \E p \in Request, ids \in Listing : Begin(p, ids)
    \/ \E p \in Request : Step(p) \/ Fail(p)
    \/ \E c \in Category : PutPosition(c, 0) \/ DeleteCategory(c)

Spec == Init /\ [][Next]_vars

\* The tasks of the requests run, and the database looks for circles.
FairSpec == Spec /\ \A p \in Request : WF_vars(Step(p))

----------------------------------------------------------------------------
(* Properties *)

\* What the other requests see: a row that is locked is as it was before.
Seen == [c \in Category |-> IF locked[c] = None THEN pos[c] ELSE req[locked[c]].undo[c]]

Pending == [p \in Request |-> IF req[p].at \in {"verify", "update"} THEN req[p].ids ELSE <<>>]

Atomic == INSTANCE CategoryOrder WITH place <- Seen, asked <- Pending

\* The UPDATEs of a reorder, waiting for locks, losing rows to deletions and rolled
\* back at any point, come to one step of CategoryOrder, as Catalog takes them: the
\* commit puts the whole order that was asked for in place, and a reorder that is
\* not committed is never seen at all.
ImplementsOrder == Atomic!Spec

\* An order of all categories that a request goes along with.
Follows(p, order) ==
    \A i, j \in 1..Len(req[p].ids) :
        i < j => order[req[p].ids[i]] <= order[req[p].ids[j]]

\* Requests wait in a circle only when no one order of the categories suits all of
\* them: those that list the same way never fail each other.
CirclesDisagree ==
    \A S \in SUBSET Request : Circle(S) =>
        \A order \in [Category -> 1..Cardinality(Category)] :
            IsInjective(order) => \E p \in S : ~Follows(p, order)

\* No reorder waits for ever for the locks of others.
ReordersEnd ==
    \A p \in Request : req[p].at = "verify" ~> req[p].at \in {"committed", "failed"}

=============================================================================
