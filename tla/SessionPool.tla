----------------------------- MODULE SessionPool -----------------------------
(***************************************************************************)
(* The database sessions of one process.  The engine is created by the     *)
(* first request that finds none; with Cloud SQL it awaits a connector     *)
(* first, and every request that comes meanwhile does the same and leaves  *)
(* an engine of its own, with a pool of its own.  A session takes a        *)
(* connection from the pool of its engine at the first statement of a      *)
(* transaction and gives it back at the commit, or when the request ends,  *)
(* however it ends.                                                        *)
(*                                                                         *)
(* An upload (routers/upload.py:40) is a request whose transaction lasts   *)
(* as long as its image is resized and stored.  A connection given back is *)
(* taken by whoever asks next: a waiting request has no turn.              *)
(***************************************************************************)
EXTENDS Naturals, FiniteSets

CONSTANTS
    Request,
    None,            \* no engine
    Cap,             \* pool_size + max_overflow
    MaxTransactions  \* bound: transactions of a request

ASSUME NoneAssumption == None \notin Request

ASSUME CapAssumption == Cap \in Nat \ {0}

ASSUME MaxTransactionsAssumption == MaxTransactions \in Nat \ {0}

\* A request creates one engine at most: it names the engine it creates.
VARIABLES
    cloud,      \* CLOUD_SQL_CONNECTION_NAME is set, for as long as the process lives
    engine,     \* the engine the globals are bound to
    engines,    \* the engines created so far
    first,      \* history: the requests initialising when the first one was created
    out,        \* out[e]: connections the pool of engine e has handed out
    req         \* the requests: step, engine of the session, transactions to come

vars == <<cloud, engine, engines, first, out, req>>

Req == [pc : {"new", "connecting", "open", "waiting", "holding", "ended", "failed"},
        on : Request \cup {None}, left : 0..MaxTransactions]

TypeOK ==
    /\ cloud \in BOOLEAN
    /\ engine \in Request \cup {None}
    /\ engines \subseteq Request
    /\ first \subseteq Request
    /\ out \in [Request -> Nat]
    /\ req \in [Request -> Req]

Init ==
    /\ cloud \in BOOLEAN
    /\ engine = None
    /\ engines = {}
    /\ first = {}
    /\ out = [e \in Request |-> 0]
    /\ req \in [Request -> [pc : {"new"}, on : {None}, left : 1..MaxTransactions]]

-----------------------------------------------------------------------------
At(r, pc) == req[r].pc = pc

Goto(r, pc) == req' = [req EXCEPT ![r].pc = pc]

Connecting == {r \in Request : At(r, "connecting")}

\* Bind the globals to a new engine, and the session of r to it.
NewEngine(r) ==
    /\ engine' = r
    /\ engines' = engines \cup {r}
    /\ first' = IF engine = None THEN Connecting \cup {r} ELSE first
    /\ req' = [req EXCEPT ![r].pc = "open", ![r].on = r]
    /\ UNCHANGED <<cloud, out>>

(***************************************************************************)
(* get_session.  The test of engine is of no use to those who passed it    *)
(* while the connector was awaited.                                        *)
(***************************************************************************)
UseEngine(r) ==
    /\ At(r, "new")
    /\ engine # None
    /\ req' = [req EXCEPT ![r].pc = "open", ![r].on = engine]
    /\ UNCHANGED <<cloud, engine, engines, first, out>>

InitLocal(r) ==
    /\ At(r, "new")
    /\ engine = None
    /\ ~cloud
    /\ NewEngine(r)

\* Mutant: the same, with the connector.
AwaitConnectorAgain(r) ==
    /\ At(r, "new")
    /\ cloud
    /\ Goto(r, "connecting")
    /\ UNCHANGED <<cloud, engine, engines, first, out>>

AwaitConnector(r) ==
    /\ At(r, "new")
    /\ engine = None
    /\ cloud
    /\ Goto(r, "connecting")
    /\ UNCHANGED <<cloud, engine, engines, first, out>>

InitCloud(r) ==
    /\ At(r, "connecting")
    /\ NewEngine(r)

ConnectorFails(r) ==
    /\ At(r, "connecting")
    /\ Goto(r, "failed")
    /\ UNCHANGED <<cloud, engine, engines, first, out>>

-----------------------------------------------------------------------------
(***************************************************************************)
(* The pool.                                                               *)
(***************************************************************************)
Take(r) ==
    /\ req[r].pc \in {"open", "waiting"}
    /\ out[req[r].on] < Cap
    /\ Goto(r, "holding")
    /\ out' = [out EXCEPT ![req[r].on] = @ + 1]
    /\ UNCHANGED <<cloud, engine, engines, first>>

Wait(r) ==
    /\ At(r, "open")
    /\ out[req[r].on] >= Cap
    /\ Goto(r, "waiting")
    /\ UNCHANGED <<cloud, engine, engines, first, out>>

\* The pool gives up after its timeout, or the new connection cannot be opened.
NoConnection(r) ==
    /\ req[r].pc \in {"open", "waiting"}
    /\ Goto(r, "failed")
    /\ UNCHANGED <<cloud, engine, engines, first, out>>

\* Mutant: a connection stays out.
Keep(r) == UNCHANGED out

GiveBack(r) == out' = [out EXCEPT ![req[r].on] = @ - 1]

\* The transaction is committed; the next statement, if any, begins another.
Commit(r) ==
    /\ At(r, "holding")
    /\ req' = [req EXCEPT ![r].pc = IF req[r].left > 1 THEN "open" ELSE "ended",
                          ![r].left = @ - 1]
    /\ GiveBack(r)
    /\ UNCHANGED <<cloud, engine, engines, first>>

\* Mutant: a request that raises does not close its session.
RaiseOpen(r) ==
    /\ At(r, "holding")
    /\ Goto(r, "failed")
    /\ UNCHANGED <<cloud, engine, engines, first, out>>

\* The request raises inside a transaction: get_session closes the session.
Raise(r) ==
    /\ At(r, "holding")
    /\ Goto(r, "failed")
    /\ GiveBack(r)
    /\ UNCHANGED <<cloud, engine, engines, first>>

Enter(r) == UseEngine(r) \/ InitLocal(r) \/ AwaitConnector(r)

Proceed(r) == InitCloud(r) \/ Take(r) \/ Wait(r) \/ Commit(r)

Next == \E r \in Request :
    Enter(r) \/ Proceed(r) \/ ConnectorFails(r) \/ NoConnection(r) \/ Raise(r)

Spec == Init /\ [][Next]_vars

\* Requests go on; nothing has to fail, and no wait has to time out.
FairSpec == Spec /\ \A r \in Request : WF_vars(Proceed(r))

-----------------------------------------------------------------------------
Holders(e) == {r \in Request : At(r, "holding") /\ req[r].on = e}

\* The pool neither leaks a connection nor takes one back twice, whatever way the
\* requests end, and no session uses an engine that is not there.
ConnectionsAccounted ==
    /\ \A e \in Request : out[e] = Cardinality(Holders(e)) /\ out[e] <= Cap
    /\ \A r \in Request : req[r].pc \in {"open", "waiting", "holding"} => req[r].on \in engines

\* Every engine beyond the first is the work of a request that was initialising when
\* the first was created: a process has no more pools than it had such requests.
EnginesOfFirstRequests == engines \subseteq first

\* Without Cloud SQL nothing is awaited between the test and the assignment.
OneEngineLocally == ~cloud => Cardinality(engines) <= 1

\* A request never waits for a connection while it has one: all waits end without
\* the timeout of the pool, if the transactions of the others do.
WaitersServed == \A r \in Request : At(r, "waiting") ~> req[r].pc \in {"holding", "failed"}

=============================================================================
