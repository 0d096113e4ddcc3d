-------------------------- MODULE SessionPoolProofs --------------------------
(***************************************************************************)
(* Theorems about SessionPool, for any number of requests and connections. *)
(*                                                                         *)
(* A pool has handed out as many connections as there are requests holding *)
(* one of it (Counted): every way out of a transaction gives back what one *)
(* Take took.  No request begins to initialise once there is an engine, so *)
(* those that still do are among the first ones (Early).                   *)
(***************************************************************************)
EXTENDS SessionPool, FiniteSetTheorems, TLAPS

Running == {"new", "connecting", "open", "waiting", "holding"}

Counted(e) ==
    /\ IsFiniteSet(Holders(e))
    /\ out[e] = Cardinality(Holders(e))
    /\ out[e] <= Cap

Sound(r) ==
    /\ req[r].pc \in {"open", "waiting", "holding"} => req[r].on \in engines
    /\ req[r].pc \in Running => req[r].left # 0
    /\ ~cloud => ~At(r, "connecting")

Early ==
    /\ IF engine = None THEN engines = {} ELSE engine \in engines
    /\ engine # None => Connecting \subseteq first
    /\ engines \subseteq first
    /\ ~cloud => engines = {} \/ \E r \in Request : engines = {r}

IInv ==
    /\ TypeOK
    /\ \A e \in Request : Counted(e)
    /\ \A r \in Request : Sound(r)
    /\ Early

----------------------------------------------------------------------------
(* Steps *)

\* What a step of request r does to the requests.
LEMMA ReqStep ==
    ASSUME TypeOK, NEW r \in Request, NEW x \in Req, req' = [req EXCEPT ![r] = x]
    PROVE  /\ req' \in [Request -> Req]
           /\ req'[r] = x
           /\ \A s \in Request \ {r} : req'[s] = req[s]
BY DEF TypeOK

\* A step of a request that neither takes nor gives back a connection, nor creates
\* an engine.
LEMMA QuietStep ==
    ASSUME IInv, NEW r \in Request, NEW x \in Req, req' = [req EXCEPT ![r] = x],
           UNCHANGED <<cloud, engine, engines, first, out>>,
           ~At(r, "holding"), x.pc # "holding",
           x.pc = "connecting" => engine = None /\ cloud,
           x.pc \in {"open", "waiting"} => x.on \in engines,
           x.pc \in Running => x.left # 0
    PROVE  IInv'
<1>1. /\ req' \in [Request -> Req] /\ req'[r] = x
      /\ \A s \in Request \ {r} : req'[s] = req[s]
  BY ReqStep DEF IInv
<1>2. TypeOK'
  BY <1>1 DEF IInv, TypeOK
<1>3. \A e \in Request : Holders(e)' = Holders(e)
  BY <1>1 DEF Holders, At
<1>4. \A e \in Request : Counted(e)'
  BY <1>3 DEF IInv, Counted
<1>5. \A s \in Request : Sound(s)'
  BY <1>1 DEF IInv, Sound, At
<1>6. Early'
  BY <1>1 DEF IInv, Early, Connecting, At
<1>7. QED BY <1>2, <1>4, <1>5, <1>6 DEF IInv

LEMMA StepUseEngine ==
    ASSUME IInv, NEW r \in Request, UseEngine(r)
    PROVE  IInv'
<1> DEFINE x == [req[r] EXCEPT !.pc = "open", !.on = engine]
<1>1. req[r] \in Req /\ engine \in Request
  BY DEF IInv, TypeOK, UseEngine
<1>2. /\ x \in Req /\ x.pc = "open" /\ x.on = engine /\ x.left = req[r].left
      /\ req[r].pc = "new" /\ req[r].left # 0
  BY <1>1 DEF Req, UseEngine, At, IInv, Sound, Running
<1>3. req' = [req EXCEPT ![r] = x]
  BY DEF UseEngine, IInv, TypeOK
<1>4. engine \in engines
  BY DEF UseEngine, IInv, Early
<1>5. QED BY <1>2, <1>3, <1>4, QuietStep DEF UseEngine, At

\* A step that only moves a request on to another step.
LEMMA GotoStep ==
    ASSUME IInv, NEW r \in Request, NEW pc \in {"connecting", "waiting", "failed"}, Goto(r, pc),
           UNCHANGED <<cloud, engine, engines, first, out>>,
           ~At(r, "holding"), req[r].pc \in Running,
           pc = "connecting" => engine = None /\ cloud,
           pc = "waiting" => At(r, "open")
    PROVE  IInv'
<1> DEFINE x == [req[r] EXCEPT !.pc = pc]
<1>1. req[r] \in Req /\ Sound(r)
  BY DEF IInv, TypeOK
<1>2. x \in Req /\ x.pc = pc /\ x.on = req[r].on /\ x.left = req[r].left
  BY <1>1 DEF Req
<1>3. req' = [req EXCEPT ![r] = x]
  BY DEF Goto, IInv, TypeOK
<1>4. pc = "waiting" => x.on \in engines
  BY <1>1, <1>2 DEF Sound, At
<1>5. x.left # 0
  BY <1>1, <1>2 DEF Sound
<1>6. QED BY <1>2, <1>3, <1>4, <1>5, QuietStep

LEMMA StepNewEngine ==
    ASSUME IInv, NEW r \in Request, InitLocal(r) \/ InitCloud(r)
    PROVE  IInv'
<1> DEFINE x == [req[r] EXCEPT !.pc = "open", !.on = r]
<1>1. req[r] \in Req /\ NewEngine(r) /\ Sound(r) /\ Early
  BY DEF IInv, TypeOK, InitLocal, InitCloud
<1>2. /\ x \in Req /\ x.pc = "open" /\ x.on = r /\ x.left = req[r].left
      /\ req[r].pc \in {"new", "connecting"} /\ req[r].left # 0
  BY <1>1 DEF Req, InitLocal, InitCloud, At, Sound, Running
<1>3. req' = [req EXCEPT ![r] = x]
  BY <1>1 DEF NewEngine, IInv, TypeOK
<1>4. /\ req' \in [Request -> Req] /\ req'[r] = x
      /\ \A s \in Request \ {r} : req'[s] = req[s]
  BY <1>2, <1>3, ReqStep DEF IInv
<1>5. TypeOK'
  <2>1. first' \subseteq Request
    BY <1>1 DEF NewEngine, IInv, TypeOK, Connecting
  <2>2. QED BY <1>1, <1>4, <2>1 DEF NewEngine, IInv, TypeOK
<1> HIDE DEF x
<1>6. \A e \in Request : Holders(e)' = Holders(e)
  <2>1. ~At(r, "holding") /\ ~At(r, "holding")'
    BY <1>2, <1>4 DEF At
  <2>2. \A s \in Request \ {r} : req'[s] = req[s]
    BY <1>4
  <2>3. QED BY <2>1, <2>2 DEF Holders, At
<1>7. \A e \in Request : Counted(e)'
  BY <1>1, <1>6 DEF IInv, Counted, NewEngine
<1>8. \A s \in Request : Sound(s)'
  BY <1>1, <1>2, <1>4 DEF IInv, Sound, At, NewEngine
<1>9. Early'
  <2>1. engine' = r /\ engines' = engines \cup {r} /\ r # None /\ cloud' = cloud
    BY <1>1, NoneAssumption DEF NewEngine
  <2>2. Connecting' \subseteq Connecting
    BY <1>2, <1>4 DEF Connecting, At
  <2>3. CASE engine = None
    <3>1. engines' = {r} /\ first' = Connecting \cup {r}
      BY <1>1, <2>1, <2>3 DEF Early, NewEngine
    <3>2. QED BY <2>1, <2>2, <3>1 DEF Early
  <2>4. CASE engine # None
    <3>1. InitCloud(r) /\ cloud /\ r \in Connecting
      BY <2>4 DEF InitLocal, InitCloud, IInv, Sound, Connecting
    <3>2. first' = first
      BY <1>1, <2>4 DEF NewEngine
    <3>3. QED BY <1>1, <2>1, <2>2, <2>4, <3>1, <3>2 DEF Early
  <2>5. QED BY <2>3, <2>4
<1>10. QED BY <1>5, <1>7, <1>8, <1>9 DEF IInv

\* The requests and the engines of a step that moves a connection.
LEMMA ConnectionStep ==
    ASSUME IInv, NEW r \in Request, NEW x \in Req, req' = [req EXCEPT ![r] = x],
           UNCHANGED <<cloud, engine, engines, first>>, out' \in [Request -> Nat],
           x.pc # "connecting", x.on \in engines, x.pc \in Running => x.left # 0,
           \A e \in Request : Counted(e)'
    PROVE  IInv'
<1>1. /\ req' \in [Request -> Req] /\ req'[r] = x
      /\ \A s \in Request \ {r} : req'[s] = req[s]
  BY ReqStep DEF IInv
<1>2. TypeOK'
  BY <1>1 DEF IInv, TypeOK
<1>3. \A s \in Request : Sound(s)'
  BY <1>1 DEF IInv, Sound, At
<1>4. Early'
  BY <1>1 DEF IInv, Early, Connecting, At
<1>5. QED BY <1>2, <1>3, <1>4 DEF IInv

LEMMA StepTake ==
    ASSUME IInv, NEW r \in Request, Take(r)
    PROVE  IInv'
<1> DEFINE x == [req[r] EXCEPT !.pc = "holding"]
           e0 == req[r].on
<1>1. req[r] \in Req /\ Sound(r) /\ req[r].pc \in {"open", "waiting"}
  BY DEF IInv, TypeOK, Take
<1>2. e0 \in engines /\ e0 \in Request /\ req[r].left # 0
  BY <1>1 DEF Sound, Running, IInv, TypeOK
<1>3. x \in Req /\ x.pc = "holding" /\ x.on = e0 /\ x.left = req[r].left
  BY <1>1 DEF Req
<1>4. req' = [req EXCEPT ![r] = x]
  BY DEF Take, Goto, IInv, TypeOK
<1>5. /\ req'[r] = x /\ \A s \in Request \ {r} : req'[s] = req[s]
  BY <1>3, <1>4, ReqStep DEF IInv
<1>6. out \in [Request -> Nat] /\ out' = [out EXCEPT ![e0] = out[e0] + 1] /\ out[e0] < Cap
  BY DEF IInv, TypeOK, Take
<1> HIDE DEF x
<1>7. ASSUME NEW e \in Request PROVE Counted(e)'
  <2>1. Counted(e)
    BY DEF IInv
  <2>2. CASE e = e0
    <3>1. Holders(e)' = Holders(e) \cup {r} /\ r \notin Holders(e)
      BY <1>1, <1>3, <1>5, <2>2 DEF Holders, At
    <3>2. IsFiniteSet(Holders(e)') /\ Cardinality(Holders(e)') = Cardinality(Holders(e)) + 1
      BY <2>1, <3>1, FS_AddElement DEF Counted
    <3>3. out'[e] = out[e] + 1 /\ out'[e] <= Cap
      BY <1>2, <1>6, <2>2, CapAssumption
    <3>4. QED BY <2>1, <3>2, <3>3 DEF Counted
  <2>3. CASE e # e0
    <3>1. Holders(e)' = Holders(e)
      BY <1>1, <1>3, <1>5, <2>3 DEF Holders, At
    <3>2. out'[e] = out[e]
      BY <1>6, <2>3
    <3>3. QED BY <2>1, <3>1, <3>2 DEF Counted
  <2>4. QED BY <2>2, <2>3
<1>8. out' \in [Request -> Nat]
  BY <1>2, <1>6
<1>9. UNCHANGED <<cloud, engine, engines, first>>
  BY DEF Take
<1>10. x \in Req /\ x.left # 0 /\ x.pc # "connecting" /\ x.on \in engines
  BY <1>2, <1>3
<1>11. req' = [req EXCEPT ![r] = x]
  BY <1>4
<1>12. \A e \in Request : Counted(e)'
  BY <1>7
<1>13. QED BY <1>8, <1>9, <1>10, <1>11, <1>12, ConnectionStep

LEMMA StepGiveBack ==
    ASSUME IInv, NEW r \in Request, Commit(r) \/ Raise(r)
    PROVE  IInv'
<1> DEFINE e0 == req[r].on
<1>1. req[r] \in Req /\ Sound(r) /\ req[r].pc = "holding"
  BY DEF IInv, TypeOK, Commit, Raise, At
<1>2. e0 \in engines /\ e0 \in Request /\ req[r].left \in 1..MaxTransactions
  <2>1. e0 \in engines /\ req[r].left # 0 /\ req[r].left \in 0..MaxTransactions
    BY <1>1 DEF Sound, Running, Req
  <2>2. QED BY <2>1, MaxTransactionsAssumption DEF IInv, TypeOK
<1>3. PICK x \in Req : /\ req' = [req EXCEPT ![r] = x] /\ x.pc \in {"open", "ended", "failed"}
                       /\ x.on = e0 /\ (x.pc = "open" => x.left # 0)
  <2>1. CASE Raise(r)
    <3> DEFINE y == [req[r] EXCEPT !.pc = "failed"]
    <3>1. y \in Req /\ y.pc = "failed" /\ y.on = e0
      BY <1>1 DEF Req
    <3>2. req' = [req EXCEPT ![r] = y]
      BY <2>1 DEF Raise, Goto, IInv, TypeOK
    <3>3. QED BY <3>1, <3>2
  <2>2. CASE Commit(r)
    <3> DEFINE p == IF req[r].left > 1 THEN "open" ELSE "ended"
               y == [req[r] EXCEPT !.pc = p, !.left = req[r].left - 1]
    <3>1. req[r].left - 1 \in 0..MaxTransactions /\ (req[r].left > 1 => req[r].left - 1 # 0)
      BY <1>2, MaxTransactionsAssumption
    <3>2. y \in Req /\ y.pc = p /\ y.on = e0 /\ y.left = req[r].left - 1
      BY <1>1, <3>1 DEF Req
    <3>3. req' = [req EXCEPT ![r] = y]
      BY <2>2 DEF Commit, IInv, TypeOK
    <3>4. y.pc \in {"open", "ended"} /\ (y.pc = "open" => y.left # 0)
      BY <3>1, <3>2
    <3> HIDE DEF y
    <3>5. QED BY <3>2, <3>3, <3>4
  <2>3. QED BY <2>1, <2>2
<1>4. /\ req'[r] = x /\ \A s \in Request \ {r} : req'[s] = req[s]
  BY <1>3, ReqStep DEF IInv
<1>5. out \in [Request -> Nat] /\ out' = [out EXCEPT ![e0] = out[e0] - 1]
  BY DEF IInv, TypeOK, Commit, Raise, GiveBack
<1>6. r \in Holders(e0) /\ Counted(e0)
  BY <1>1, <1>2 DEF Holders, At, IInv
<1>7. /\ IsFiniteSet(Holders(e0) \ {r})
      /\ Cardinality(Holders(e0) \ {r}) = Cardinality(Holders(e0)) - 1
      /\ Cardinality(Holders(e0) \ {r}) \in Nat
  BY <1>6, FS_RemoveElement, FS_CardinalityType DEF Counted
<1>8. out[e0] - 1 \in Nat /\ out[e0] - 1 <= Cap
  <2>1. out[e0] = Cardinality(Holders(e0)) /\ out[e0] \in Nat /\ out[e0] <= Cap
    BY <1>2, <1>5, <1>6 DEF Counted
  <2>2. QED BY <1>7, <2>1, CapAssumption
<1>9. ASSUME NEW e \in Request PROVE Counted(e)'
  <2>1. Counted(e)
    BY DEF IInv
  <2>2. CASE e = e0
    <3>1. Holders(e)' = Holders(e0) \ {r}
      BY <1>1, <1>3, <1>4, <2>2 DEF Holders, At
    <3>2. out'[e] = out[e0] - 1
      BY <1>2, <1>5, <2>2
    <3>3. QED BY <1>6, <1>7, <1>8, <3>1, <3>2 DEF Counted
  <2>3. CASE e # e0
    <3>1. Holders(e)' = Holders(e)
      BY <1>1, <1>3, <1>4, <2>3 DEF Holders, At
    <3>2. out'[e] = out[e]
      BY <1>5, <2>3
    <3>3. QED BY <2>1, <3>1, <3>2 DEF Counted
  <2>4. QED BY <2>2, <2>3
<1>10. out' \in [Request -> Nat]
  BY <1>5, <1>8
<1>11. x.pc \in Running => x.left # 0
  BY <1>3 DEF Running
<1>12. UNCHANGED <<cloud, engine, engines, first>>
  BY DEF Commit, Raise
<1>13. QED BY <1>2, <1>3, <1>9, <1>10, <1>11, <1>12, ConnectionStep

----------------------------------------------------------------------------
(* The invariant *)

LEMMA InitIInv == Init => IInv
<1> SUFFICES ASSUME Init PROVE IInv
  OBVIOUS
<1>1. ASSUME NEW r \in Request
      PROVE  req[r] \in Req /\ req[r].pc = "new" /\ req[r].left # 0
  BY MaxTransactionsAssumption DEF Init, Req
<1>2. TypeOK
  <2>1. req \in [Request -> Req]
    BY <1>1 DEF Init
  <2>2. QED BY <2>1 DEF Init, TypeOK
<1>3. ASSUME NEW e \in Request PROVE Counted(e)
  <2>1. Holders(e) = {}
    BY <1>1 DEF Holders, At
  <2>2. QED BY <2>1, FS_EmptySet, CapAssumption DEF Init, Counted
<1>4. \A r \in Request : Sound(r)
  BY <1>1 DEF Sound, At
<1>5. Early
  BY DEF Init, Early
<1>6. QED BY <1>2, <1>3, <1>4, <1>5 DEF IInv

LEMMA NextIInv == IInv /\ [Next]_vars => IInv'
<1> SUFFICES ASSUME IInv, [Next]_vars PROVE IInv'
  OBVIOUS
<1>1. ASSUME NEW r \in Request, UseEngine(r) PROVE IInv'
  BY <1>1, StepUseEngine
<1>2. ASSUME NEW r \in Request, InitLocal(r) \/ InitCloud(r) PROVE IInv'
  BY <1>2, StepNewEngine
<1>3. ASSUME NEW r \in Request, AwaitConnector(r) PROVE IInv'
  BY <1>3, GotoStep DEF AwaitConnector, At, Running
<1>4. ASSUME NEW r \in Request, Wait(r) PROVE IInv'
  BY <1>4, GotoStep DEF Wait, At, Running
<1>5. ASSUME NEW r \in Request, ConnectorFails(r) \/ NoConnection(r) PROVE IInv'
  BY <1>5, GotoStep DEF ConnectorFails, NoConnection, At, Running
<1>6. ASSUME NEW r \in Request, Take(r) PROVE IInv'
  BY <1>6, StepTake
<1>7. ASSUME NEW r \in Request, Commit(r) \/ Raise(r) PROVE IInv'
  BY <1>7, StepGiveBack
<1>8. CASE UNCHANGED vars
  BY <1>8 DEF vars, IInv, TypeOK, Counted, Sound, Early, Holders, Connecting, At
<1>9. QED BY <1>1, <1>2, <1>3, <1>4, <1>5, <1>6, <1>7, <1>8 DEF Next, Enter, Proceed

LEMMA Invariant == Spec => []IInv
BY InitIInv, NextIInv, PTL DEF Spec

----------------------------------------------------------------------------
(* Theorems *)

\* The globals, the pools and the requests are of the shape the code gives them.
THEOREM TypeCorrect == Spec => []TypeOK
<1>1. IInv => TypeOK
  BY DEF IInv
<1>2. QED BY <1>1, Invariant, PTL

\* A pool hands out as many connections as requests hold, and no more than it has.
THEOREM PoolsAccounted == Spec => []ConnectionsAccounted
<1>1. IInv => ConnectionsAccounted
  BY DEF IInv, Counted, Sound, ConnectionsAccounted
<1>2. QED BY <1>1, Invariant, PTL

\* The engines of a process are those of the requests that found it without one.
THEOREM EnginesAreEarly == Spec => []EnginesOfFirstRequests
<1>1. IInv => EnginesOfFirstRequests
  BY DEF IInv, Early, EnginesOfFirstRequests
<1>2. QED BY <1>1, Invariant, PTL

\* Without Cloud SQL there is one.
THEOREM LocalEngineIsOne == Spec => []OneEngineLocally
<1>1. ASSUME IInv PROVE OneEngineLocally
  <2>1. ASSUME ~cloud PROVE Cardinality(engines) <= 1
    <3>1. engines = {} \/ \E r \in Request : engines = {r}
      BY <1>1, <2>1 DEF IInv, Early
    <3>2. Cardinality(engines) = 0 \/ Cardinality(engines) = 1
      BY <3>1, FS_EmptySet, FS_Singleton
    <3>3. QED BY <3>2
  <2>2. QED BY <2>1 DEF OneEngineLocally
<1>2. QED BY <1>1, Invariant, PTL

=============================================================================
