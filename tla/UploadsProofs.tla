---------------------------- MODULE UploadsProofs ----------------------------
(***************************************************************************)
(* Theorems about Uploads, for any number of uploads, variants, threads    *)
(* and signals, and about Storage, for any number of calls, faults and     *)
(* crashes.                                                                *)
(*                                                                         *)
(* The argument turns on the event loop standing still while a pool is     *)
(* shut down: a job that is pending belongs to the pool _executor is bound *)
(* to (Placed), and that pool is only shut down while the loop is blocked  *)
(* (Pool).  So no upload can meet a pool that refuses its jobs, and the    *)
(* jobs of a pool are over before the next pool exists, which is why the   *)
(* bound of one pool is the bound of all of them (Busy).                   *)
(*                                                                         *)
(* In Storage, a thread that has come past the creation of the bucket has  *)
(* seen it exist, and nothing removes it (BucketExists).  While the bucket *)
(* is private, the thread that created it is about to put its policy,      *)
(* whatever the others do, unless it was cut off (PrivateIsPassing).       *)
(***************************************************************************)
EXTENDS Uploads, Storage, FiniteSetTheorems, TLAPS

AllRunning == {j \in Upload \X Variant : job[j[1]][j[2]] = "running"}

Pool ==
    /\ executor # 0 => executor = created
    /\ \A e \in down : e # 0 /\ e <= created
    /\ blocked => executor # 0
    /\ ~blocked => executor \notin down

Placed(u) == \A v \in Variant : Pending(u, v) => executor # 0 /\ up[u].on = executor

\* What the jobs and the objects of an upload are at each stage of it.
Shape(u) ==
    /\ up[u].pc # "refused"
    /\ up[u].pc = "new" => AllOf(job[u], "none")
    /\ up[u].pc \in {"new", "resizing"} => AllOf(put[u], "none")
    /\ up[u].pc = "answered" => \A v \in Variant : put[u][v] \in {"stored", "deleted"}
    /\ AllOf(put[u], "none") \/ AllOf(job[u], "done")

Busy == IsFiniteSet(AllRunning) /\ Cardinality(AllRunning) <= Workers

IInv ==
    /\ TypeOK
    /\ Pool
    /\ \A u \in Upload : Placed(u) /\ Shape(u)
    /\ Busy

\* What is known of the shutdown as long as no signal has come: only the lifespan
\* calls it, and never in vain.
Unsignalled ==
    /\ tasks = 0
    /\ shuttingDown => server \in {"closing", "ended"}
    /\ server \in {"closing", "ended"} => shuttingDown /\ (blocked \/ executor = 0)

Quiet == signals = 0 => Unsignalled

UpRec == [pc : {"new", "resizing", "storing", "answered", "failed", "refused"}, on : Nat]

JobStates == [Variant -> {"none", "queued", "running", "done", "bad"}]

PutStates == [Variant -> {"none", "storing", "stored", "failed", "deleted"}]

----------------------------------------------------------------------------
(* Steps *)

\* A step of one upload that leaves the jobs and the pools alone.
LEMMA UploadStep ==
    ASSUME IInv, NEW u \in Upload,
           UNCHANGED <<server, poolVars, signals, tasks, job>>,
           up' \in [Upload -> UpRec], put' \in [Upload -> PutStates],
           up'[u].on = up[u].on,
           \A w \in Upload \ {u} : up'[w] = up[w] /\ put'[w] = put[w],
           Shape(u)'
    PROVE  IInv'
<1>1. TypeOK'
  BY DEF IInv, TypeOK, UpRec, PutStates, poolVars
<1>2. Pool'
  BY DEF IInv, Pool, poolVars
<1>3. Busy'
  BY DEF IInv, Busy, AllRunning
<1>4. ASSUME NEW w \in Upload PROVE Placed(w)' /\ Shape(w)'
  <2>1. up'[w].on = up[w].on
    BY DEF IInv
  <2>2. Placed(w)'
    BY <2>1 DEF IInv, Placed, Pending, poolVars
  <2>3. Shape(w)'
    <3>1. CASE w = u
      BY <3>1
    <3>2. CASE w # u
      BY <3>2 DEF IInv, Shape, AllOf
    <3>3. QED BY <3>1, <3>2
  <2>4. QED BY <2>2, <2>3
<1>5. QED BY <1>1, <1>2, <1>3, <1>4 DEF IInv

LEMMA GotoStep ==
    ASSUME IInv, NEW u \in Upload, NEW pc \in {"storing", "answered", "failed"}, Goto(u, pc)
    PROVE  /\ up' \in [Upload -> UpRec]
           /\ up'[u].pc = pc /\ up'[u].on = up[u].on
           /\ \A w \in Upload \ {u} : up'[w] = up[w]
<1>1. up \in [Upload -> UpRec]
  BY DEF IInv, TypeOK, UpRec
<1>2. [up[u] EXCEPT !.pc = pc] \in UpRec
  BY <1>1 DEF UpRec
<1>3. up' = [up EXCEPT ![u] = [up[u] EXCEPT !.pc = pc]]
  BY <1>1 DEF Goto
<1>4. QED BY <1>1, <1>2, <1>3 DEF UpRec

LEMMA StepServe ==
    ASSUME IInv, NEW u \in Upload, Serve(u)
    PROVE  IInv'
<1>0. put \in [Upload -> PutStates] /\ Shape(u)
  BY DEF IInv, TypeOK, PutStates
<1>1. CASE Store(u)
  <2>1. /\ put' \in [Upload -> PutStates]
        /\ \A w \in Upload \ {u} : put'[w] = put[w]
    <3>1. [v \in Variant |-> "storing"] \in PutStates
      BY DEF PutStates
    <3>2. QED BY <1>0, <1>1, <3>1 DEF Store
  <2>2. up'[u].pc = "storing"
    BY <1>1, GotoStep DEF Store
  <2>3. AllOf(job[u], "done")' /\ UNCHANGED <<server, poolVars, signals, tasks, job>>
    BY <1>1 DEF Store, AllOf
  <2>4. Shape(u)'
    BY <2>2, <2>3 DEF Shape
  <2>5. QED BY <1>1, <2>1, <2>3, <2>4, GotoStep, UploadStep DEF Store
<1>2. CASE FailResize(u) \/ FailStore(u)
  <2>1. Goto(u, "failed") /\ UNCHANGED <<server, poolVars, signals, tasks, job, put>>
    BY <1>2 DEF FailResize, FailStore
  <2>2. up'[u].pc = "failed"
    BY <2>1, GotoStep
  <2>3. Shape(u)'
    BY <1>0, <2>1, <2>2 DEF Shape, AllOf
  <2>4. QED BY <1>0, <2>1, <2>3, GotoStep, UploadStep
<1>3. CASE Answer(u)
  <2>1. Goto(u, "answered") /\ UNCHANGED <<server, poolVars, signals, tasks, job, put>>
    BY <1>3 DEF Answer
  <2>2. up'[u].pc = "answered"
    BY <2>1, GotoStep
  <2>3. Shape(u)'
    BY <1>0, <1>3, <2>1, <2>2 DEF Answer, Shape, AllOf
  <2>4. QED BY <1>0, <2>1, <2>3, GotoStep, UploadStep
<1>4. QED BY <1>1, <1>2, <1>3 DEF Serve

LEMMA StepPut ==
    ASSUME IInv, NEW u \in Upload, NEW v \in Variant, EndPut(u, v) \/ DeleteImage(u, v)
    PROVE  IInv'
<1>1. put \in [Upload -> PutStates] /\ up \in [Upload -> UpRec] /\ Shape(u)
  BY DEF IInv, TypeOK, PutStates, UpRec
<1>2. PICK end \in {"stored", "failed", "deleted"} : put' = [put EXCEPT ![u][v] = end]
  BY DEF EndPut, DeleteImage
<1>3. /\ put[u][v] \in {"storing", "stored"}
      /\ put[u][v] = "storing" \/ end = "deleted"
  <2>1. CASE DeleteImage(u, v)
    <3>1. put'[u][v] = "deleted"
      BY <1>1, <2>1 DEF DeleteImage, PutStates
    <3>2. put'[u][v] = end
      BY <1>1, <1>2 DEF PutStates
    <3>3. QED BY <2>1, <3>1, <3>2 DEF DeleteImage
  <2>2. QED BY <2>1 DEF EndPut
<1>4. UNCHANGED <<server, poolVars, signals, tasks, up, job>>
  BY DEF EndPut, DeleteImage
<1>5. put'[u] = [put[u] EXCEPT ![v] = end] /\ \A w \in Upload \ {u} : put'[w] = put[w]
  BY <1>1, <1>2
<1>6. put' \in [Upload -> PutStates]
  BY <1>1, <1>2 DEF PutStates
<1>7. ~AllOf(put[u], "none")
  BY <1>3 DEF AllOf
<1>8. Shape(u)'
  <2>1. put[u] \in PutStates /\ AllOf(job'[u], "done")
    BY <1>1, <1>4, <1>7 DEF Shape
  <2>2. ASSUME up'[u].pc = "answered"
        PROVE  \A w \in Variant : put'[u][w] \in {"stored", "deleted"}
    BY <1>1, <1>3, <1>4, <1>5, <2>1, <2>2 DEF Shape, PutStates
  <2>3. up'[u].pc \notin {"refused", "new", "resizing"}
    BY <1>1, <1>4, <1>7 DEF Shape
  <2>4. QED BY <2>1, <2>2, <2>3 DEF Shape, AllOf
<1>9. QED BY <1>1, <1>4, <1>5, <1>6, <1>8, UploadStep

\* A step that moves one job on, of an upload that is not new.
LEMMA JobStep ==
    ASSUME IInv, NEW u \in Upload, NEW v \in Variant, Pending(u, v),
           NEW s \in {"running", "done", "bad"}, job' = [job EXCEPT ![u][v] = s],
           UNCHANGED <<server, poolVars, signals, tasks, up, put>>, Busy'
    PROVE  IInv'
<1>1. job \in [Upload -> JobStates]
  BY DEF IInv, TypeOK, JobStates
<1>2. job' \in [Upload -> JobStates]
  BY <1>1 DEF JobStates
<1>3. TypeOK'
  BY <1>2 DEF IInv, TypeOK, poolVars, JobStates
<1>4. Pool'
  BY DEF IInv, Pool, poolVars
<1>5. /\ job'[u] = [job[u] EXCEPT ![v] = s]
      /\ \A w \in Upload \ {u} : job'[w] = job[w]
  BY <1>1
<1>6. ASSUME NEW w \in Upload PROVE Placed(w)' /\ Shape(w)'
  <2>1. Placed(w) /\ Shape(w)
    BY DEF IInv
  <2>2. CASE w # u
    BY <1>5, <2>1, <2>2 DEF Placed, Shape, Pending, AllOf, poolVars
  <2>3. CASE w = u
    <3>1. Placed(w)'
      <4>1. executor # 0 /\ up[u].on = executor
        BY <2>1, <2>3 DEF Placed
      <4>2. QED BY <4>1, <2>3 DEF Placed, poolVars
    <3>2. ~AllOf(job[u], "none") /\ ~AllOf(job[u], "done")
      BY DEF Pending, AllOf
    <3>3. Shape(w)'
      BY <2>1, <2>3, <3>2 DEF Shape, AllOf
    <3>4. QED BY <3>1, <3>3
  <2>4. QED BY <2>2, <2>3
<1>7. QED BY <1>3, <1>4, <1>6 DEF IInv

LEMMA StepStartJob ==
    ASSUME IInv, NEW u \in Upload, NEW v \in Variant, StartJob(u, v)
    PROVE  IInv'
<1>1. job \in [Upload -> JobStates]
  BY DEF IInv, TypeOK, JobStates
<1>2. Pending(u, v) /\ job[u][v] = "queued"
  BY DEF StartJob, Pending
<1>3. AllRunning = Running(up[u].on)
  <2>1. executor = up[u].on
    BY <1>2 DEF IInv, Placed
  <2>2. \A j \in AllRunning : up[j[1]].on = executor
    BY DEF IInv, Placed, Pending, AllRunning
  <2>3. QED BY <2>1, <2>2 DEF AllRunning, Running
<1>4. AllRunning' = AllRunning \cup {<<u, v>>}
  <2>1. ASSUME NEW j \in Upload \X Variant
        PROVE  job'[j[1]][j[2]] = IF j = <<u, v>> THEN "running" ELSE job[j[1]][j[2]]
    BY <1>1 DEF StartJob, JobStates
  <2>2. QED BY <2>1 DEF AllRunning
<1>5. <<u, v>> \notin AllRunning
  BY <1>2 DEF AllRunning
<1>6. Busy'
  <2>1. /\ IsFiniteSet(AllRunning')
        /\ Cardinality(AllRunning') = Cardinality(AllRunning) + 1
    BY <1>4, <1>5, FS_AddElement DEF IInv, Busy
  <2>2. Cardinality(AllRunning) < Workers /\ Cardinality(AllRunning) \in Nat
    BY <1>3, FS_CardinalityType DEF StartJob, IInv, Busy
  <2>3. QED BY <2>1, <2>2, WorkersAssumption DEF Busy
<1>7. QED BY <1>2, <1>6, JobStep DEF StartJob

LEMMA StepEndJob ==
    ASSUME IInv, NEW u \in Upload, NEW v \in Variant, EndJob(u, v)
    PROVE  IInv'
<1>1. job \in [Upload -> JobStates]
  BY DEF IInv, TypeOK, JobStates
<1>2. PICK end \in {"done", "bad"} : job' = [job EXCEPT ![u][v] = end]
  BY DEF EndJob
<1>3. AllRunning' \subseteq AllRunning
  BY <1>1, <1>2 DEF AllRunning, JobStates
<1>4. Busy'
  <2>1. IsFiniteSet(AllRunning') /\ Cardinality(AllRunning') <= Cardinality(AllRunning)
    BY <1>3, FS_Subset DEF IInv, Busy
  <2>2. Cardinality(AllRunning') \in Nat /\ Cardinality(AllRunning) \in Nat
    BY <2>1, FS_CardinalityType DEF IInv, Busy
  <2>3. QED BY <2>1, <2>2, WorkersAssumption DEF IInv, Busy
<1>5. Pending(u, v)
  BY DEF EndJob, Pending
<1>6. QED BY <1>2, <1>4, <1>5, JobStep DEF EndJob

LEMMA StepSubmit ==
    ASSUME IInv, NEW u \in Upload, Submit(u)
    PROVE  IInv'
<1>1. /\ job \in [Upload -> JobStates] /\ up \in [Upload -> UpRec]
      /\ executor \in Nat /\ created \in Nat /\ Pool
  BY DEF IInv, TypeOK, JobStates, UpRec
<1>2. GetExecutor \in Nat \ {0} /\ GetExecutor \notin down
  BY <1>1 DEF Submit, LoopRuns, GetExecutor, Pool
<1>3. /\ up' = [up EXCEPT ![u] = [pc |-> "resizing", on |-> GetExecutor]]
      /\ job' = [job EXCEPT ![u] = [v \in Variant |-> "queued"]]
      /\ executor' = GetExecutor /\ created' = GetExecutor
      /\ UNCHANGED <<server, down, shuttingDown, blocked, signals, tasks, put>>
  BY <1>2 DEF Submit
<1>4. /\ up'[u].pc = "resizing" /\ up'[u].on = GetExecutor
      /\ \A v \in Variant : job'[u][v] = "queued"
      /\ \A w \in Upload \ {u} : up'[w] = up[w] /\ job'[w] = job[w]
  BY <1>1, <1>3
<1>5. TypeOK'
  <2>1. [pc |-> "resizing", on |-> GetExecutor] \in UpRec
    BY <1>2 DEF UpRec
  <2>2. [v \in Variant |-> "queued"] \in JobStates
    BY DEF JobStates
  <2>3. up' \in [Upload -> UpRec] /\ job' \in [Upload -> JobStates]
    BY <1>1, <1>3, <2>1, <2>2
  <2>4. QED BY <1>2, <1>3, <2>3 DEF IInv, TypeOK, UpRec, JobStates
<1>6. Pool'
  <2>1. created <= GetExecutor
    BY <1>1 DEF Pool, GetExecutor
  <2>2. \A e \in down : e \in Nat
    BY DEF IInv, TypeOK
  <2>3. \A e \in down : e <= GetExecutor
    BY <1>1, <1>2, <2>1, <2>2 DEF Pool
  <2>4. QED BY <1>1, <1>2, <1>3, <2>3 DEF Pool
<1>7. AllOf(job[u], "none") /\ AllOf(put[u], "none")
  BY DEF IInv, Shape, Submit
<1>8. AllRunning' = AllRunning
  <2>1. ASSUME NEW j \in Upload \X Variant
        PROVE  job'[j[1]][j[2]] = "running" <=> job[j[1]][j[2]] = "running"
    <3>1. CASE j[1] = u
      BY <1>4, <1>7, <3>1 DEF AllOf
    <3>2. CASE j[1] # u
      BY <1>4, <3>2
    <3>3. QED BY <3>1, <3>2
  <2>2. QED BY <2>1 DEF AllRunning
<1>9. ASSUME NEW w \in Upload PROVE Placed(w)' /\ Shape(w)'
  <2>1. CASE w = u
    BY <1>2, <1>3, <1>4, <1>7, <2>1 DEF Placed, Shape, AllOf
  <2>2. CASE w # u
    <3>1. executor # 0 => executor' = executor
      BY <1>3 DEF GetExecutor
    <3>2. QED BY <1>3, <1>4, <2>2, <3>1 DEF IInv, Placed, Shape, Pending, AllOf
  <2>3. QED BY <2>1, <2>2
<1>10. QED BY <1>5, <1>6, <1>8, <1>9 DEF IInv, Busy

LEMMA StepBeginShutdown ==
    ASSUME IInv, RunShutdown \/ EndLifespan
    PROVE  IInv'
<1>1. BeginShutdown /\ UNCHANGED <<signals, up, job, put>>
  BY DEF RunShutdown, EndLifespan
<1>2. server' \in {"serving", "draining", "closing", "ended"} /\ tasks' \in Nat
  BY DEF RunShutdown, EndLifespan, IInv, TypeOK
<1>3. TypeOK'
  BY <1>1, <1>2 DEF BeginShutdown, IInv, TypeOK
<1>4. Pool'
  <2>1. executor' = executor /\ created' = created /\ created \in Nat /\ Pool
    BY <1>1 DEF BeginShutdown, IInv, TypeOK
  <2>2. CASE ~shuttingDown /\ executor # 0
    <3>1. down' = down \cup {executor} /\ blocked' = TRUE
      BY <1>1, <2>2 DEF BeginShutdown
    <3>2. QED BY <2>1, <2>2, <3>1 DEF Pool
  <2>3. CASE shuttingDown \/ executor = 0
    <3>1. down' = down /\ blocked' = blocked
      BY <1>1, <2>3 DEF BeginShutdown
    <3>2. QED BY <2>1, <3>1 DEF Pool
  <2>4. QED BY <2>2, <2>3
<1>5. Busy'
  BY <1>1 DEF IInv, Busy, AllRunning
<1>6. \A u \in Upload : Placed(u)' /\ Shape(u)'
  BY <1>1 DEF BeginShutdown, IInv, Placed, Shape, Pending, AllOf
<1>7. QED BY <1>3, <1>4, <1>5, <1>6 DEF IInv

LEMMA StepEndShutdown ==
    ASSUME IInv, EndShutdown
    PROVE  IInv'
<1>1. \A u \in Upload, v \in Variant : ~Pending(u, v)
  BY DEF EndShutdown, IInv, Placed
<1>2. TypeOK'
  BY DEF EndShutdown, IInv, TypeOK
<1>3. Pool'
  BY DEF EndShutdown, IInv, Pool
<1>4. Busy'
  BY DEF EndShutdown, IInv, Busy, AllRunning
<1>5. \A u \in Upload : Placed(u)' /\ Shape(u)'
  BY <1>1 DEF EndShutdown, IInv, Placed, Shape, Pending, AllOf
<1>6. QED BY <1>2, <1>3, <1>4, <1>5 DEF IInv

\* The server and the signals: nothing of the pools or of the uploads changes.
LEMMA StepServer ==
    ASSUME IInv, UNCHANGED <<poolVars, up, job, put>>,
           server' \in {"serving", "draining", "closing", "ended"},
           signals' \in Nat, tasks' \in Nat
    PROVE  IInv'
<1>1. TypeOK'
  BY DEF IInv, TypeOK, poolVars
<1>2. Pool' /\ Busy'
  BY DEF IInv, Pool, poolVars, Busy, AllRunning
<1>3. \A u \in Upload : Placed(u)' /\ Shape(u)'
  BY DEF IInv, Placed, Shape, Pending, AllOf, poolVars
<1>4. QED BY <1>1, <1>2, <1>3 DEF IInv

----------------------------------------------------------------------------
(* The invariant *)

LEMMA InitIInv == Init => IInv
<1> SUFFICES ASSUME Init PROVE IInv
  OBVIOUS
<1>1. TypeOK
  BY DEF Init, TypeOK
<1>2. Pool
  BY DEF Init, Pool
<1>3. \A u \in Upload : Placed(u) /\ Shape(u)
  BY DEF Init, Placed, Shape, Pending, AllOf
<1>4. Busy
  <2>1. AllRunning = {}
    BY DEF Init, AllRunning
  <2>2. QED BY <2>1, FS_EmptySet, WorkersAssumption DEF Busy
<1>5. QED BY <1>1, <1>2, <1>3, <1>4 DEF IInv

LEMMA NextIInv == IInv /\ [Next]_vars => IInv'
<1> SUFFICES ASSUME IInv, [Next]_vars PROVE IInv'
  OBVIOUS
<1>1. ASSUME NEW u \in Upload, Submit(u) \/ Serve(u) PROVE IInv'
  BY <1>1, StepSubmit, StepServe
<1>2. ASSUME NEW u \in Upload, NEW v \in Variant,
             EndJob(u, v) \/ EndPut(u, v) \/ DeleteImage(u, v)
      PROVE  IInv'
  BY <1>2, StepEndJob, StepPut
<1>3. CASE TakeJob
  BY <1>3, StepStartJob DEF TakeJob
<1>4. CASE EndShutdown \/ RunShutdown \/ EndLifespan
  BY <1>4, StepEndShutdown, StepBeginShutdown
<1>5. CASE Signal \/ Drain \/ Exit
  <2>1. server' \in {"serving", "draining", "closing", "ended"} /\ signals' \in Nat /\ tasks' \in Nat
    BY <1>5 DEF Signal, Drain, Exit, IInv, TypeOK
  <2>2. UNCHANGED <<poolVars, up, job, put>>
    BY <1>5 DEF Signal, Drain, Exit
  <2>3. QED BY <2>1, <2>2, StepServer
<1>6. CASE UNCHANGED vars
  <2>1. server' \in {"serving", "draining", "closing", "ended"} /\ signals' \in Nat /\ tasks' \in Nat
    BY <1>6 DEF vars, IInv, TypeOK
  <2>2. QED BY <1>6, <2>1, StepServer DEF vars
<1>7. QED BY <1>1, <1>2, <1>3, <1>4, <1>5, <1>6 DEF Next

LEMMA Invariant == Spec => []IInv
BY InitIInv, NextIInv, PTL DEF Spec

\* Only a signal schedules a shutdown, and only a server that takes no requests any
\* more has one from the lifespan.
LEMMA NextQuiet == TypeOK /\ Quiet /\ [Next]_vars => Quiet'
<1> SUFFICES ASSUME TypeOK, Quiet, [Next]_vars, signals' = 0 PROVE Unsignalled'
  BY DEF Quiet
<1>1. CASE Signal
  BY <1>1 DEF Signal, TypeOK
<1>2. CASE signals = 0
  <2> USE <1>2 DEF Quiet, Unsignalled
  <2>1. ASSUME NEW u \in Upload, Submit(u) PROVE Unsignalled'
    BY <2>1 DEF Submit
  <2>2. ASSUME NEW u \in Upload, Serve(u) PROVE Unsignalled'
    BY <2>2 DEF Serve, Store, FailResize, Answer, FailStore, poolVars
  <2>3. ASSUME NEW u \in Upload, NEW v \in Variant,
               EndJob(u, v) \/ EndPut(u, v) \/ DeleteImage(u, v)
        PROVE  Unsignalled'
    BY <2>3 DEF EndJob, EndPut, DeleteImage, poolVars
  <2>4. CASE TakeJob
    BY <2>4 DEF TakeJob, StartJob, poolVars
  <2>5. CASE EndShutdown
    BY <2>5 DEF EndShutdown
  <2>6. CASE RunShutdown
    BY <2>6 DEF RunShutdown
  <2>7. CASE EndLifespan
    BY <2>7 DEF EndLifespan, BeginShutdown, LoopRuns
  <2>8. CASE Drain \/ Exit
    BY <2>8 DEF Drain, Exit, poolVars
  <2>9. CASE UNCHANGED vars
    BY <2>9 DEF vars, poolVars
  <2>10. QED BY <1>1, <2>1, <2>2, <2>3, <2>4, <2>5, <2>6, <2>7, <2>8, <2>9 DEF Next
<1>3. CASE ~Signal /\ signals # 0
  <2>1. signals' = signals
    BY <1>3 DEF Next, Submit, Serve, Store, FailResize, Answer, FailStore, EndJob, EndPut,
                DeleteImage, TakeJob, StartJob, EndShutdown, RunShutdown, EndLifespan,
                Drain, Exit, vars
  <2>2. QED BY <1>3, <2>1
<1>4. QED BY <1>1, <1>2, <1>3

----------------------------------------------------------------------------
(* Theorems *)

\* The state of the pools and of the uploads is always of the shape the code gives it.
THEOREM TypeCorrect == Spec => []TypeOK
<1>1. IInv => TypeOK
  BY DEF IInv
<1>2. QED BY <1>1, Invariant, PTL

\* However signals and the end of the lifespan fall between the steps of the uploads, no
\* upload submits to a pool that has been shut down.
THEOREM UploadsNeverRefused == Spec => []NeverRefused
<1>1. IInv => NeverRefused
  BY DEF IInv, Shape, NeverRefused
<1>2. QED BY <1>1, Invariant, PTL

\* The threads of one pool bound the resizing of the whole process.
THEOREM ResizingBounded == Spec => []WorkersBounded
<1>1. IInv => WorkersBounded
  BY DEF IInv, Busy, AllRunning, WorkersBounded
<1>2. QED BY <1>1, Invariant, PTL

\* The loop only goes on after a shutdown when the pool has no job left.
THEOREM ShutdownWaits == Spec => []ShutdownDrains
<1>1. IInv => ShutdownDrains
  BY DEF IInv, Pool, Placed, ShutdownDrains
<1>2. QED BY <1>1, Invariant, PTL

\* An answered upload is stored whole, and a failed resizing stores nothing.
THEOREM AnswersAreStored == Spec => []AnsweredIsStored
<1>1. IInv => AnsweredIsStored
  BY DEF IInv, Shape, AllOf, AnsweredIsStored
<1>2. QED BY <1>1, Invariant, PTL

\* A process that no signal has reached leaves no pool behind when it closes.
THEOREM SignalsLeavePools == Spec => []PoolLeftOnlyBySignal
<1>1. Init => Quiet
  BY DEF Init, Quiet, Unsignalled
<1>2. TypeOK /\ Quiet => PoolLeftOnlyBySignal
  BY DEF TypeOK, Quiet, Unsignalled, PoolLeftOnlyBySignal
<1>3. QED BY <1>1, <1>2, NextQuiet, TypeCorrect, PTL DEF Spec

----------------------------------------------------------------------------
(* Storage: where the images are put *)

BucketExists ==
    /\ backend => bucket # "none"
    /\ \A c \in Call : at[c] \in {"policy", "assign", "use"} => bucket # "none"

StorageInv == StorageTypeOK /\ BucketExists /\ PrivateIsPassing

LEMMA InitStorageInv == StorageInit => StorageInv
<1> SUFFICES ASSUME StorageInit PROVE StorageInv
  OBVIOUS
<1>1. StorageTypeOK
  BY DEF StorageInit, StorageTypeOK, Step
<1>2. \A c \in Call : at[c] = "new"
  BY DEF StorageInit
<1>3. BucketExists /\ PrivateIsPassing
  BY <1>2 DEF StorageInit, BucketExists, PrivateIsPassing
<1>4. QED BY <1>1, <1>3 DEF StorageInv

\* The types, whatever the step.
LEMMA NextStorageType == StorageTypeOK /\ [StorageNext]_storageVars => StorageTypeOK'
<1> SUFFICES ASSUME StorageTypeOK, [StorageNext]_storageVars PROVE StorageTypeOK'
  OBVIOUS
<1>1. ASSUME NEW c \in Call, NEW s \in Step, MoveTo(c, s)
      PROVE  at' \in [Call -> Step]
  BY <1>1 DEF StorageTypeOK, MoveTo
<1>2. ASSUME NEW c \in Call, GetStorage(c) PROVE StorageTypeOK'
  BY <1>1, <1>2 DEF StorageTypeOK, GetStorage, Step, bounds
<1>3. ASSUME NEW c \in Call, HeadBucket(c) PROVE StorageTypeOK'
  BY <1>1, <1>3 DEF StorageTypeOK, HeadBucket, Step, bounds
<1>4. ASSUME NEW c \in Call, CreateBucket(c) \/ RefuseCreate(c) PROVE StorageTypeOK'
  BY <1>1, <1>4 DEF StorageTypeOK, CreateBucket, RefuseCreate, Step, bounds
<1>5. ASSUME NEW c \in Call, CreateAgain(c) \/ PutPolicy(c) \/ Repeat(c) PROVE StorageTypeOK'
  BY <1>1, <1>5 DEF StorageTypeOK, CreateAgain, PutPolicy, Repeat, Step, bounds
<1>6. ASSUME NEW c \in Call, Assign(c) \/ Use(c) PROVE StorageTypeOK'
  BY <1>1, <1>6 DEF StorageTypeOK, Assign, Use, Step, bounds
<1>7. ASSUME NEW c \in Call, Fail(c) PROVE StorageTypeOK'
  <2>1. at' \in [Call -> Step] /\ faults' \in Nat /\ cut' \in BOOLEAN
    BY <1>1, <1>7 DEF StorageTypeOK, Fail, OneFault, Step
  <2>2. QED BY <1>7, <2>1 DEF StorageTypeOK, Fail, OneFault
<1>8. ASSUME NEW c \in Call, HeadMisled(c) \/ CreateUnanswered(c) \/ PutUnanswered(c)
      PROVE  StorageTypeOK'
  <2>1. at' \in [Call -> Step] /\ faults' \in Nat
    BY <1>1, <1>8 DEF StorageTypeOK, HeadMisled, CreateUnanswered, PutUnanswered, OneFault, Step
  <2>2. QED BY <1>8, <2>1 DEF StorageTypeOK, HeadMisled, CreateUnanswered, PutUnanswered, OneFault
<1>9. CASE Crash
  <2>1. at' \in [Call -> Step]
    BY <1>9 DEF StorageTypeOK, Crash, Step
  <2>2. cut' \in BOOLEAN /\ crashes' \in Nat
    BY <1>9 DEF StorageTypeOK, Crash
  <2>3. QED BY <1>9, <2>1, <2>2 DEF StorageTypeOK, Crash
<1>10. CASE UNCHANGED storageVars
  BY <1>10 DEF StorageTypeOK, storageVars, bounds
<1>11. QED BY <1>2, <1>3, <1>4, <1>5, <1>6, <1>7, <1>8, <1>9, <1>10 DEF StorageNext, Proceed

\* A call that goes to a step which needs no bucket, or one that is there.
LEMMA LocalStep ==
    ASSUME StorageInv, StorageTypeOK', NEW c \in Call, NEW s \in Step, MoveTo(c, s),
           bucket' = bucket, backend' => bucket # "none",
           s \in {"policy", "assign", "use"} => bucket # "none",
           at[c] = "policy" \/ cut' # cut => cut' = TRUE
    PROVE  StorageInv'
<1>1. at'[c] = s /\ \A d \in Call \ {c} : at'[d] = at[d]
  BY DEF MoveTo, StorageInv, StorageTypeOK
<1>2. BucketExists'
  BY <1>1 DEF StorageInv, BucketExists
<1>3. PrivateIsPassing'
  BY <1>1 DEF StorageInv, PrivateIsPassing
<1>4. QED BY <1>2, <1>3 DEF StorageInv

LEMMA StepCreate ==
    ASSUME StorageInv, StorageTypeOK', NEW c \in Call, CreateBucket(c) \/ CreateUnanswered(c)
    PROVE  StorageInv'
<1>1. /\ bucket' = "private"
      /\ at'[c] = "policy" \/ cut'
  BY DEF CreateBucket, CreateUnanswered, MoveTo, StorageInv, StorageTypeOK
<1>2. QED BY <1>1 DEF StorageInv, BucketExists, PrivateIsPassing

LEMMA StepPutPolicy ==
    ASSUME StorageInv, StorageTypeOK', NEW c \in Call, PutPolicy(c)
    PROVE  StorageInv'
<1>1. at'[c] = "assign" /\ \A d \in Call \ {c} : at'[d] = at[d]
  BY DEF PutPolicy, MoveTo, StorageInv, StorageTypeOK
<1>2. bucket # "none" /\ bucket' = "public"
  BY DEF PutPolicy, StorageInv, BucketExists
<1>3. QED BY <1>1, <1>2 DEF StorageInv, BucketExists, PrivateIsPassing

LEMMA StepCrash ==
    ASSUME StorageInv, StorageTypeOK', Crash
    PROVE  StorageInv'
<1>1. \A c \in Call : at'[c] \in {"new", "answered", "failed"}
  BY DEF Crash
<1>2. BucketExists'
  BY <1>1 DEF Crash, BucketExists
<1>3. PrivateIsPassing'
  BY DEF Crash, StorageInv, PrivateIsPassing
<1>4. QED BY <1>2, <1>3 DEF StorageInv

LEMMA NextStorageInv == StorageInv /\ [StorageNext]_storageVars => StorageInv'
<1> SUFFICES ASSUME StorageInv, [StorageNext]_storageVars PROVE StorageInv'
  OBVIOUS
<1>1. StorageTypeOK'
  BY NextStorageType DEF StorageInv
<1>2. ASSUME NEW c \in Call, GetStorage(c) PROVE StorageInv'
  <2>1. CASE backend
    BY <1>1, <1>2, <2>1, LocalStep DEF GetStorage, Step, StorageInv, BucketExists
  <2>2. CASE ~backend
    BY <1>1, <1>2, <2>2, LocalStep DEF GetStorage, Step
  <2>3. QED BY <2>1, <2>2
<1>3. ASSUME NEW c \in Call, HeadBucket(c) PROVE StorageInv'
  <2>1. CASE bucket = "none"
    BY <1>1, <1>3, <2>1, LocalStep DEF HeadBucket, Step, StorageInv, BucketExists
  <2>2. CASE bucket # "none"
    BY <1>1, <1>3, <2>2, LocalStep DEF HeadBucket, Step
  <2>3. QED BY <2>1, <2>2
<1>4. ASSUME NEW c \in Call, CreateBucket(c) \/ CreateUnanswered(c) PROVE StorageInv'
  BY <1>1, <1>4, StepCreate
<1>5. ASSUME NEW c \in Call, RefuseCreate(c) PROVE StorageInv'
  BY <1>1, <1>5, LocalStep DEF RefuseCreate, Step
<1>6. ASSUME NEW c \in Call, PutPolicy(c) PROVE StorageInv'
  BY <1>1, <1>6, StepPutPolicy
<1>7. ASSUME NEW c \in Call, Assign(c) PROVE StorageInv'
  BY <1>1, <1>7, LocalStep DEF Assign, Step, StorageInv, BucketExists
<1>8. ASSUME NEW c \in Call, Use(c) PROVE StorageInv'
  BY <1>1, <1>8, LocalStep DEF Use, Step
<1>9. ASSUME NEW c \in Call, Fail(c) PROVE StorageInv'
  BY <1>1, <1>9, LocalStep DEF Fail, Step, StorageInv, StorageTypeOK, BucketExists
<1>10. ASSUME NEW c \in Call, HeadMisled(c) PROVE StorageInv'
  BY <1>1, <1>10, LocalStep DEF HeadMisled, Step, StorageInv, BucketExists
<1>11. ASSUME NEW c \in Call, PutUnanswered(c) PROVE StorageInv'
  BY <1>1, <1>11, LocalStep DEF PutUnanswered, Step, StorageInv, BucketExists
<1>12. ASSUME NEW c \in Call, CreateAgain(c) PROVE StorageInv'
  BY <1>1, <1>12, LocalStep DEF CreateAgain, Step, StorageInv, BucketExists
<1>13. ASSUME NEW c \in Call, Repeat(c) PROVE StorageInv'
  BY <1>1, <1>13, LocalStep DEF Repeat, Step, StorageInv, BucketExists
<1>14. CASE Crash
  BY <1>1, <1>14, StepCrash
<1>15. CASE UNCHANGED storageVars
  BY <1>1, <1>15 DEF storageVars, StorageInv, BucketExists, PrivateIsPassing
<1>16. QED BY <1>2, <1>3, <1>4, <1>5, <1>6, <1>7, <1>8, <1>9, <1>10, <1>11, <1>12, <1>13,
              <1>14, <1>15
       DEF StorageNext, Proceed

LEMMA StorageInvariant == StorageSpec => []StorageInv
BY InitStorageInv, NextStorageInv, PTL DEF StorageSpec

\* The state of the store, the backend and the calls is of the shape the code gives it.
THEOREM StorageTypeCorrect == StorageSpec => []StorageTypeOK
<1>1. StorageInv => StorageTypeOK
  BY DEF StorageInv
<1>2. QED BY <1>1, StorageInvariant, PTL

\* However the threads race to build the backend, the one in use has its bucket.
THEOREM BackendHasBucket == StorageSpec => []UsedHasBucket
<1>1. StorageInv => UsedHasBucket
  BY DEF StorageInv, BucketExists, UsedHasBucket
<1>2. QED BY <1>1, StorageInvariant, PTL

\* Without a cut-off creation, a bucket that is not public is about to be.
THEOREM PolicyIsComing == StorageSpec => []PrivateIsPassing
<1>1. StorageInv => PrivateIsPassing
  BY DEF StorageInv
<1>2. QED BY <1>1, StorageInvariant, PTL

=============================================================================
