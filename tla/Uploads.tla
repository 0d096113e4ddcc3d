------------------------------- MODULE Uploads -------------------------------
(***************************************************************************)
(* The image uploads of one process: an upload is resized to its variants  *)
(* by the threads of a pool, created on first use, and then stored by the  *)
(* threads of the loop's default executor.  A signal, or the end of the    *)
(* lifespan, shuts the pool down, and the event loop stands still while it *)
(* does.                                                                   *)
(*                                                                         *)
(* All coroutines share the event loop: an action of the loop runs from    *)
(* one await to the next, and threads run at any time.  The queue that     *)
(* shutdown_workers joins is never filled (start_workers is a no-op), and  *)
(* joining an empty queue does not suspend the task (Python 3.12).         *)
(***************************************************************************)
EXTENDS Naturals, FiniteSets

CONSTANTS
    Upload,      \* requests to POST /api/v1/admin/upload, served once each
    Variants,    \* the number of variants, in the order of IMAGE_VARIANTS
    Workers,     \* settings.image_worker_count
    MaxSignals   \* bound: signals received

ASSUME VariantsAssumption == Variants \in Nat \ {0}

ASSUME WorkersAssumption == Workers \in Nat \ {0}

ASSUME MaxSignalsAssumption == MaxSignals \in Nat

Variant == 1..Variants

VARIABLES
    server,        \* whether uvicorn takes requests, waits for the last ones, or is closing
    executor,      \* the number of the pool _executor is bound to, 0 for None
    created,       \* pools created so far
    down,          \* pools whose shutdown has begun: they refuse jobs
    shuttingDown,  \* _shutting_down
    blocked,       \* the event loop waits inside executor.shutdown(wait=True)
    signals,       \* signals received
    tasks,         \* shutdown_workers tasks the signal handler has scheduled
    up,            \* up[u]: what upload u is at, and the pool it submitted to
    job,           \* job[u][v]: resizing variant v of upload u
    put            \* put[u][v]: storing it; "stored" is an object in the bucket

poolVars == <<executor, created, down, shuttingDown, blocked>>

vars == <<server, poolVars, signals, tasks, up, job, put>>

TypeOK ==
    /\ server \in {"serving", "draining", "closing", "ended"}
    /\ executor \in Nat
    /\ created \in Nat
    /\ down \subseteq Nat
    /\ shuttingDown \in BOOLEAN
    /\ blocked \in BOOLEAN
    /\ signals \in Nat
    /\ tasks \in Nat
    /\ up \in [Upload -> [pc : {"new", "resizing", "storing", "answered", "failed", "refused"},
                          on : Nat]]
    /\ job \in [Upload -> [Variant -> {"none", "queued", "running", "done", "bad"}]]
    /\ put \in [Upload -> [Variant -> {"none", "storing", "stored", "failed", "deleted"}]]

Init ==
    /\ server = "serving"
    /\ executor = 0
    /\ created = 0
    /\ down = {}
    /\ shuttingDown = FALSE
    /\ blocked = FALSE
    /\ signals = 0
    /\ tasks = 0
    /\ up = [u \in Upload |-> [pc |-> "new", on |-> 0]]
    /\ job = [u \in Upload |-> [v \in Variant |-> "none"]]
    /\ put = [u \in Upload |-> [v \in Variant |-> "none"]]

-----------------------------------------------------------------------------
\* The event loop can run a coroutine.
LoopRuns == ~blocked /\ server # "ended"

Goto(u, pc) == up' = [up EXCEPT ![u].pc = pc]

AllOf(states, s) == \A v \in Variant : states[v] = s

Pending(u, v) == job[u][v] \in {"queued", "running"}

\* The jobs the threads of pool e are working on.
Running(e) == {j \in Upload \X Variant : up[j[1]].on = e /\ job[j[1]][j[2]] = "running"}

\* Mutant: every upload gets a pool of its own.
GetExecutorFresh == created + 1

\* The pool _get_executor returns: the present one, or a new one.
GetExecutor == IF executor = 0 THEN created + 1 ELSE executor

-----------------------------------------------------------------------------
(***************************************************************************)
(* An upload.  Between _get_executor and the submissions nothing awaits; a *)
(* pool that is shut down refuses the job, and the request fails.          *)
(***************************************************************************)
Submit(u) ==
    /\ LoopRuns
    /\ server \in {"serving", "draining"}
    /\ up[u].pc = "new"
    /\ executor' = GetExecutor
    /\ created' = GetExecutor
    /\ IF GetExecutor \in down
       THEN /\ Goto(u, "refused")
            /\ UNCHANGED job
       ELSE /\ up' = [up EXCEPT ![u] = [pc |-> "resizing", on |-> GetExecutor]]
            /\ job' = [job EXCEPT ![u] = [v \in Variant |-> "queued"]]
    /\ UNCHANGED <<server, down, shuttingDown, blocked, signals, tasks, put>>

\* A thread of the pool takes a job.
StartJob(u, v) ==
    /\ job[u][v] = "queued"
    /\ Cardinality(Running(up[u].on)) < Workers
    /\ job' = [job EXCEPT ![u][v] = "running"]
    /\ UNCHANGED <<server, poolVars, signals, tasks, up, put>>

\* The resizing ends, or raises (the bytes are no image, no memory).
EndJob(u, v) ==
    /\ job[u][v] = "running"
    /\ \E end \in {"done", "bad"} : job' = [job EXCEPT ![u][v] = end]
    /\ UNCHANGED <<server, poolVars, signals, tasks, up, put>>

\* Mutant: the resized variants are stored without the one that failed.
StoreSome(u) ==
    /\ LoopRuns
    /\ up[u].pc = "resizing"
    /\ \A v \in Variant : job[u][v] \in {"done", "bad"}
    /\ Goto(u, "storing")
    /\ put' = [put EXCEPT ![u] = [v \in Variant |-> "storing"]]
    /\ UNCHANGED <<server, poolVars, signals, tasks, job>>

\* All variants are there: they are stored together.
Store(u) ==
    /\ LoopRuns
    /\ up[u].pc = "resizing"
    /\ AllOf(job[u], "done")
    /\ Goto(u, "storing")
    /\ put' = [put EXCEPT ![u] = [v \in Variant |-> "storing"]]
    /\ UNCHANGED <<server, poolVars, signals, tasks, job>>

\* Mutant: the request only ends when every variant failed.
FailResizeAll(u) ==
    /\ LoopRuns
    /\ up[u].pc = "resizing"
    /\ AllOf(job[u], "bad")
    /\ Goto(u, "failed")
    /\ UNCHANGED <<server, poolVars, signals, tasks, job, put>>

\* The variants are awaited in order: the first one that failed ends the request,
\* whose other jobs stay in the pool.
FailResize(u) ==
    /\ LoopRuns
    /\ up[u].pc = "resizing"
    /\ \E v \in Variant : job[u][v] = "bad" /\ \A w \in 1..(v - 1) : job[u][w] = "done"
    /\ Goto(u, "failed")
    /\ UNCHANGED <<server, poolVars, signals, tasks, job, put>>

\* A thread of the default executor ends its call of the storage.
EndPut(u, v) ==
    /\ put[u][v] = "storing"
    /\ \E end \in {"stored", "failed"} : put' = [put EXCEPT ![u][v] = end]
    /\ UNCHANGED <<server, poolVars, signals, tasks, up, job>>

Answer(u) ==
    /\ LoopRuns
    /\ up[u].pc = "storing"
    /\ \A v \in Variant : put[u][v] = "stored"
    /\ Goto(u, "answered")
    /\ UNCHANGED <<server, poolVars, signals, tasks, job, put>>

\* gather raises the first failure; the other calls go on and may still store.
FailStore(u) ==
    /\ LoopRuns
    /\ up[u].pc = "storing"
    /\ \E v \in Variant : put[u][v] = "failed"
    /\ Goto(u, "failed")
    /\ UNCHANGED <<server, poolVars, signals, tasks, job, put>>

\* The client deletes a variant whose URL it was answered; the call of the
\* storage is made on the event loop, without an await.
DeleteImage(u, v) ==
    /\ LoopRuns
    /\ server \in {"serving", "draining"}
    /\ up[u].pc = "answered"
    /\ put[u][v] = "stored"
    /\ put' = [put EXCEPT ![u][v] = "deleted"]
    /\ UNCHANGED <<server, poolVars, signals, tasks, up, job>>

-----------------------------------------------------------------------------
(***************************************************************************)
(* Shutdown.  The first call of shutdown_workers closes the pool, if there *)
(* is one, and holds the event loop until the pool has worked off its      *)
(* queue; later calls return at once.                                      *)
(***************************************************************************)
BeginShutdown ==
    /\ shuttingDown' = TRUE
    /\ IF ~shuttingDown /\ executor # 0
       THEN /\ down' = down \cup {executor}
            /\ blocked' = TRUE
       ELSE UNCHANGED <<down, blocked>>
    /\ UNCHANGED <<executor, created>>

\* Mutant: _executor keeps the pool that was shut down.
EndShutdownBound ==
    /\ blocked
    /\ \A u \in Upload, v \in Variant : up[u].on = executor => ~Pending(u, v)
    /\ blocked' = FALSE
    /\ UNCHANGED <<server, executor, created, down, shuttingDown, signals, tasks, up, job, put>>

\* Mutant: only the running jobs are waited for.
EndShutdownRunning ==
    /\ blocked
    /\ Running(executor) = {}
    /\ blocked' = FALSE
    /\ executor' = 0
    /\ UNCHANGED <<server, created, down, shuttingDown, signals, tasks, up, job, put>>

EndShutdown ==
    /\ blocked
    /\ \A u \in Upload, v \in Variant : up[u].on = executor => ~Pending(u, v)
    /\ blocked' = FALSE
    /\ executor' = 0
    /\ UNCHANGED <<server, created, down, shuttingDown, signals, tasks, up, job, put>>

\* The handler only schedules the shutdown: the server goes on serving, since
\* add_signal_handler has replaced the handler of uvicorn.
Signal ==
    /\ server # "ended"
    /\ signals < MaxSignals
    /\ signals' = signals + 1
    /\ tasks' = tasks + 1
    /\ UNCHANGED <<server, poolVars, up, job, put>>

RunShutdown ==
    /\ LoopRuns
    /\ tasks > 0
    /\ tasks' = tasks - 1
    /\ BeginShutdown
    /\ UNCHANGED <<server, signals, up, job, put>>

\* uvicorn takes no more requests; those it has taken may still come to the pool.
Drain ==
    /\ LoopRuns
    /\ server = "serving"
    /\ server' = "draining"
    /\ UNCHANGED <<poolVars, signals, tasks, up, job, put>>

\* Mutant: the lifespan ends without a call of shutdown_workers.
EndLifespanOnly ==
    /\ LoopRuns
    /\ server = "draining"
    /\ \A u \in Upload : up[u].pc \notin {"resizing", "storing"}
    /\ server' = "closing"
    /\ UNCHANGED <<poolVars, signals, tasks, up, job, put>>

\* The requests it has taken are answered: the lifespan ends with a call of shutdown_workers.
EndLifespan ==
    /\ LoopRuns
    /\ server = "draining"
    /\ \A u \in Upload : up[u].pc \notin {"resizing", "storing"}
    /\ server' = "closing"
    /\ BeginShutdown
    /\ UNCHANGED <<signals, tasks, up, job, put>>

Exit ==
    /\ LoopRuns
    /\ server = "closing"
    /\ server' = "ended"
    /\ UNCHANGED <<poolVars, signals, tasks, up, job, put>>

Serve(u) == Store(u) \/ FailResize(u) \/ Answer(u) \/ FailStore(u)

TakeJob == \E u \in Upload, v \in Variant : StartJob(u, v)

Next ==
    \/ \E u \in Upload : Submit(u) \/ Serve(u)
    \/ \E u \in Upload, v \in Variant : EndJob(u, v) \/ EndPut(u, v) \/ DeleteImage(u, v)
    \/ TakeJob \/ EndShutdown
    \/ Signal \/ RunShutdown \/ Drain \/ EndLifespan \/ Exit

Spec == Init /\ [][Next]_vars

\* The loop resumes a coroutine whose await is over, a thread of a pool takes the
\* next job, and jobs, calls of the storage and the shutdown of a pool end.
Fairness ==
    /\ \A u \in Upload : WF_vars(Serve(u))
    /\ \A u \in Upload, v \in Variant : WF_vars(EndJob(u, v)) /\ WF_vars(EndPut(u, v))
    /\ WF_vars(TakeJob) /\ WF_vars(EndShutdown)

FairSpec == Spec /\ Fairness

-----------------------------------------------------------------------------
\* An upload never meets a pool that is shut down: the loop stands still from
\* the shutdown until _executor is None again.
NeverRefused == \A u \in Upload : up[u].pc # "refused"

\* All pools together never resize more than IMAGE_WORKER_COUNT images at a time,
\* although one may be replaced while its queue is full.
WorkersBounded ==
    Cardinality({j \in Upload \X Variant : job[j[1]][j[2]] = "running"}) <= Workers

\* "wait for pending jobs" (upload_service.py:255): when the loop goes on after the
\* shutdown of a pool, none of the jobs submitted to it is pending.
ShutdownDrains ==
    \A u \in Upload, v \in Variant : up[u].on \in down /\ ~blocked => ~Pending(u, v)

\* The URLs of an answer are those of objects in the bucket, all of them, until the
\* client deletes one; nothing is stored of an image a variant of which failed.
AnsweredIsStored ==
    \A u \in Upload :
        /\ up[u].pc = "answered" => \A v \in Variant : put[u][v] \in {"stored", "deleted"}
        /\ (\E v \in Variant : job[u][v] = "bad") => AllOf(put[u], "none")

\* No upload hangs forever (upload_service.py:103), in whatever order its jobs end
\* or fail and whenever the pool is shut down under it.
UploadsEnd ==
    \A u \in Upload : up[u].pc = "resizing" ~> up[u].pc \in {"answered", "failed"}

\* upload_service.py:255 "Graceful shutdown: wait for pending jobs, cancel workers,
\* shutdown executor": a process that closes leaves a pool behind only if a signal
\* had shut one down before (_shutting_down stays set, the server goes on serving).
PoolLeftOnlyBySignal ==
    server \in {"closing", "ended"} /\ ~blocked /\ executor # 0 => signals > 0

=============================================================================
