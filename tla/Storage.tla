------------------------------- MODULE Storage -------------------------------
(***************************************************************************)
(* The S3 backend of one process.  The threads that store images share the *)
(* singleton get_storage returns: the first callers find none and each     *)
(* builds one, without a lock, and building one looks for the bucket,      *)
(* creates it and gives it its policy, a call at a time.  Calls may fail,  *)
(* take effect without an answer, and the process may be killed; what is   *)
(* in the store outlives it.  A client whose request failed may repeat it. *)
(*                                                                         *)
(* The GCS backend expects its bucket and makes no call before the upload: *)
(* it is the case of a bucket that is public from the start.               *)
(***************************************************************************)
EXTENDS Naturals

CONSTANTS
    Call,        \* calls of upload_file_to_s3 and delete_file_from_s3, with their repetitions
    Uploader,    \* the ones that upload, each its own image
    MaxFaults,   \* bound: calls of the store that fail
    MaxCrashes   \* bound: times the process is killed

ASSUME UploaderAssumption == Uploader \subseteq Call

ASSUME BoundsAssumption == MaxFaults \in Nat /\ MaxCrashes \in Nat

VARIABLES
    bucket,      \* "none", "private" (no policy yet) or "public"
    objects,     \* the uploads with an object in the bucket
    backend,     \* _backend is not None
    at,          \* at[c]: the step call c is at
    cut,         \* history: a creation was cut off before it put the policy
    faults, crashes

bounds == <<faults, crashes>>

storageVars == <<bucket, objects, backend, at, cut, bounds>>

Step == {"new", "head", "create", "policy", "assign", "use", "answered", "failed"}

StorageTypeOK ==
    /\ bucket \in {"none", "private", "public"}
    /\ objects \subseteq Uploader
    /\ backend \in BOOLEAN
    /\ at \in [Call -> Step]
    /\ cut \in BOOLEAN
    /\ faults \in Nat
    /\ crashes \in Nat

StorageInit ==
    /\ bucket \in {"none", "public"}
    /\ objects = {}
    /\ backend = FALSE
    /\ at = [c \in Call |-> "new"]
    /\ cut = FALSE
    /\ faults = 0
    /\ crashes = 0

-----------------------------------------------------------------------------
MoveTo(c, step) == at' = [at EXCEPT ![c] = step]

\* get_storage tests the global and builds a backend when there is none.
GetStorage(c) ==
    /\ at[c] = "new"
    /\ MoveTo(c, IF backend THEN "use" ELSE "head")
    /\ UNCHANGED <<bucket, objects, backend, cut, bounds>>

\* Mutant: the error of head_bucket is swallowed.
HeadSwallowed(c) ==
    /\ at[c] = "head"
    /\ MoveTo(c, "assign")
    /\ UNCHANGED <<bucket, objects, backend, cut, bounds>>

\* Mutant: a bucket without a policy counts as missing.
HeadPublic(c) ==
    /\ at[c] = "head"
    /\ MoveTo(c, IF bucket # "public" THEN "create" ELSE "assign")
    /\ UNCHANGED <<bucket, objects, backend, cut, bounds>>

(***************************************************************************)
(* Building one: _ensure_bucket, one request to the store per action.      *)
(***************************************************************************)
HeadBucket(c) ==
    /\ at[c] = "head"
    /\ MoveTo(c, IF bucket = "none" THEN "create" ELSE "assign")
    /\ UNCHANGED <<bucket, objects, backend, cut, bounds>>

\* Mutant: the bucket gets no policy.
CreateOnly(c) ==
    /\ at[c] = "create"
    /\ bucket = "none"
    /\ bucket' = "private"
    /\ MoveTo(c, "assign")
    /\ UNCHANGED <<objects, backend, cut, bounds>>

CreateBucket(c) ==
    /\ at[c] = "create"
    /\ bucket = "none"
    /\ bucket' = "private"
    /\ MoveTo(c, "policy")
    /\ UNCHANGED <<objects, backend, cut, bounds>>

\* MinIO refuses to create a bucket that exists, and nothing catches that.
RefuseCreate(c) ==
    /\ at[c] = "create"
    /\ bucket # "none"
    /\ MoveTo(c, "failed")
    /\ UNCHANGED <<bucket, objects, backend, cut, bounds>>

\* S3 in us-east-1 answers the owner of the bucket as if it had created it.
CreateAgain(c) ==
    /\ at[c] = "create"
    /\ bucket # "none"
    /\ MoveTo(c, "policy")
    /\ UNCHANGED <<bucket, objects, backend, cut, bounds>>

PutPolicy(c) ==
    /\ at[c] = "policy"
    /\ bucket' = "public"
    /\ MoveTo(c, "assign")
    /\ UNCHANGED <<objects, backend, cut, bounds>>

\* The last one to come here leaves its backend; they are interchangeable.
Assign(c) ==
    /\ at[c] = "assign"
    /\ backend' = TRUE
    /\ MoveTo(c, "use")
    /\ UNCHANGED <<bucket, objects, cut, bounds>>

\* The call itself: put_object answers the URL, delete_object removes any object.
Use(c) ==
    /\ at[c] = "use"
    /\ bucket # "none"
    /\ IF c \in Uploader
       THEN objects' = objects \cup {c}
       ELSE \E u \in Uploader : objects' = objects \ {u}
    /\ MoveTo(c, "answered")
    /\ UNCHANGED <<bucket, backend, cut, bounds>>

\* The client has its error, and asks again.
Repeat(c) ==
    /\ at[c] = "failed"
    /\ MoveTo(c, "new")
    /\ UNCHANGED <<bucket, objects, backend, cut, bounds>>

-----------------------------------------------------------------------------
(***************************************************************************)
(* Faults.  A call of the store raises: without effect, or after it took   *)
(* effect.  An error of head_bucket that is a ClientError (a refusal, an   *)
(* overload) is taken for a missing bucket.                                *)
(***************************************************************************)
OneFault == faults < MaxFaults /\ faults' = faults + 1 /\ UNCHANGED crashes

Fail(c) ==
    /\ at[c] \in {"head", "create", "policy", "use"}
    /\ OneFault
    /\ MoveTo(c, "failed")
    /\ cut' = (cut \/ at[c] = "policy")
    /\ UNCHANGED <<bucket, objects, backend>>

HeadMisled(c) ==
    /\ at[c] = "head"
    /\ OneFault
    /\ MoveTo(c, "create")
    /\ UNCHANGED <<bucket, objects, backend, cut>>

CreateUnanswered(c) ==
    /\ at[c] = "create"
    /\ bucket = "none"
    /\ OneFault
    /\ bucket' = "private"
    /\ cut' = TRUE
    /\ MoveTo(c, "failed")
    /\ UNCHANGED <<objects, backend>>

PutUnanswered(c) ==
    /\ at[c] = "use"
    /\ c \in Uploader
    /\ OneFault
    /\ objects' = objects \cup {c}
    /\ MoveTo(c, "failed")
    /\ UNCHANGED <<bucket, backend, cut>>

\* The process is killed; the next one starts without a backend.
Crash ==
    /\ crashes < MaxCrashes
    /\ crashes' = crashes + 1
    /\ backend' = FALSE
    /\ cut' = (cut \/ \E c \in Call : at[c] = "policy")
    /\ at' = [c \in Call |-> IF at[c] \in {"new", "answered"} THEN at[c] ELSE "failed"]
    /\ UNCHANGED <<bucket, objects, faults>>

-----------------------------------------------------------------------------
Proceed(c) ==
    \/ HeadBucket(c) \/ CreateBucket(c) \/ RefuseCreate(c) \/ CreateAgain(c)
    \/ PutPolicy(c) \/ Assign(c) \/ Use(c)

StorageNext ==
    \/ \E c \in Call : GetStorage(c) \/ Proceed(c) \/ Repeat(c)
    \/ \E c \in Call : Fail(c) \/ HeadMisled(c) \/ CreateUnanswered(c) \/ PutUnanswered(c)
    \/ Crash

StorageSpec == StorageInit /\ [][StorageNext]_storageVars

\* A thread that has begun its call goes on with it; nobody has to begin one, or to
\* repeat it.
StorageFairSpec == StorageSpec /\ \A c \in Call : WF_storageVars(Proceed(c))

-----------------------------------------------------------------------------
\* A backend is only used over a bucket that exists, in whatever order the threads
\* built theirs: a call is never refused for want of a bucket.
UsedHasBucket == (backend \/ \E c \in Call : at[c] \in {"assign", "use"}) => bucket # "none"

\* A bucket without its policy has a thread about to put it, unless that thread was
\* cut off: no interleaving of the threads alone leaves the images unreadable.
PrivateIsPassing == bucket = "private" /\ ~cut => \E c \in Call : at[c] = "policy"

\* The same over time: a bucket that was created becomes public, so that the URLs
\* upload answers can be read, unless its policy was cut off.
BecomesPublic == bucket = "private" ~> bucket = "public" \/ cut

\* A call that is repeated whenever it fails does not fail for ever: a creation lost to
\* another thread, a bucket taken for missing, a creation cut off or not answered and a
\* process that was killed leave nothing behind that fails the later calls.  (One that
\* stays failed or new is one its client has given up, or never made.)
RepeatsSucceed ==
    \A c \in Call : <>[](at[c] = "answered") \/ <>[](at[c] \in {"new", "failed"})

=============================================================================
