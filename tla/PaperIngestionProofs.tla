------------------------ MODULE PaperIngestionProofs ------------------------
(***************************************************************************)
(* What PaperIngestion guarantees for every number of uploads, readers,    *)
(* scripts, workers, answers and attempts, and for all the faults.         *)
(***************************************************************************)
EXTENDS PaperIngestion, TLAPS

-----------------------------------------------------------------------------
(* A job that writes holds the row, so that what it erased is all there is. *)
HolderInv ==
  \A w \in Workers :
    /\ worker[w].pc \in {"parsing", "erased"} => rowLock = w
    /\ worker[w].pc = "erased" => worker[w].erased = chunks

(* A task exists only once its upload is over, and a busy worker works for an *)
(* existing task: one that links readers never works for an ingestion.        *)
Scheduled(u) == upload[u].pc \in {"failing", "accepted", "unscheduled", "refused", "crashed"}

TaskInv ==
  /\ \A u \in Uploads : ~ Scheduled(u) => task[u].state = "none"
  /\ \A w \in Workers : worker[w].pc # "idle" =>
       /\ worker[w].job \in Jobs
       /\ task[worker[w].job].state # "none"
       /\ worker[w].pc = "linking" =>
            worker[w].job \in Uploads /\ task[worker[w].job].job = "canonicalize"

ScriptInv == \A j \in Scripts : task[j].job = "reindex"

PassageInv == OneRunOfChunks /\ AnswerableHasChunks /\ EvidenceExists

IInv == TypeOK /\ HolderInv /\ TaskInv /\ ScriptInv /\ PassageInv /\ QueuedIsOwned

-----------------------------------------------------------------------------
(* Types. *)

(* The initial rows, queue and workers are well typed. *)
LEMMA TypeInit == Init => TypeOK
BY NamesAssumption, BoundsAssumption
   DEF Init, Idle, TypeOK, Upload, UploadLabel, Task, Work, Status, Error, Jobs

(* What a job does to its copy of the row keeps its type. *)
LEMMA WorkMoves ==
  ASSUME TypeOK, NEW w \in Workers
  PROVE  /\ [worker[w] EXCEPT !.pc = "parsing", !.status = "processing"] \in Work
         /\ [worker[w] EXCEPT !.pc = "erased", !.erased = chunks] \in Work
<1>1. worker[w] \in Work /\ chunks \in SUBSET Nat
  BY DEF TypeOK
<1>2. [worker[w] EXCEPT !.pc = "parsing", !.status = "processing"] \in Work
  BY <1>1 DEF Work
<1>3. [worker[w] EXCEPT !.pc = "erased", !.erased = chunks] \in Work
  BY <1>1 DEF Work
<1> QED BY <1>2, <1>3

(* A job that ends leaves an idle worker and a free or foreign lock. *)
LEMMA CloseType ==
  ASSUME TypeOK, NEW w \in Workers, Close(w)
  PROVE  worker' \in [Workers -> Work] /\ rowLock' \in Workers \cup {None}
<1>1. Idle \in Work
  BY DEF Idle, Work, Status, Error
<1> QED BY <1>1 DEF Close, TypeOK

(* A new task has its type. *)
LEMMA EnqueueType ==
  ASSUME TypeOK, NEW u \in Uploads, Enqueue(u)
  PROVE  task' \in [Jobs -> Task]
<1>1. [job |-> JobOf(u), state |-> "pending", tries |-> 0] \in Task
  BY BoundsAssumption DEF JobOf, Task
<1> QED BY <1>1 DEF Enqueue, TypeOK, Jobs

(* A response keeps the type of the task it is about. *)
LEMMA RespondType ==
  ASSUME TypeOK, NEW w \in Workers, worker[w].job \in Jobs,
         NEW retry \in BOOLEAN, Respond(w, retry)
  PROVE  task' \in [Jobs -> Task]
<1>1. PICK j \in Jobs : j = worker[w].job
  OBVIOUS
<1>2. task[j] \in Task
  BY DEF TypeOK
<1> DEFINE kept == retry /\ j \in Uploads /\ task[j].tries < MaxAttempts
           next == IF task[j].state # "pending" \/ kept THEN task[j].state
                   ELSE IF retry THEN "dropped" ELSE "gone"
<1>3. task' = [task EXCEPT ![j].state = next]
  BY <1>1 DEF Respond
<1>4. next \in {"none", "pending", "dropped", "gone"}
  BY <1>2 DEF Task
<1>5. [task[j] EXCEPT !.state = next] \in Task
  <2> HIDE DEF next
  <2> QED BY <1>2, <1>4 DEF Task
<1> HIDE DEF next
<1> QED BY <1>3, <1>5 DEF TypeOK

(* A step of an upload keeps the types. *)
LEMMA TypeUpload ==
  ASSUME TypeOK, NEW u \in Uploads, Look(u) \/ UploadStep(u) \/ Crash(u)
  PROVE  TypeOK'
<1>1. CASE Look(u)
  <2>1. upload' \in [Uploads -> Upload]
    BY <1>1 DEF Look, TypeOK, UploadGoto, Upload, UploadLabel, Status, Error, Readers
  <2> QED
    BY <1>1, <2>1 DEF Look, TypeOK, workVars
<1>2. CASE Refuse(u)
  <2>1. upload' \in [Uploads -> Upload]
    BY <1>2 DEF Refuse, TypeOK, UploadGoto, Upload, UploadLabel
  <2> QED
    BY <1>2, <2>1 DEF Refuse, TypeOK, workVars
<1>3. CASE CommitNew(u)
  <2>1. paper' \in [status : Status, error : Error, analysed : Nat]
    BY <1>3 DEF CommitNew, TypeOK, Status, Error
  <2>2. grant' \in [Readers -> {"none", "active", "revoked"}]
    BY <1>3 DEF CommitNew, TypeOK, Granted, Readers
  <2>3. upload' \in [Uploads -> Upload]
    BY <1>3 DEF CommitNew, TypeOK, UploadGoto, Upload, UploadLabel
  <2> QED
    BY <1>3, <2>1, <2>2, <2>3 DEF CommitNew, TypeOK, workVars
<1>4. CASE Requeue(u)
  <2>1. paper' \in [status : Status, error : Error, analysed : Nat]
    BY <1>4 DEF Requeue, TypeOK, Status, Error
  <2>2. grant' \in [Readers -> {"none", "active", "revoked"}]
    BY <1>4 DEF Requeue, TypeOK, Granted, Readers
  <2>3. upload' \in [Uploads -> Upload]
    BY <1>4 DEF Requeue, TypeOK, UploadGoto, Upload, UploadLabel
  <2> QED
    BY <1>4, <2>1, <2>2, <2>3 DEF Requeue, TypeOK, workVars
<1>5. CASE Share(u)
  <2>1. grant' \in [Readers -> {"none", "active", "revoked"}]
    BY <1>5 DEF Share, TypeOK, Granted, Readers
  <2>2. upload' \in [Uploads -> Upload]
    BY <1>5 DEF Share, TypeOK, UploadGoto, Upload, UploadLabel
  <2> QED
    BY <1>5, <2>1, <2>2 DEF Share, TypeOK, workVars
<1>6. CASE Dispatch(u)
  <2>1. task' \in [Jobs -> Task]
    BY <1>6, EnqueueType DEF Dispatch
  <2>2. upload' \in [Uploads -> Upload]
    BY <1>6 DEF Dispatch, TypeOK, UploadGoto, Upload, UploadLabel
  <2> QED
    BY <1>6, <2>1, <2>2 DEF Dispatch, TypeOK, workVars
<1>7. CASE DispatchError(u)
  <2>1. task' \in [Jobs -> Task]
    BY <1>7, EnqueueType DEF DispatchError, TypeOK
  <2>2. upload' \in [Uploads -> Upload]
    BY <1>7 DEF DispatchError, TypeOK, UploadGoto, Upload, UploadLabel
  <2> QED
    BY <1>7, <2>1, <2>2 DEF DispatchError, TypeOK, workVars
<1>8. CASE MarkFailed(u)
  <2>1. paper' \in [status : Status, error : Error, analysed : Nat]
    BY <1>8 DEF MarkFailed, TypeOK, Status, Error
  <2>2. upload' \in [Uploads -> Upload]
    BY <1>8 DEF MarkFailed, TypeOK, UploadGoto, Upload, UploadLabel
  <2> QED
    BY <1>8, <2>1, <2>2 DEF MarkFailed, TypeOK, workVars
<1>9. CASE Crash(u)
  <2>1. upload' \in [Uploads -> Upload]
    BY <1>9 DEF Crash, TypeOK, UploadGoto, Upload, UploadLabel
  <2> QED
    BY <1>9, <2>1 DEF Crash, TypeOK, workVars
<1> QED BY <1>1, <1>2, <1>3, <1>4, <1>5, <1>6, <1>7, <1>8, <1>9 DEF UploadStep

(* A step of a job keeps the types: only a reader's upload links a reader. *)
LEMMA TypeJob ==
  ASSUME TypeOK, TaskInv, NEW w \in Workers, JobStep(w)
  PROVE  TypeOK'
<1>b. /\ worker[w].pc # "idle" => worker[w].job \in Jobs
      /\ worker[w].pc = "linking" => worker[w].job \in Uploads
  BY DEF TaskInv
<1>1. CASE Lock(w)
  <2>1. worker' \in [Workers -> Work]
    BY <1>1, WorkMoves DEF Lock, TypeOK
  <2> QED
    BY <1>1, <2>1 DEF Lock, TypeOK, requestVars
<1>2. CASE Erase(w)
  <2>1. worker' \in [Workers -> Work]
    BY <1>2, WorkMoves DEF Erase, TypeOK
  <2> QED
    BY <1>2, <2>1 DEF Erase, TypeOK, requestVars
<1>3. CASE Finish(w)
  <2>1. paper' \in [status : Status, error : Error, analysed : Nat]
    BY <1>3 DEF Finish, TypeOK, Status, Error, Work
  <2>2. chunks' \subseteq Nat
    <3>1. chunks' = (chunks \ worker[w].erased) \cup {runs + 1}
      BY <1>3 DEF Finish
    <3>2. chunks \subseteq Nat /\ runs + 1 \in Nat
      BY DEF TypeOK
    <3> QED BY <3>1, <3>2
  <2>3. linked' \subseteq Readers
    BY <1>3 DEF Finish, TypeOK, Readers, Work
  <2>4. task' \in [Jobs -> Task]
    BY <1>3, <1>b, RespondType DEF Finish
  <2>5. worker' \in [Workers -> Work] /\ rowLock' \in Workers \cup {None}
    BY <1>3, CloseType DEF Finish
  <2>6. runs' \in Nat
    BY <1>3 DEF Finish, TypeOK
  <2>7. answer' \in [Answers -> [state : {"none", "retrieved", "cited", "bare", "failed"},
                                 run : Nat]]
    BY <1>3 DEF Finish, TypeOK, Cascade
  <2> QED
    BY <1>3, <2>1, <2>2, <2>3, <2>4, <2>5, <2>6, <2>7 DEF Finish, TypeOK, requestVars
<1>4. CASE FailPermanently(w)
  <2>1. paper' \in [status : Status, error : Error, analysed : Nat]
    BY <1>4 DEF FailPermanently, TypeOK, Status, Error
  <2>2. task' \in [Jobs -> Task]
    BY <1>4, <1>b, RespondType DEF FailPermanently
  <2>3. worker' \in [Workers -> Work] /\ rowLock' \in Workers \cup {None}
    BY <1>4, CloseType DEF FailPermanently
  <2>4. answer' \in [Answers -> [state : {"none", "retrieved", "cited", "bare", "failed"},
                                 run : Nat]]
    BY <1>4 DEF FailPermanently, TypeOK, Cascade
  <2> QED
    BY <1>4, <2>1, <2>2, <2>3, <2>4 DEF FailPermanently, TypeOK, requestVars
<1>5. CASE GiveUp(w)
  <2>1. task' \in [Jobs -> Task]
    BY <1>5, <1>b, RespondType DEF GiveUp
  <2>2. worker' \in [Workers -> Work] /\ rowLock' \in Workers \cup {None}
    BY <1>5, CloseType DEF GiveUp
  <2> QED
    BY <1>5, <2>1, <2>2 DEF GiveUp, TypeOK, requestVars
<1>6. CASE Canonicalize(w)
  <2>1. linked' \subseteq Readers
    BY <1>6, <1>b DEF Canonicalize, TypeOK, Readers
  <2>2. task' \in [Jobs -> Task]
    BY <1>6, <1>b, RespondType DEF Canonicalize
  <2>3. worker' \in [Workers -> Work] /\ rowLock' \in Workers \cup {None}
    BY <1>6, CloseType DEF Canonicalize
  <2> QED
    BY <1>6, <2>1, <2>2, <2>3 DEF Canonicalize, TypeOK, requestVars
<1> QED BY <1>1, <1>2, <1>3, <1>4, <1>5, <1>6 DEF JobStep

(* A delivery gives an idle worker a copy of the committed row. *)
LEMMA TypeDeliver ==
  ASSUME TypeOK, NEW w \in Workers, NEW j \in Jobs, Deliver(w, j)
  PROVE  TypeOK'
<1>1. [pc |-> IF task[j].job = "canonicalize" THEN "linking" ELSE "loaded",
       job |-> j, status |-> paper.status, error |-> paper.error,
       analysed |-> paper.analysed, erased |-> {}] \in Work
  BY DEF TypeOK, Work
<1>2. task[j] \in Task /\ task[j].tries + 1 \in 0 .. MaxAttempts
  BY BoundsAssumption DEF Deliver, TypeOK, Task
<1>3. [task[j] EXCEPT !.tries = task[j].tries + 1] \in Task
  BY <1>2 DEF Task
<1> QED BY <1>1, <1>3 DEF Deliver, TypeOK, requestVars

(* Every step keeps the types. *)
LEMMA TypeInvariance == TypeOK /\ TaskInv /\ [Next]_vars => TypeOK'
<1> SUFFICES ASSUME TypeOK, TaskInv, [Next]_vars PROVE TypeOK'
  OBVIOUS
<1>1. CASE \E u \in Uploads : Look(u) \/ UploadStep(u) \/ Crash(u)
  BY <1>1, TypeUpload
<1>2. CASE \E r \in Readers : RemovePaper(r)
  BY <1>2 DEF RemovePaper, TypeOK, workVars
<1>3. CASE \E w \in Workers, j \in Jobs : Deliver(w, j)
  BY <1>3, TypeDeliver
<1>4. CASE \E w \in Workers : JobStep(w)
  BY <1>4, TypeJob
<1>5. CASE \E a \in Answers : Retrieve(a)
  BY <1>5 DEF Retrieve, TypeOK, requestVars, workVars
<1>6. CASE \E a \in Answers : Persist(a)
  BY <1>6 DEF Persist, TypeOK, requestVars, workVars
<1>7. CASE UNCHANGED vars
  BY <1>7 DEF vars, TypeOK
<1> QED BY <1>1, <1>2, <1>3, <1>4, <1>5, <1>6, <1>7 DEF Next, Push

-----------------------------------------------------------------------------
(* What a step leaves alone. *)

(* A request touches neither passages nor jobs. *)
LEMMA UploadFrame ==
  ASSUME NEW u \in Uploads, Look(u) \/ UploadStep(u) \/ Crash(u)
  PROVE  UNCHANGED <<chunks, linked, worker, rowLock, runs, answer>>
BY DEF Look, UploadStep, Refuse, CommitNew, Requeue, Share, Dispatch, DispatchError,
       MarkFailed, Crash, workVars

(* A reader who removes the paper touches the grant only, an answer itself only. *)
LEMMA ReaderFrame ==
  ASSUME (\E r \in Readers : RemovePaper(r)) \/ (\E a \in Answers : Retrieve(a) \/ Persist(a))
  PROVE  UNCHANGED <<paper, chunks, linked, upload, task, worker, rowLock, runs>>
BY DEF RemovePaper, Retrieve, Persist, requestVars, workVars

(* A job touches no request. *)
LEMMA JobFrame ==
  ASSUME NEW w \in Workers, JobStep(w)
  PROVE  UNCHANGED <<upload, grant>>
BY DEF JobStep, Lock, Erase, Finish, FailPermanently, GiveUp, Canonicalize, requestVars

-----------------------------------------------------------------------------
(* The row lock. *)

(* A job that holds the row keeps it until it ends, and no other job erases or *)
(* writes passages meanwhile.                                                  *)
LEMMA HolderInvariance == TypeOK /\ HolderInv /\ [Next]_vars => HolderInv'
<1> SUFFICES ASSUME TypeOK, HolderInv, [Next]_vars PROVE HolderInv'
  OBVIOUS
<1> USE NamesAssumption
<1>1. CASE UNCHANGED <<worker, rowLock, chunks>>
  BY <1>1 DEF HolderInv
<1>2. ASSUME NEW w \in Workers, NEW j \in Jobs, Deliver(w, j)
      PROVE  HolderInv'
  BY <1>2 DEF Deliver, HolderInv, TypeOK
<1>3. ASSUME NEW w \in Workers, Lock(w)
      PROVE  HolderInv'
  <2>1. /\ rowLock = None /\ rowLock' = w /\ chunks' = chunks
        /\ worker' = [worker EXCEPT ![w] =
             [worker[w] EXCEPT !.pc = "parsing", !.status = "processing"]]
    BY <1>3 DEF Lock
  <2>2. worker'[w].pc = "parsing"
    BY <2>1 DEF TypeOK, Work
  <2>3. \A v \in Workers : v # w => worker'[v] = worker[v]
    BY <2>1 DEF TypeOK
  <2> QED BY <2>1, <2>2, <2>3 DEF HolderInv
<1>4. ASSUME NEW w \in Workers, Erase(w)
      PROVE  HolderInv'
  <2>1. /\ worker[w].pc = "parsing" /\ UNCHANGED <<rowLock, chunks>>
        /\ worker' = [worker EXCEPT ![w] =
             [worker[w] EXCEPT !.pc = "erased", !.erased = chunks]]
    BY <1>4 DEF Erase
  <2>2. worker'[w].pc = "erased" /\ worker'[w].erased = chunks
    BY <2>1 DEF TypeOK, Work
  <2>3. \A v \in Workers : v # w => worker'[v] = worker[v]
    BY <2>1 DEF TypeOK
  <2> QED BY <2>1, <2>2, <2>3 DEF HolderInv
<1>5. ASSUME NEW w \in Workers, Close(w),
             chunks' = chunks \/ worker[w].pc \in {"parsing", "erased"}
      PROVE  HolderInv'
  <2>1. worker'[w].pc = "idle" /\ \A v \in Workers : v # w => worker'[v] = worker[v]
    BY <1>5 DEF Close, Idle, TypeOK
  <2>2. \A v \in Workers : v # w /\ worker[v].pc \in {"parsing", "erased"} =>
           rowLock = v /\ rowLock' = v /\ chunks' = chunks
    BY <1>5 DEF Close, HolderInv
  <2> QED BY <2>1, <2>2 DEF HolderInv
<1>6. ASSUME NEW w \in Workers, JobStep(w)
      PROVE  HolderInv'
  <2>1. CASE Finish(w)
    BY <2>1, <1>5 DEF Finish
  <2>2. CASE FailPermanently(w)
    BY <2>2, <1>5 DEF FailPermanently
  <2>3. CASE GiveUp(w) \/ Canonicalize(w)
    BY <2>3, <1>5 DEF GiveUp, Canonicalize
  <2> QED BY <1>3, <1>4, <1>6, <2>1, <2>2, <2>3 DEF JobStep
<1> QED BY <1>1, <1>2, <1>6, UploadFrame, ReaderFrame DEF Next, Push, vars

-----------------------------------------------------------------------------
(* Tasks. *)

(* A response changes the state of one existing task: it stays pending only  *)
(* if the job asked for a retry, and is dropped only then.                   *)
LEMMA RespondFrame ==
  ASSUME TypeOK, NEW w \in Workers, NEW j \in Jobs, j = worker[w].job,
         NEW retry \in BOOLEAN, Respond(w, retry)
  PROVE  /\ \A k \in Jobs : task'[k].job = task[k].job
         /\ \A k \in Jobs : k # j => task'[k] = task[k]
         /\ task[j].state # "pending" => task'[j].state = task[j].state
         /\ task[j].state = "pending" =>
              task'[j].state \in (IF retry THEN {"pending", "dropped"} ELSE {"gone"})
<1> DEFINE kept == retry /\ j \in Uploads /\ task[j].tries < MaxAttempts
           next == IF task[j].state # "pending" \/ kept THEN task[j].state
                   ELSE IF retry THEN "dropped" ELSE "gone"
<1>1. task' = [task EXCEPT ![j].state = next]
  BY DEF Respond
<1>2. /\ task[j].state # "pending" => next = task[j].state
      /\ task[j].state = "pending" =>
           next \in (IF retry THEN {"pending", "dropped"} ELSE {"gone"})
  OBVIOUS
<1> HIDE DEF next
<1>3. /\ task'[j].state = next /\ task'[j].job = task[j].job
      /\ \A k \in Jobs : k # j => task'[k] = task[k]
  BY <1>1 DEF TypeOK, Task
<1> QED BY <1>2, <1>3

(* A new task changes one task that did not exist. *)
LEMMA EnqueueFrame ==
  ASSUME TypeOK, NEW u \in Uploads, Enqueue(u)
  PROVE  /\ task'[u] = [job |-> JobOf(u), state |-> "pending", tries |-> 0]
         /\ \A k \in Jobs : k # u => task'[k] = task[k]
BY DEF Enqueue, TypeOK, Jobs

(* A delivery counts an attempt of a task that was on the queue. *)
LEMMA DeliverFrame ==
  ASSUME TypeOK, NEW w \in Workers, NEW j \in Jobs, Deliver(w, j)
  PROVE  /\ task[j].state # "none"
         /\ \A k \in Jobs : task'[k].job = task[k].job /\ task'[k].state = task[k].state
         /\ worker'[w].job = j
         /\ worker'[w].pc = IF task[j].job = "canonicalize" THEN "linking" ELSE "loaded"
         /\ \A v \in Workers : v # w => worker'[v] = worker[v]
<1>1. task[j].state # "none"
  BY DEF Deliver
<1>2. task' = [task EXCEPT ![j].tries = task[j].tries + 1]
  BY DEF Deliver
<1>3. \A k \in Jobs : task'[k].job = task[k].job /\ task'[k].state = task[k].state
  BY <1>2 DEF TypeOK, Task
<1>4. /\ worker'[w].job = j
      /\ worker'[w].pc = IF task[j].job = "canonicalize" THEN "linking" ELSE "loaded"
      /\ \A v \in Workers : v # w => worker'[v] = worker[v]
  BY DEF Deliver, TypeOK
<1> QED BY <1>1, <1>3, <1>4

(* A job that goes on keeps its task; one that ends frees its worker. *)
LEMMA WorkerFrame ==
  ASSUME TypeOK, NEW w \in Workers, JobStep(w)
  PROVE  /\ \A v \in Workers : v # w => worker'[v] = worker[v]
         /\ \/ Lock(w) /\ worker'[w].pc = "parsing" /\ worker'[w].job = worker[w].job
            \/ Erase(w) /\ worker'[w].pc = "erased" /\ worker'[w].job = worker[w].job
            \/ (\E retry \in BOOLEAN : Respond(w, retry)) /\ worker'[w].pc = "idle"
<1>1. worker[w] \in Work /\ DOMAIN worker = Workers
  BY DEF TypeOK
<1>2. CASE Lock(w)
  BY <1>1, <1>2 DEF Lock, Work
<1>3. CASE Erase(w)
  BY <1>1, <1>3 DEF Erase, Work
<1>4. ASSUME Close(w)
      PROVE  worker'[w].pc = "idle" /\ \A v \in Workers : v # w => worker'[v] = worker[v]
  BY <1>4 DEF Close, Idle, TypeOK
<1>5. CASE Finish(w) \/ FailPermanently(w) \/ GiveUp(w) \/ Canonicalize(w)
  <2>1. Close(w) /\ \E retry \in BOOLEAN : Respond(w, retry)
    BY <1>5 DEF Finish, FailPermanently, GiveUp, Canonicalize
  <2> QED BY <1>4, <2>1
<1> QED BY <1>2, <1>3, <1>5 DEF JobStep

(* Where each step takes an upload, and what it does to the queue. *)
LEMMA UploadMoves ==
  ASSUME TypeOK, NEW u \in Uploads, Look(u) \/ UploadStep(u) \/ Crash(u)
  PROVE  /\ \A v \in Uploads : v # u => upload'[v] = upload[v]
         /\ \/ /\ upload[u].pc \in {"idle", "new", "retrying", "sharing"}
               /\ task' = task
            \/ /\ upload[u].pc \in {"dispatching", "canonicalizing"}
               /\ upload'[u].pc \in {"accepted", "failing", "unscheduled"}
               /\ \/ task' = task /\ (upload[u].pc = "dispatching" => upload'[u].pc = "failing")
                  \/ Enqueue(u)
            \/ /\ upload[u].pc = "failing"
               /\ upload'[u].pc = "refused" /\ paper'.status = "failed"
               /\ task' = task
            \/ /\ upload'[u].pc = "crashed"
               /\ task' = task
<1>1. /\ upload[u] \in Upload /\ DOMAIN upload = Uploads
      /\ DOMAIN paper = {"status", "error", "analysed"}
  BY DEF TypeOK
<1>2. ASSUME NEW l, UploadGoto(u, l)
      PROVE  upload'[u].pc = l /\ \A v \in Uploads : v # u => upload'[v] = upload[v]
  BY <1>1, <1>2 DEF UploadGoto, Upload
<1>3. CASE Look(u)
  BY <1>1, <1>3 DEF Look
<1>4. CASE Refuse(u)
  BY <1>2, <1>4 DEF Refuse, Conflict
<1>5. CASE CommitNew(u) \/ Requeue(u) \/ Share(u)
  BY <1>2, <1>5 DEF CommitNew, Requeue, Share
<1>6. CASE Dispatch(u)
  BY <1>2, <1>6, EnqueueFrame DEF Dispatch, TypeOK
<1>7. CASE DispatchError(u)
  BY <1>2, <1>7 DEF DispatchError, JobOf
<1>8. CASE MarkFailed(u)
  BY <1>1, <1>2, <1>8 DEF MarkFailed
<1>9. CASE Crash(u)
  BY <1>2, <1>9 DEF Crash
<1> QED BY <1>3, <1>4, <1>5, <1>6, <1>7, <1>8, <1>9 DEF UploadStep

(* An upload is done with its task once it has one; a busy worker's task does *)
(* not go away, and a worker that links readers works for an upload.          *)
LEMMA TaskInvariance ==
  TypeOK /\ TaskInv /\ ScriptInv /\ [Next]_vars => TaskInv' /\ ScriptInv'
<1> SUFFICES ASSUME TypeOK, TaskInv, ScriptInv, [Next]_vars
             PROVE  TaskInv' /\ ScriptInv'
  OBVIOUS
<1>1. CASE UNCHANGED <<upload, task, worker>>
  BY <1>1 DEF TaskInv, ScriptInv, Scheduled
<1>2. ASSUME NEW u \in Uploads, Look(u) \/ UploadStep(u) \/ Crash(u)
      PROVE  TaskInv' /\ ScriptInv'
  <2>1. worker' = worker
    BY <1>2, UploadFrame
  <2>2. Scheduled(u) => Scheduled(u)'
    BY <1>2, UploadMoves DEF Scheduled
  <2>3. \/ task' = task
        \/ Enqueue(u) /\ ~ Scheduled(u) /\ Scheduled(u)'
    BY <1>2, UploadMoves DEF Scheduled
  <2>6. \A v \in Uploads : v # u => upload'[v] = upload[v]
    BY <1>2, UploadMoves
  <2>4. CASE task' = task
    BY <2>1, <2>2, <2>4, <2>6 DEF TaskInv, ScriptInv, Scheduled
  <2>5. CASE Enqueue(u) /\ ~ Scheduled(u) /\ Scheduled(u)'
    <3>1. \A k \in Jobs : k # u => task'[k] = task[k]
      BY <2>5, EnqueueFrame
    <3>2. \A w \in Workers : worker[w].pc # "idle" => worker[w].job \in Jobs /\ worker[w].job # u
      BY <2>5 DEF TaskInv
    <3> QED BY <2>1, <2>2, <2>5, <2>6, <3>1, <3>2, NamesAssumption DEF TaskInv, ScriptInv, Scheduled, Jobs
  <2> QED BY <2>3, <2>4, <2>5
<1>3. ASSUME NEW w \in Workers, NEW j \in Jobs, Deliver(w, j)
      PROVE  TaskInv' /\ ScriptInv'
  <2>1. upload' = upload
    BY <1>3 DEF Deliver, requestVars
  <2>2. j \in Scripts => task[j].job # "canonicalize"
    BY DEF ScriptInv
  <2> QED BY <1>3, <2>1, <2>2, DeliverFrame DEF TaskInv, ScriptInv, Scheduled, Jobs
<1>4. ASSUME NEW w \in Workers, JobStep(w)
      PROVE  TaskInv' /\ ScriptInv'
  <2>1. upload' = upload
    BY <1>4, JobFrame
  <2>2. worker[w].pc # "idle" /\ worker[w].job \in Jobs
    BY <1>4 DEF JobStep, Lock, Erase, Finish, FailPermanently, GiveUp, Canonicalize, TaskInv
  <2>3. CASE task' = task /\ worker'[w].pc \in {"parsing", "erased"} /\ worker'[w].job = worker[w].job
    BY <1>4, <2>1, <2>2, <2>3, WorkerFrame DEF TaskInv, ScriptInv, Scheduled
  <2>4. ASSUME NEW retry \in BOOLEAN, Respond(w, retry), worker'[w].pc = "idle"
        PROVE  TaskInv' /\ ScriptInv'
    <3>1. \A k \in Jobs : /\ task'[k].job = task[k].job
                          /\ task'[k].state = "none" <=> task[k].state = "none"
      BY <2>2, <2>4, RespondFrame
    <3>2. \A v \in Workers : v # w => worker'[v] = worker[v]
      BY <1>4, WorkerFrame
    <3> QED BY <2>1, <2>4, <3>1, <3>2 DEF TaskInv, ScriptInv, Scheduled, Jobs
  <2> QED BY <1>4, <2>3, <2>4, WorkerFrame DEF Lock, Erase
<1> QED BY <1>1, <1>2, <1>3, <1>4, ReaderFrame DEF Next, Push, vars

-----------------------------------------------------------------------------
(* Passages. *)

(* A run that ends leaves its passages alone, a run that fails none: what it  *)
(* erased, under the row lock, was all there was.                            *)
LEMMA PassageInvariance ==
  TypeOK /\ HolderInv /\ PassageInv /\ [Next]_vars => PassageInv'
<1> SUFFICES ASSUME TypeOK, HolderInv, PassageInv, [Next]_vars
             PROVE  PassageInv'
  OBVIOUS
<1> USE DEF PassageInv, OneRunOfChunks, AnswerableHasChunks, EvidenceExists
<1>1. CASE UNCHANGED <<paper, chunks, answer>>
  BY <1>1
<1>2. ASSUME NEW u \in Uploads, Look(u) \/ UploadStep(u) \/ Crash(u)
      PROVE  PassageInv'
  <2>1. UNCHANGED <<chunks, answer>>
    BY <1>2, UploadFrame
  <2>2. paper'.status = "ready" => paper.status = "ready"
    <3>1. DOMAIN paper = {"status", "error", "analysed"}
      BY DEF TypeOK
    <3> QED BY <1>2, <3>1 DEF Look, UploadStep, Refuse, CommitNew, Requeue, Share, Dispatch,
                            DispatchError, MarkFailed, Crash
  <2> QED BY <2>1, <2>2
<1>3. ASSUME NEW a \in Answers, Retrieve(a) \/ Persist(a)
      PROVE  PassageInv'
  <2>1. UNCHANGED <<paper, chunks>>
    BY <1>3, ReaderFrame
  <2>2. /\ answer'[a].state = "cited" => answer'[a].run \in chunks
        /\ \A b \in Answers : b # a => answer'[b] = answer[b]
    BY <1>3 DEF Retrieve, Persist, TypeOK
  <2> QED BY <2>1, <2>2
<1>4. ASSUME NEW w \in Workers, Finish(w)
      PROVE  PassageInv'
  <2>1. paper'.status = "ready" /\ chunks' = (chunks \ worker[w].erased) \cup {runs + 1}
    BY <1>4 DEF Finish
  <2>2. worker[w].erased = chunks
    BY <1>4 DEF Finish, HolderInv
  <2>3. \A a \in Answers : answer'[a].state = "cited" =>
          answer'[a] = answer[a] /\ answer[a].run \notin worker[w].erased
    BY <1>4 DEF Finish, Cascade, TypeOK
  <2> QED BY <2>1, <2>2, <2>3
<1>5. ASSUME NEW w \in Workers, FailPermanently(w)
      PROVE  PassageInv'
  <2>1. paper'.status = "failed" /\ chunks' = chunks \ worker[w].erased
    BY <1>5 DEF FailPermanently, TypeOK
  <2>2. \A a \in Answers : answer'[a].state = "cited" =>
          answer'[a] = answer[a] /\ answer[a].run \notin worker[w].erased
    BY <1>5 DEF FailPermanently, Cascade, TypeOK
  <2> QED BY <2>1, <2>2
<1>6. ASSUME NEW w \in Workers, Lock(w) \/ Erase(w) \/ GiveUp(w) \/ Canonicalize(w)
      PROVE  UNCHANGED <<paper, chunks, answer>>
  BY <1>6 DEF Lock, Erase, GiveUp, Canonicalize
<1>7. ASSUME (\E r \in Readers : RemovePaper(r)) \/ (\E w \in Workers, j \in Jobs : Deliver(w, j))
      PROVE  UNCHANGED <<paper, chunks, answer>>
  BY <1>7 DEF RemovePaper, Deliver
<1> QED BY <1>1, <1>2, <1>3, <1>4, <1>5, <1>6, <1>7 DEF Next, Push, JobStep, vars

-----------------------------------------------------------------------------
(* A queued paper has an owner. *)

(* The upload or the task that has a queued paper to move either keeps it,    *)
(* hands it on, or takes the paper out of `queued`.                           *)
LEMMA QueueInvariance ==
  TypeOK /\ TaskInv /\ QueuedIsOwned /\ [Next]_vars => QueuedIsOwned'
<1> SUFFICES ASSUME TypeOK, TaskInv, QueuedIsOwned, [Next]_vars, paper'.status = "queued"
             PROVE  \E u \in Uploads : Responsible(u)' \/ Lost(u)'
  BY DEF QueuedIsOwned
<1> USE DEF Responsible, Lost
<1>1. ASSUME paper' = paper
      PROVE  \E u \in Uploads : Responsible(u) \/ Lost(u)
  BY <1>1 DEF QueuedIsOwned
<1>2. CASE UNCHANGED <<paper, upload, task>>
  BY <1>1, <1>2
<1>3. ASSUME NEW u \in Uploads, Look(u) \/ UploadStep(u) \/ Crash(u)
      PROVE  \E v \in Uploads : Responsible(v)' \/ Lost(v)'
  <2>1. CASE CommitNew(u) \/ Requeue(u)
    <3>1. upload'[u].pc = "dispatching"
      BY <2>1 DEF CommitNew, Requeue, UploadGoto, TypeOK, Upload
    <3> QED BY <3>1
  <2>2. CASE paper' = paper
    <3>1. PICK v \in Uploads : Responsible(v) \/ Lost(v)
      BY <1>1, <2>2
    <3>2. CASE v # u
      <4>1. upload'[v] = upload[v]
        BY <1>3, <3>2, UploadMoves
      <4>2. task'[v] = task[v]
        BY <1>3, <3>2, UploadMoves, EnqueueFrame DEF Jobs
      <4> QED BY <3>1, <4>1, <4>2
    <3>3. CASE v = u
      <4>1. ~ Scheduled(u) => task[u].state = "none"
        BY DEF TaskInv
      <4>2. ASSUME upload[u].pc = "dispatching", Enqueue(u)
            PROVE  task'[u].job = "ingest" /\ task'[u].state = "pending"
        <5>1. task'[u] = [job |-> JobOf(u), state |-> "pending", tries |-> 0]
          BY <4>2, EnqueueFrame
        <5>2. JobOf(u) = "ingest"
          BY <4>2 DEF JobOf
        <5> QED BY <5>1, <5>2
      <4> QED BY <1>3, <3>1, <3>3, <4>1, <4>2, UploadMoves DEF Scheduled
    <3> QED BY <3>2, <3>3
  <2>3. CASE MarkFailed(u)
    BY <2>3 DEF MarkFailed, TypeOK
  <2> QED BY <1>3, <2>1, <2>2, <2>3
          DEF Look, UploadStep, Refuse, Share, Dispatch, DispatchError, Crash
<1>4. ASSUME NEW w \in Workers, NEW j \in Jobs, Deliver(w, j)
      PROVE  \E v \in Uploads : Responsible(v)' \/ Lost(v)'
  <2>1. UNCHANGED <<paper, upload>>
    BY <1>4 DEF Deliver, requestVars
  <2>2. \A v \in Uploads : task'[v].job = task[v].job /\ task'[v].state = task[v].state
    BY <1>4, DeliverFrame DEF Jobs
  <2> QED BY <1>1, <2>1, <2>2
<1>5. ASSUME NEW w \in Workers, JobStep(w)
      PROVE  \E v \in Uploads : Responsible(v)' \/ Lost(v)'
  <2>1. upload' = upload
    BY <1>5, JobFrame
  <2>2. CASE Lock(w) \/ Erase(w)
    BY <1>1, <2>1, <2>2 DEF Lock, Erase
  <2>3. CASE Finish(w) \/ FailPermanently(w)
    <3>1. DOMAIN paper = {"status", "error", "analysed"}
      BY DEF TypeOK
    <3>2. Finish(w) => paper'.status = "ready"
      BY DEF Finish
    <3>3. FailPermanently(w) => paper'.status = "failed"
      BY <3>1 DEF FailPermanently
    <3> QED BY <2>3, <3>2, <3>3
  <2>4. CASE GiveUp(w) \/ Canonicalize(w)
    <3>1. PICK v \in Uploads : Responsible(v) \/ Lost(v)
      BY <1>1, <2>4 DEF GiveUp, Canonicalize
    <3>2. PICK j \in Jobs : j = worker[w].job
      BY <2>4 DEF GiveUp, Canonicalize, TaskInv
    <3>3. CASE v # j
      <4>1. task'[v] = task[v]
        BY <2>4, <3>2, <3>3, RespondFrame DEF GiveUp, Canonicalize, Jobs
      <4> QED BY <2>1, <3>1, <4>1
    <3>4. CASE v = j /\ GiveUp(w)
      <4>1. Respond(w, TRUE)
        BY <3>4 DEF GiveUp
      <4>2. /\ task'[j].job = task[j].job
            /\ task[j].state = "pending" => task'[j].state \in {"pending", "dropped"}
            /\ task[j].state # "pending" => task'[j].state = task[j].state
        BY <3>2, <4>1, RespondFrame
      <4> QED BY <2>1, <3>1, <3>4, <4>2
    <3>5. CASE v = j /\ Canonicalize(w)
      <4>1. Respond(w, FALSE) /\ task[j].job = "canonicalize"
        BY <3>2, <3>5 DEF Canonicalize, TaskInv
      <4>2. task[j].state # "pending" => task'[j].state = task[j].state
        BY <3>2, <4>1, RespondFrame
      <4> QED BY <2>1, <3>1, <3>5, <4>1, <4>2
    <3> QED BY <2>4, <3>3, <3>4, <3>5
  <2> QED BY <1>5, <2>2, <2>3, <2>4 DEF JobStep
<1> QED BY <1>2, <1>3, <1>4, <1>5, ReaderFrame DEF Next, Push, vars

-----------------------------------------------------------------------------
(* The theorems. *)

(* The inductive invariant, and that every behaviour keeps it. *)
LEMMA Inductive == Spec => []IInv
<1>1. Init => IInv
  <2>1. Init => HolderInv /\ TaskInv /\ ScriptInv
    BY NamesAssumption DEF Init, HolderInv, TaskInv, ScriptInv, Scheduled, Idle, Jobs
  <2>2. Init => PassageInv /\ QueuedIsOwned
    BY DEF Init, PassageInv, OneRunOfChunks, AnswerableHasChunks, EvidenceExists, QueuedIsOwned
  <2> QED BY <2>1, <2>2, TypeInit DEF IInv
<1>2. IInv /\ [Next]_vars => IInv'
  BY TypeInvariance, HolderInvariance, TaskInvariance, PassageInvariance, QueueInvariance DEF IInv
<1> QED BY <1>1, <1>2, PTL DEF Spec

(* Committed rows, queue, requests and jobs are well typed: in particular the  *)
(* committed status is never `processing`.                                    *)
THEOREM PaperTypes == Spec => []TypeOK
<1>1. IInv => TypeOK
  BY DEF IInv
<1> QED BY <1>1, Inductive, PTL

(* However many jobs and scripts run at once, are delivered again or fail, the *)
(* committed passages are those of a single run.                              *)
THEOREM PassagesOfOneRun == Spec => []OneRunOfChunks
<1>1. IInv => OneRunOfChunks
  BY DEF IInv, PassageInv
<1> QED BY <1>1, Inductive, PTL

(* A paper readers may ask about always has passages to answer from. *)
THEOREM AnswerableIsSearchable == Spec => []AnswerableHasChunks
<1>1. IInv => AnswerableHasChunks
  BY DEF IInv, PassageInv
<1> QED BY <1>1, Inductive, PTL

(* No citation outlives the passage it refers to. *)
THEOREM CitationsLead == Spec => []EvidenceExists
<1>1. IInv => EvidenceExists
  BY DEF IInv, PassageInv
<1> QED BY <1>1, Inductive, PTL

(* A paper is queued only while an upload or a task has it to move, unless an  *)
(* instance went away or the queue gave up.                                   *)
THEOREM NoSilentStall == Spec => []QueuedIsOwned
<1>1. IInv => QueuedIsOwned
  BY DEF IInv
<1> QED BY <1>1, Inductive, PTL

=============================================================================
