--------------------------- MODULE PaperIngestion ---------------------------
(***************************************************************************)
(* The life of one PDF, which is one `papers` row whoever uploads it: the  *)
(* uploads that create, requeue or share it (app/routers/papers.py), the   *)
(* queue between them and the worker (app/services/tasks.py,               *)
(* app/routers/internal.py), the ingestion job (app/ingestion/pipeline.py) *)
(* and the re-index script (scripts/reindex.py), with the answers that     *)
(* cite the paper's passages meanwhile.                                    *)
(*                                                                         *)
(* A job is one transaction.  It loads the paper, takes its row lock with  *)
(* the first flush and keeps it to the end; only the columns changed since *)
(* the load are written.  "ready" stands for `ready` and `partially_ready`.*)
(***************************************************************************)
EXTENDS Integers, FiniteSets

CONSTANTS
  Uploads,      \* uploads of the same bytes; a task is named by its upload
  By,           \* the reader who makes each upload
  Scripts,      \* runs of the re-index script on this paper
  Workers,      \* deliveries and scripts that may run at the same time
  Answers,      \* answers that may cite the paper
  None,
  MaxAttempts,  \* max-attempts of the queue
  Faults        \* what may go wrong outside the code

ASSUME NamesAssumption ==
  /\ Uploads \cap Scripts = {}
  /\ None \notin Uploads \cup Scripts \cup Workers
  /\ DOMAIN By = Uploads
ASSUME BoundsAssumption ==
  /\ MaxAttempts \in Nat \ {0}
  /\ Faults \subseteq {"crash", "late_error", "duplicate"}

VARIABLES
  paper,     \* the committed row
  chunks,    \* the runs whose sections and chunks are committed
  grant,     \* user_paper_access of each reader
  linked,    \* readers into whose concept graph the paper has been folded
  upload,    \* where each upload is, and its copy of the row and the grant
  task,      \* the queue
  worker,    \* what each worker does, and its copy of the row
  rowLock,   \* the worker whose transaction holds the row lock of `paper`
  runs,      \* runs that have rewritten the chunks so far
  answer     \* the passages each answer retrieved and cites

requestVars == <<upload, grant>>
workVars == <<worker, rowLock, runs>>
vars == <<paper, chunks, grant, linked, upload, task, worker, rowLock, runs, answer>>

Readers == {By[u] : u \in Uploads}
Jobs == Uploads \cup Scripts

-----------------------------------------------------------------------------
Status == {"absent", "queued", "ready", "failed"}
Error == {"none", "enqueue_failed", "permanent"}

Idle == [pc |-> "idle", job |-> None, status |-> "absent", error |-> "none",
         analysed |-> 0, erased |-> {}]

Init ==
  /\ paper = [status |-> "absent", error |-> "none", analysed |-> 0]
  /\ chunks = {}
  /\ grant = [r \in Readers |-> "none"]
  /\ linked = {}
  /\ upload = [u \in Uploads |->
                 [pc |-> "idle", error |-> "none", grant |-> "none"]]
  /\ task = [j \in Jobs |->
               IF j \in Scripts
               THEN [job |-> "reindex", state |-> "pending", tries |-> 0]
               ELSE [job |-> "none", state |-> "none", tries |-> 0]]
  /\ worker = [w \in Workers |-> Idle]
  /\ rowLock = None
  /\ runs = 0
  /\ answer = [a \in Answers |-> [state |-> "none", run |-> 0]]

-----------------------------------------------------------------------------
(* Uploads. *)

UploadGoto(u, label) == upload' = [upload EXCEPT ![u].pc = label]

(* Look the hash up, and the reader's grant on the paper found. *)
Look(u) ==
  /\ upload[u].pc = "idle"
  /\ upload' = [upload EXCEPT ![u] =
       [pc |-> CASE paper.status = "absent" -> "new"
                 [] paper.status = "failed" -> "retrying"
                 [] OTHER -> "sharing",
        error |-> paper.error,
        grant |-> grant[By[u]]]]
  /\ UNCHANGED <<paper, chunks, grant, linked, task, workVars, answer>>

(* uq_papers_content_hash and the key of user_paper_access: another request *)
(* committed the row this one is about to insert.                           *)
Conflict(u) ==
  \/ upload[u].pc = "new" /\ paper.status # "absent"
  \/ upload[u].pc \in {"retrying", "sharing"}
     /\ upload[u].grant = "none" /\ grant[By[u]] # "none"

Refuse(u) ==
  /\ Conflict(u)
  /\ UploadGoto(u, "refused")
  /\ UNCHANGED <<paper, chunks, grant, linked, task, workVars, answer>>

(* _grant_access: a revoked grant comes back; one seen active is not written. *)
Granted(u) ==
  IF upload[u].grant = "active" THEN grant ELSE [grant EXCEPT ![By[u]] = "active"]

CommitNew(u) ==
  /\ upload[u].pc = "new"
  /\ ~ Conflict(u)
  /\ paper' = [paper EXCEPT !.status = "queued"]
  /\ grant' = Granted(u)
  /\ UploadGoto(u, "dispatching")
  /\ UNCHANGED <<chunks, linked, task, workVars, answer>>

(* A failed paper is queued again; the UPDATE waits for a running job. *)
Requeue(u) ==
  /\ upload[u].pc = "retrying"
  /\ ~ Conflict(u)
  /\ rowLock = None
  /\ paper' = [paper EXCEPT !.status = "queued",
                            !.error = IF upload[u].error = "none" THEN @ ELSE "none"]
  /\ grant' = Granted(u)
  /\ UploadGoto(u, "dispatching")
  /\ UNCHANGED <<chunks, linked, task, workVars, answer>>

Share(u) ==
  /\ upload[u].pc = "sharing"
  /\ ~ Conflict(u)
  /\ grant' = Granted(u)
  /\ UploadGoto(u, "canonicalizing")
  /\ UNCHANGED <<paper, chunks, linked, task, workVars, answer>>

JobOf(u) == IF upload[u].pc = "dispatching" THEN "ingest" ELSE "canonicalize"

Enqueue(u) ==
  task' = [task EXCEPT ![u] = [job |-> JobOf(u), state |-> "pending", tries |-> 0]]

Dispatch(u) ==
  /\ upload[u].pc \in {"dispatching", "canonicalizing"}
  /\ Enqueue(u)
  /\ UploadGoto(u, "accepted")
  /\ UNCHANGED <<paper, chunks, grant, linked, workVars, answer>>

(* Mutant: a refused enqueue is logged, whatever the job. *)
DispatchErrorLogged(u) ==
  /\ upload[u].pc \in {"dispatching", "canonicalizing"}
  /\ UNCHANGED task
  /\ UploadGoto(u, "unscheduled")
  /\ UNCHANGED <<paper, chunks, grant, linked, workVars, answer>>

(* create_task raised: with an ingestion, the paper is to be marked failed; *)
(* a late error is raised for a task that was created.                      *)
DispatchError(u) ==
  /\ upload[u].pc \in {"dispatching", "canonicalizing"}
  /\ \/ UNCHANGED task
     \/ "late_error" \in Faults /\ Enqueue(u)
  /\ UploadGoto(u, IF JobOf(u) = "ingest" THEN "failing" ELSE "unscheduled")
  /\ UNCHANGED <<paper, chunks, grant, linked, workVars, answer>>

MarkFailed(u) ==
  /\ upload[u].pc = "failing"
  /\ rowLock = None
  /\ paper' = [paper EXCEPT !.status = "failed", !.error = "enqueue_failed"]
  /\ UploadGoto(u, "refused")
  /\ UNCHANGED <<chunks, grant, linked, task, workVars, answer>>

(* The instance goes away between the commit and the end of the dispatch. *)
Crash(u) ==
  /\ "crash" \in Faults
  /\ upload[u].pc \in {"dispatching", "canonicalizing", "failing"}
  /\ UploadGoto(u, "crashed")
  /\ UNCHANGED <<paper, chunks, grant, linked, task, workVars, answer>>

(* The reader removes the paper from their library. *)
RemovePaper(r) ==
  /\ grant[r] = "active"
  /\ grant' = [grant EXCEPT ![r] = "revoked"]
  /\ UNCHANGED <<paper, chunks, linked, upload, task, workVars, answer>>

-----------------------------------------------------------------------------
(* The queue and the worker. *)

InDelivery(j) == \E w \in Workers : worker[w].job = j

(* A push, or the script: the job loads the paper row. *)
Deliver(w, j) ==
  /\ worker[w].pc = "idle"
  /\ \/ task[j].state = "pending" /\ ~ InDelivery(j)
     \/ "duplicate" \in Faults /\ j \in Uploads /\ task[j].state \in {"pending", "gone"}
  /\ task[j].tries < MaxAttempts
  /\ paper.status # "absent"
  /\ task' = [task EXCEPT ![j].tries = @ + 1]
  /\ worker' = [worker EXCEPT ![w] =
       [pc |-> IF task[j].job = "canonicalize" THEN "linking" ELSE "loaded",
        job |-> j, status |-> paper.status, error |-> paper.error,
        analysed |-> paper.analysed, erased |-> {}]]
  /\ UNCHANGED <<paper, chunks, linked, requestVars, rowLock, runs, answer>>

(* Mutant: every phase is committed as it starts. *)
LockCommitted(w) ==
  /\ worker[w].pc = "loaded"
  /\ rowLock = None
  /\ rowLock' = w
  /\ paper' = [paper EXCEPT !.status = "processing"]
  /\ worker' = [worker EXCEPT ![w] = [@ EXCEPT !.pc = "parsing", !.status = "processing"]]
  /\ UNCHANGED <<chunks, linked, requestVars, task, runs, answer>>

(* Mutant: the first flush does not wait for the job that holds the row. *)
LockUnwaited(w) ==
  /\ worker[w].pc = "loaded"
  /\ rowLock' = w
  /\ worker' = [worker EXCEPT ![w] = [@ EXCEPT !.pc = "parsing", !.status = "processing"]]
  /\ UNCHANGED <<paper, chunks, linked, requestVars, task, runs, answer>>

(* The first flush: `processing`, phase `fetch`, in the job's transaction. *)
Lock(w) ==
  /\ worker[w].pc = "loaded"
  /\ rowLock = None
  /\ rowLock' = w
  /\ worker' = [worker EXCEPT ![w] = [@ EXCEPT !.pc = "parsing", !.status = "processing"]]
  /\ UNCHANGED <<paper, chunks, linked, requestVars, task, runs, answer>>

(* "Idempotent re-ingest": the paper's sections go, and all that hangs on them. *)
Erase(w) ==
  /\ worker[w].pc = "parsing"
  /\ worker' = [worker EXCEPT ![w] = [@ EXCEPT !.pc = "erased", !.erased = chunks]]
  /\ UNCHANGED <<paper, chunks, linked, requestVars, task, rowLock, runs, answer>>

(* Mutant: the route forgets to answer 503. *)
RespondOk(w, retry) ==
  task' = [task EXCEPT ![worker[w].job].state = IF @ = "pending" THEN "gone" ELSE @]

(* The worker's response: 200 takes the task off the queue, 503 leaves it *)
(* there until its attempts are spent.                                    *)
Respond(w, retry) ==
  LET j == worker[w].job
      kept == retry /\ j \in Uploads /\ task[j].tries < MaxAttempts
  IN  task' = [task EXCEPT ![j].state =
        IF @ # "pending" \/ kept THEN @ ELSE IF retry THEN "dropped" ELSE "gone"]

(* The end of the job's transaction. *)
Close(w) ==
  /\ worker' = [worker EXCEPT ![w] = Idle]
  /\ rowLock' = IF rowLock = w THEN None ELSE rowLock

(* Mutant: turn_retrievals.chunk_id without a foreign key. *)
CascadeNone(erased) == UNCHANGED answer

(* turn_retrievals rows go with the chunks they reference. *)
Cascade(erased) ==
  answer' = [a \in Answers |->
    IF answer[a].state = "cited" /\ answer[a].run \in erased
    THEN [answer[a] EXCEPT !.state = "bare"]
    ELSE answer[a]]

(* Phases chunk to canonicalize, and the commit.  The analysis may be *)
(* unavailable; the script canonicalizes for nobody.                  *)
Finish(w) ==
  /\ worker[w].pc = "erased"
  /\ runs' = runs + 1
  /\ \E analysed \in IF worker[w].analysed = 0 THEN {0, runs + 1} ELSE {worker[w].analysed} :
       /\ paper' = [status |-> "ready",
                    error |-> IF worker[w].error = "none" THEN paper.error ELSE "none",
                    analysed |-> IF analysed = worker[w].analysed
                                 THEN paper.analysed ELSE analysed]
       /\ linked' = IF analysed # 0 /\ worker[w].job \in Uploads
                    THEN linked \cup {By[worker[w].job]} ELSE linked
  /\ chunks' = (chunks \ worker[w].erased) \cup {runs + 1}
  /\ Cascade(worker[w].erased)
  /\ Respond(w, FALSE)
  /\ Close(w)
  /\ UNCHANGED requestVars

(* Mutant: the failure of a paper that was ready is only logged. *)
FailPermanentlyQuietly(w) ==
  /\ worker[w].pc \in {"parsing", "erased"}
  /\ worker[w].job \in Uploads
  /\ UNCHANGED <<paper, linked, requestVars, runs>>
  /\ chunks' = chunks \ worker[w].erased
  /\ Cascade(worker[w].erased)
  /\ Respond(w, FALSE)
  /\ Close(w)

(* A missing original, an unreadable PDF, no sections, no chunks. *)
FailPermanently(w) ==
  /\ worker[w].pc \in {"parsing", "erased"}
  /\ worker[w].job \in Uploads
  /\ paper' = [paper EXCEPT !.status = "failed",
                            !.error = IF worker[w].error = "permanent"
                                      THEN @ ELSE "permanent"]
  /\ chunks' = chunks \ worker[w].erased
  /\ Cascade(worker[w].erased)
  /\ Respond(w, FALSE)
  /\ Close(w)
  /\ UNCHANGED <<linked, requestVars, runs>>

(* A transient error, a crash, or any error of the script: nothing is kept. *)
GiveUp(w) ==
  /\ worker[w].pc # "idle"
  /\ Respond(w, TRUE)
  /\ Close(w)
  /\ UNCHANGED <<paper, chunks, linked, requestVars, runs, answer>>

(* Phase 6b alone: nothing to do when the job found no candidates. *)
Canonicalize(w) ==
  /\ worker[w].pc = "linking"
  /\ linked' = IF worker[w].analysed = 0 THEN linked
               ELSE linked \cup {By[worker[w].job]}
  /\ Respond(w, FALSE)
  /\ Close(w)
  /\ UNCHANGED <<paper, chunks, requestVars, runs, answer>>

-----------------------------------------------------------------------------
(* Answers. *)

(* A turn retrieves passages of a paper that is answerable for its reader. *)
Retrieve(a) ==
  /\ answer[a].state = "none"
  /\ paper.status = "ready"
  /\ \E r \in Readers : grant[r] = "active"
  /\ \E n \in chunks : answer' = [answer EXCEPT ![a] = [state |-> "retrieved", run |-> n]]
  /\ UNCHANGED <<paper, chunks, linked, requestVars, task, workVars>>

(* It is persisted with references to them: an uncommitted deletion of theirs *)
(* is waited for, a committed one fails the turn.                             *)
Persist(a) ==
  /\ answer[a].state = "retrieved"
  /\ \A w \in Workers : answer[a].run \notin worker[w].erased
  /\ answer' = [answer EXCEPT ![a].state =
                  IF answer[a].run \in chunks THEN "cited" ELSE "failed"]
  /\ UNCHANGED <<paper, chunks, linked, requestVars, task, workVars>>

-----------------------------------------------------------------------------
UploadStep(u) ==
  \/ Refuse(u) \/ CommitNew(u) \/ Requeue(u) \/ Share(u)
  \/ Dispatch(u) \/ DispatchError(u) \/ MarkFailed(u)

JobStep(w) ==
  \/ Lock(w) \/ Erase(w) \/ Finish(w) \/ FailPermanently(w) \/ GiveUp(w)
  \/ Canonicalize(w)

Push(j) == \E w \in Workers : Deliver(w, j)

Next ==
  \/ \E u \in Uploads : Look(u) \/ UploadStep(u) \/ Crash(u)
  \/ \E r \in Readers : RemovePaper(r)
  \/ \E j \in Jobs : Push(j)
  \/ \E w \in Workers : JobStep(w)
  \/ \E a \in Answers : Retrieve(a) \/ Persist(a)

Spec == Init /\ [][Next]_vars

(* A request the server accepted is run; the queue pushes what it holds; a job *)
(* that was started ends.                                                     *)
FairSpec ==
  /\ Spec
  /\ \A u \in Uploads : WF_vars(UploadStep(u)) /\ WF_vars(Push(u))
  /\ \A w \in Workers : WF_vars(JobStep(w))

-----------------------------------------------------------------------------
UploadLabel == {"idle", "new", "retrying", "sharing", "dispatching", "canonicalizing",
                "failing", "accepted", "unscheduled", "refused", "crashed"}

Upload == [pc : UploadLabel, error : Error, grant : {"none", "active", "revoked"}]

Task == [job : {"none", "ingest", "canonicalize", "reindex"},
         state : {"none", "pending", "dropped", "gone"}, tries : 0 .. MaxAttempts]

Work == [pc : {"idle", "loaded", "parsing", "erased", "linking"},
         job : Jobs \cup {None}, status : Status \cup {"processing"}, error : Error,
         analysed : Nat, erased : SUBSET Nat]

(* Types of the committed rows, of the queue and of the requests and jobs. *)
TypeOK ==
  /\ paper \in [status : Status, error : Error, analysed : Nat]
  /\ chunks \subseteq Nat
  /\ grant \in [Readers -> {"none", "active", "revoked"}]
  /\ linked \subseteq Readers
  /\ upload \in [Uploads -> Upload]
  /\ task \in [Jobs -> Task]
  /\ worker \in [Workers -> Work]
  /\ rowLock \in Workers \cup {None}
  /\ runs \in Nat
  /\ answer \in [Answers -> [state : {"none", "retrieved", "cited", "bare", "failed"},
                             run : Nat]]

(* However many jobs run on the paper at once, its passages are those of one *)
(* run, never a mixture of two (pipeline.py:180 "Idempotent re-ingest").     *)
OneRunOfChunks == \A m, n \in chunks : m = n

(* A paper readers may ask about has passages to answer from, whichever jobs  *)
(* failed, were retried or ran twice (pipeline.py ingest_paper; turns.py      *)
(* ANSWERABLE_STATUSES).                                                      *)
AnswerableHasChunks == paper.status = "ready" => chunks # {}

(* Every citation of an answer leads to a passage of the paper, however jobs   *)
(* and turns interleave (turns.py _persist; models.py TurnRetrieval).         *)
EvidenceExists == \A a \in Answers : answer[a].state = "cited" => answer[a].run \in chunks

(* An upload, or a task of the queue, that still has the paper to move on, or *)
(* that gave up in a way the code cannot see.                                 *)
Responsible(u) ==
  \/ upload[u].pc \in {"dispatching", "failing"}
  \/ task[u].job = "ingest" /\ task[u].state = "pending"
Lost(u) == upload[u].pc = "crashed" \/ task[u].state = "dropped"

(* No silent stall: a paper is never left `queued` with nobody to move it,    *)
(* unless an instance went away or the queue spent its attempts (papers.py    *)
(* _dispatch_ingestion).                                                      *)
QueuedIsOwned ==
  paper.status = "queued" => \E u \in Uploads : Responsible(u) \/ Lost(u)

(* A queued paper comes to rest, ready or failed, unless its tasks are lost.  *)
QueuedSettles ==
  paper.status = "queued" ~>
    paper.status \in {"ready", "failed"} \/ \E u \in Uploads : Lost(u)

-----------------------------------------------------------------------------
(* What the code and its documents say, and the system does not do. *)

(* papers.py:246: "Same bytes, already parsed [...] Only phase 6b still has   *)
(* to run" - once nothing is under way any more and nothing was lost, the     *)
(* readers whose uploads were accepted have the paper in their concept graph. *)
Quiet ==
  /\ \A u \in Uploads : upload[u].pc \in {"idle", "accepted"} /\ task[u].state \in {"none", "gone"}
  /\ \A w \in Workers : worker[w].pc = "idle"

ReadersGetTheirConcepts ==
  Quiet /\ paper.status = "ready" /\ paper.analysed # 0
    => \A u \in Uploads : upload[u].pc = "accepted" => By[u] \in linked
=============================================================================
