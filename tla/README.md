# Research Paper Reading Companion: specifications and proofs

TLA+ models of the companion's server (`app/`), with the TLC configurations that
check them and TLAPS proofs. Everything here is translated from the code; line
numbers are those of the commit this directory sits beside. `PROJECT.json` maps
each definition to the lines it models.

## 1. The system

A reader uploads PDFs; a background job parses, embeds and analyses each; the
reader then talks about a paper in sessions, where an agent answers with verified
citations, asks quizzes, and records what the reader did and did not understand.
FastAPI serves requests, PostgreSQL holds all state, Cloud Tasks delivers jobs,
Gemini models are called from inside requests and jobs.

| component | state it keeps | operations |
|---|---|---|
| turn pipeline (`services/turns.py`, `routers/sessions.py`) | `sessions`, `turns`, `turn_retrievals` rows; one in-memory copy of the session row per request | create a session; run a turn: route, refuse, answer, persist, stream; roll back |
| quizzes (`services/quizzes.py`) | `quizzes`, `quiz_attempts`; the session's `activity`, `pending_quiz_id`, `active_concept_id` | gate, create, grade the pending quiz |
| agent loop and tools (`agent/`) | per-turn context: retrieved passages, buffered signals, quiz asked | bounded loop, one retry on a transient error, five tools |
| conversation history (`services/messages.py`) | `messages` | append an exchange, read a window, expire |
| upload and ingestion (`routers/papers.py`, `services/tasks.py`, `routers/internal.py`, `ingestion/pipeline.py`) | `papers`, `user_paper_access`, sections, chunks; tasks in the queue | upload, re-upload, remove, deliver, parse, fail, retry, reindex |
| signals and learner state (`services/signals.py`, `services/learner_state.py`, `services/memory.py`, `routers/memory.py`) | `observations` (append-only), the score columns of `concepts` | prepare, project, commit, recompute, correct, override |
| callbacks (`services/callbacks.py`) | the callback columns of `turns` | decide once per turn: preferences, memory, weakness, gap, grant |
| feedback (`services/feedback.py`, `routers/feedback.py`) | `feedback`, the reader's JSON preferences | record, stamp with the turn that applied it |
| concepts (`ingestion/concepts.py`, `services/adjudication.py`) | `concepts`, `concept_relationships` | match, adjudicate, upsert, link |
| retrieval, memory reads and citations (`services/retrieval.py`, `services/memory.py`, `services/citations.py`) | none of their own; the turn's context of passages and memory | search within the scope; recall; take out markers that name nothing |
| parsing (`ingestion/parser.py`, `sectioner.py`, `chunker.py`) | none | PDF to sections to overlapping windows |
| authentication (`auth/`) | `users` | verify a token, provision at first login |
| erasure (`services/erasure.py`, the foreign keys and triggers of the schema) | everything a user owns | open the door, one `DELETE` that cascades level by level, close it |
| frontend (`frontend/src/`) | React state of the conversation, papers and sessions hooks | poll, stream, open, remove, reconcile |

How they interact: a request has one database session and (almost always) one
transaction, READ COMMITTED, held open while models are awaited. There is no
in-process lock anywhere: what serialises two requests is a row lock, a unique
key, or nothing. Jobs reach the worker only through the queue. The frontend sees
the server through HTTP responses and one event stream per turn.

What is hard: two requests on one session (two tabs, a resent message) with
stale copies of one row; a retried agent loop that must forget its first
attempt; retention deleting rows whose ordinals others are extending; a job that
is one long transaction, delivered at least once; evidence whose derived score
two transactions recompute at once; two papers that name the same concepts in
different orders; numbers the model cites that must mean the passages it was
given; a cascade through tables whose triggers refuse deletion; a page whose
answers arrive after the reader has clicked elsewhere.

## 2. Modules

| module | kind | what it is |
|---|---|---|
| `TurnSession` | component | one session and the concurrent turn requests against it |
| `SessionLog` | abstract | what a session promises: a log that grows by whole exchanges |
| `MCTurnSession` | TLC | instances of `TurnSession` |
| `TurnSessionProofs` | TLAPS | its inductive invariant, its theorems, the refinement of `SessionLog` |
| `PaperIngestion` | component | one paper: uploads, queue, jobs, re-index script, answers that cite it |
| `MCPaperIngestion` | TLC | instances of `PaperIngestion` |
| `PaperIngestionProofs` | TLAPS | its inductive invariant and its theorems |
| `LearnerState` | operators | the signal vocabulary, weights, targets and the derivation of a concept's columns |
| `LearnerMemory` | component | one reader's observations and concepts, and the turns and corrections that write them; extends `LearnerState` |
| `MCLearnerMemory` | TLC | instances of `LearnerMemory` |
| `LearnerMemoryProofs` | TLAPS | what the observations that are left rest on; what is derived from them, who settles it, the reader's override |
| `ReaderProfile` | component | what a reader's turns in different sessions share: the callback gate, feedback, preferences |
| `MCReaderProfile` | TLC | instances of `ReaderProfile` |
| `ReaderProfileProofs` | TLAPS | the distance and readability of callbacks, the stamping of feedback, what the preferences add up to |
| `ConceptGraph` | component | one reader's concepts and relationships, and the jobs that fold papers into them |
| `MCConceptGraph` | TLC | an instance of `ConceptGraph` |
| `ConceptGraphProofs` | TLAPS | what a merge and an edge rest on; what an undisturbed job leaves |
| `Grounding` | component | one turn: its searches, its memory, its draft, the citations and rows that record it |
| `MCGrounding` | TLC | an instance of `Grounding` |
| `GroundingProofs` | TLAPS | what a citation and a listed citation rest on; what a turn reports as remembered; what a deeper look adds |
| `Erasure` | component | the deletion of an account, the foreign keys and triggers, and a request beside it |
| `MCErasure` | TLC | one row of every table |
| `ErasureProofs` | TLAPS | its inductive invariant and its theorems |
| `Conversation` | component | one open session in the browser and the turn that streams into it |
| `Shelf` | component | the rail: papers, polls, sessions, uploads, removals |
| `Workspace` | composition | `App.jsx`: `Conversation` and `Shelf` share the open session |
| `MCWorkspace` | TLC | instances of `Workspace` |
| `WorkspaceProofs` | TLAPS | the consistency of the page |

Each server module has the rows its component is about as committed state, and
the request or job as a record beside it; the modules meet in the tables. A turn
appears in four of them: its rows and locks in `TurnSession`, what it learns in
`LearnerMemory`, its callback and feedback in `ReaderProfile`, its evidence in
`Grounding`.

### TurnSession

A request `r` is one `POST /sessions/{id}/turns`. `session`, `turns`, `messages`,
`quizzes`, `attempts` are the *committed* rows; what `r` has read or flushed but
not committed is `req[r]`, and `pc[r]` says where `r` is:

    idle -CreateTurn-> scoping -RunTurn-> agent -ComposeAnswer-> composed
                          |                 |  ^
                          |               Gate AskQuiz   (RetryTurn stays in agent)
                          |                 v  |
                          |               asking
                          '-RefuseUnreadyPaper-> composed
    idle -CreateTurn-> grading -GradePending-> counted -InsertAttempt-> attempted
                                  -Transition-> composed
    composed -ReadOrdinal-> inserting -InsertTurn-> holding -AppendExchange->
             written -Commit-> streaming -Stream-> done
    any open state -FailTurn, TurnConflict, AttemptConflict, DeadlockVictim-> failed

A step is the code between two points where another request can run with an
effect (an `await` of the database or of a model). PostgreSQL's part is modelled
explicitly: the session row's lock, taken by the first flush that updates it
(`AskQuiz`, `Transition`, else `Commit`); the wait of an INSERT for another
transaction's uncommitted equal key; the integrity error once that key is
committed; the deadlock detector. SQLAlchemy's part too: only columns changed
since the load are written (`dirty`, `WrittenRow`), `expire_on_commit=False`.

Abstractions, and why they lose nothing here:
- Texts, citations, tokens and latencies are left out; a grade is one of four.
- The models' choices (ask a quiz or not, fail or not, grade) are free.
- `_backstop_signal`, the buffered signals and `apply_pending` write tables no
  property of this module speaks of; a failure of theirs is a `FailTurn`.
- `GradePending` never finds its quiz missing: a committed quiz is deleted only
  with its whole account.
- The session is its reader's only one, so the quiz gap, which the code counts
  per user, counts the turns of this session.
- `run_turn` wraps every exception in `AgentUnavailable`, so the two
  `ToolScopeViolation` handlers of `run` are one `FailTurn` with the others.
- Foreign-key checks take locks that do not conflict with the session's UPDATE.
- `PruneExpired` only removes rows older than any request in flight: the window
  is `MESSAGE_RETENTION_DAYS` and a request lasts minutes. It may run at any
  moment, so the hourly throttle is not modelled.

### PaperIngestion

One content hash, hence at most one `papers` row, whoever uploads it. `paper`,
`chunks`, `grant`, `linked` and `answer` are committed rows (`chunks` holds the
number of the run each passage comes from, `linked` the readers whose concept
graph has the paper, `answer` the references a turn commits). `upload[u]` is a
`POST /papers`, `task[u]` the task it creates, `worker[w]` a delivery of a task or
a run of `scripts/reindex.py`, `rowLock` the row lock of the paper:

    upload: idle -Look-> new      -CommitNew-> dispatching
                         retrying -Requeue->   dispatching
                         sharing  -Share->     canonicalizing
            new, retrying, sharing -Refuse-> refused     (unique keys)
            dispatching, canonicalizing -Dispatch-> accepted
            dispatching -DispatchError-> failing -MarkFailed-> refused
            canonicalizing -DispatchError-> unscheduled
            dispatching, canonicalizing, failing -Crash-> crashed
    worker: idle -Deliver-> loaded -Lock-> parsing -Erase-> erased -Finish-> idle
            idle -Deliver-> linking -Canonicalize-> idle
            parsing, erased -FailPermanently-> idle;  any -GiveUp-> idle

The important fact of `ingest_paper` is that it commits nothing itself: the job
is one transaction that `run_ingestion_job` commits or rolls back. So the phases
are local to the worker, the first flush takes the row lock, and a second job
waits in `loaded` with the row it read before. A column whose value at the end
equals the value loaded is not written (`error`, `analysed` in `Finish`,
`FailPermanently`; `Granted`).

Abstractions: `ready` stands for `ready` and `partially_ready`; the error codes are
`enqueue_failed` and one permanent code; an analysis is named by the run that
made it, 0 when there is none (or none with a concept); a run keeps or fails its
passages whole, which is what its transaction does; validation of the file,
nicknames and the library listing are left out; the storage object of a hash is
never deleted. Cloud Tasks is external: it pushes a pending task until a 200 or
until `MaxAttempts` pushes, one at a time. `Faults` are what the code must
survive and does not decide: an instance that goes away (`crash`), a `create_task`
that raises although the task exists (`late_error`), a push that is delivered
again, even after its 200 (`duplicate`).

### LearnerMemory and LearnerState

A writer `t` is a turn of one of the reader's sessions (`kind` agent or graded) or
one `PATCH /memory/concepts/{id}` (`correction`). `concepts` and `observations` are
the committed rows; `w[t].own` and `w[t].rows` are what `t` has flushed, and the
other fields of `w[t]` its local variables: the signal being prepared (`now`), the
buffer (`pending_signals`), the loaded row (`copy`) and what it derived.

| code | actions |
|---|---|
| beginning of `TurnPipeline.run`, `_grade_pending_quiz`, `correct_concept` | `BeginTurn`, `BeginGrading`, `BeginCorrection`, `Override` |
| `record_learning_signal`, `SignalService.prepare` | `Notice`, `Recall`, `Grow`, `CreateConcept`, `Pair` |
| `_reset_for_retry`; `_persist` step 13 and the backstop | `Retry`; `Persist` |
| `SignalService.commit`, `recompute` | `WriteSignal`, `LoadConcept`, `UpdateConcept`; `Recompute` for a correction's second call |
| commit, rollback, integrity error, PostgreSQL's detector | `Commit`, `Fail`, `NameConflict`, `DeadlockDetected` |

Between the statement that reads the observations and the UPDATE of the concept
other transactions may commit; the UPDATE writes the columns that differ from the
copy the ORM holds. A turn holds no reference to the concept, so its identity map
loads it again (`LoadConcept`); a correction keeps the row it loaded first. Every
`observed_at` is the start of the transaction (`now()`).

Abstractions: the score is the quotient it is before rounding, the confidence is
told apart by the total weight (it is a strictly increasing function of it), the
override by the signal it yields; notes, embeddings, related concepts and the
projection told to the agent are left out. `memory_seen` is its first concept. The
concept that `generate_quiz` creates for an unknown name goes through the same
`prepare`, whose signal is dropped: it has no step of its own here. `Concepts` are
concepts by name; merging is the canonicalisation's.

### ReaderProfile

A turn and a feedback request are one transaction each, in any sessions of one
reader. `prefs` is `users.preferences`, `log` the committed feedback, `applied` its
`applied_to_turn_id`, `turns` the callback columns of committed turns, `granted`
the papers the reader may read.

| code | actions |
|---|---|
| `FeedbackService.record`, the request that loads the user first | `LoadPreferences`, `Record` |
| `TurnPipeline.run` up to the gate; `decide` steps 4 to 6; step 7 with `_authorized_prior_paper` | `Begin`, `AnswerWithoutAgent`; `Gate`, `CountTurns`; `Authorize` |
| the agent, `SignalService.commit`, `apply_pending`, `_backstop_signal` | `Answer`, `WriteSignal`, `ReadPending`, `Stamp`, `Backstop` |
| commit, rollback, PostgreSQL's detector | `Commit`, `Fail`, `DeadlockDetected` |
| `remove_paper`, a repeated upload | `Revoke`, `Grant` |

The JSON column is copied, changed and written back whole, unless it is equal to
what was loaded. `_gap_satisfied` is two statements with an await between them, and
each sees what is committed by then: `Gate` ends with the latest callback (`base`),
`CountTurns` counts the turns since (`counted`). A graded answer has no gate and no
feedback, but holds its concept's row until its commit. The order of the locks is the code's: the row of a signal's
concept, the feedback rows (stamped when they are flushed), the row of the
backstop's concept; two turns can wait for one another, and do in the run.
Abstractions: which concepts are near and weak is a choice among the reader's
concepts, the gap is counted in halves (`RoundHalves` is Python's `round`), a
comment and a target are left out.

### ConceptGraph

A delivery `d` is one run of `canonicalize_paper` for one reader: one transaction,
whose flushed writes are `job[d].own` and `job[d].links`. A concept is never
deleted and its key is its normalised name, so the name stands for the row.

| code | actions |
|---|---|
| pass 1: `_exact_match`, `_nearest` | `Recall`, one candidate at a time |
| pass 2: `adjudicate` of all ambiguous pairs | `Adjudicate` |
| pass 3: `_commit_candidate`, `_upsert` | `Fold`, `Create`, `Lose` |
| `_link_typed`, prerequisites | `Link` |
| commit; exception and redelivery; deadlock | `Commit`; `Fail`, `Begin` again; `DeadlockDetected` |

`copy` is the row as the ORM session first loaded it: later queries do not refresh
it, and only columns that differ from it are written, whole. The edges come in
turns (`Turns`): for each candidate in order those of its "related" verdict, then for
each its prerequisites; `Unlinked` is what a turn has still to link, `Due` the edges
of the first turn that is not over. Abstractions: what the
analysis names is an instance constant, the verdicts are choices, a verdict below
its threshold counts as "distinct".

### Grounding

One turn, from its scope to its rows. `scope`, `retrieved`, `query` and `memory` are
fields of `TurnToolContext`; `handed` and `told` are histories of what the model's
responses contained; `citations` is what was streamed, `rows` the committed
`turn_retrievals`.

| code | actions and operators |
|---|---|
| `_scope_for`, prefetch, the gate's second paper | `Scope`, `Prefetch`, `Gate` |
| `RetrievalService.retrieve` | `Candidates`, `RowsFor`, `Relevant`, `Results` |
| `retrieve_paper_context` | `Search`, `Numbered` |
| `MemoryService.nearest`, `by_name`, `neighbours` | `Nearest`, `ByName`, `Hop`, `Neighbours` |
| `retrieve_learner_memory`, `get_concept_context` | `RetrieveMemory`, `GetConcept` |
| `_reset_for_retry` | `Retry`, `Reset` |
| `CitationVerifier.verify` | `Resolved`, `StatusOf`, `Verify` |
| `_persist`; `list_turn_citations` | `RowOf`, `Persist`; `Listed` |
| removal of a paper, a second ingestion, a merge | `Revoke`, `Reprocess`, `Merge` |

Abstractions: a draft is the set of its markers, each plain ("[1]") or padded
("[01]"), and whether prose is left without them; similarity is a number for each
query and passage, and equal ones come in any order; the index is approximate and
may miss passages; no query finds more concepts than its limit. `searches` and
`lookups` only bound the run, so they may start anywhere below their bounds.

### Erasure

One `DELETE` of a `users` row. The database is an arbitrary set of `Rows` and
`Refs` between them (`[row, column, to]`); `Constraints` is the schema's foreign
keys, each `cascade` or `null`, `AppendOnly` and `Immutable` the tables with
triggers, `quiz_pending_consistency` and `exactly_one_target` the columns that a CHECK
of that name keeps from becoming null alone. `gone` and `cut` are what the open transaction has deleted and set to null.

| code | actions |
|---|---|
| `erase_user` up to its `DELETE` (the door: `app.erasure`) | `Open`, `DeleteUser` |
| the foreign keys' actions, level by level | `Act`, `Refuse`, `NextLevel` |
| end of the statement; the door is closed | `Deleted` |
| what the caller does then | `Commit`, `Abandon`, `Meddle` |
| `correct_concept`, a turn's insert, in another transaction | `Touch`, `Insert`, `CommitWrite` |
| PostgreSQL's detector | `BreakDeadlock` |

That PostgreSQL runs the triggers a level queues after the whole level matters: a
turn is deleted by the key on its `user_id` in the first level, before a deleted
concept or session sets one of its columns to null in the second. The other request
is a correction, which holds its concept from its first flush, or a turn, which may
hold a concept it named again and the session it asked a quiz in when it comes to its
insert (`Touch`); either can wait for the deletion while the deletion waits for it.

### Conversation, Shelf, Workspace

The state of the hooks, with what is in flight: `loads`, `lists`, `refreshes` are
requests, each first without its answer and then with it, so answers may arrive in
any order or never. `Conversation` has `useConversation.js` over `stream.js`
(`Open`, `Loaded`, `LoadFails`, `Send`, `Tokens`, `Done`, `ErrorEvent`, `Lost`,
`Cut`, `Finish`), `Shelf` has `usePapers.js`, `useSessions.js` and the clicks of
`App.jsx`; `Workspace` composes them: a creation that resolves opens its session
whatever is open by then (`SessionsListed`), a removal closes the open one
(`Removed`), the end of a stream refreshes the sessions (`Finish`). The server is
external there: it answers a listing with its papers and commits or fails a turn.
An aborted request (`cancel`, or the page going away) is a `Cut`: `catch` lets the
`AbortError` pass, and what the page is left with is what an early end of the body
leaves. Requests in flight are sets, so of two polls with the same answer, or both
without one, one is kept.
Abstractions: an exchange is one entry, not two bubbles; tokens arrive at once;
the memory panel, feedback buttons and drawing are left out.

## 3. What TLC checks

| run | instance | shows |
|---|---|---|
| `turns_safety` | three requests, `QuizGap` 2 | `TypeOK`, `TurnsGapless`, `ExchangesWhole`, `TranscriptFollowsTurns`, `QuizPendingConsistency`, and that `TurnSession` implements `SessionLog` (`SerialLog`) |
| `turns_liveness` | one turn over, a quiz pending or not, two requests, `QuizGap` 1 | `AttemptsNumbered`, `PendingUnanswered`, `EveryRequestEnds` |
| `turns_open_questions` | as `turns_safety` | finding: two questions open at once |
| `papers_safety` | two readers, two workers, a re-index, an answer, two attempts, crashes and duplicated pushes | `TypeOK`, `OneRunOfChunks`, `QueuedIsOwned`, `AnswerableHasChunks`, `EvidenceExists` |
| `papers_liveness` | two readers, two attempts, late enqueue errors | `QueuedSettles` |
| `papers_concepts` | two readers, no fault | finding: a reader who uploads during an ingestion never gets its concepts |
| `learner_races` | two turns and two concepts; a turn and a correction after a correction; two corrections of a row that has lost evidence | `TypeOK`, `CacheIsEarned`, `EvidenceIsSound`, `UndisturbedWriterSettles`, `OverrideIsTheReaders`, `EveryWriterEnds` |
| `concepts` | two papers that name the same concepts in different orders, two attempts | `TypeOK`, `GraphIsSound`, `UndisturbedJobLeavesItsPaper`, `EveryDeliveryEnds` |
| `profile` | two turns after a callback, a shelf that changes; turns and feedbacks, three in all | `TypeOK`, `CallbacksAreDue`, `FeedbackCounts`, `EveryTurnEnds` |
| `grounding` | up to three searches or two reads of memory, two attempts, drafts of two markers, three passages and one that replaces them | `TypeOK`, `CitedIsWhatWasHanded`, `ReloadShowsTheAnswer`, `MemoryIsAccountedFor` |
| `erasure` | a row of every table, two where a table refers to itself, a shared paper, another reader's turn | `TypeOK`, `ErasureIsWhole`, `ErasureIsNeverRefused`, `EveryTransactionEnds` |
| `workspace` | two papers, two sessions, two questions, failing requests, two clicks | `PageIsConsistent`, `ReaderCanAskAgain`, `SettledIsShown` |

Bounds of `TurnSession`. Three requests are enough for a holder of each lock and a bystander: the
row lock, an ordinal and an attempt number are each held by one request and the
properties relate at most two requests and one committed row. `QuizGap` is 4
times the reader's appetite (2, 4 or 8); the smallest, 2, lets the gate open
within three turns, and 1 lets it open in the two-request liveness instance. The
clock is bounded by the number of requests, no state constraint is needed. The
liveness instance starts after one request ran alone; the states it starts from are
reachable in `turns_safety`.

Bounds of `PaperIngestion`. Two workers are a holder of the row lock and one that
waits with a stale copy; two uploads are the first and either a second reader or
a retry. Two attempts (five in production) give a task that is
retried and one that is dropped. `Workers` are interchangeable: the safety runs use
them as a symmetry set, the liveness run does not.

Bounds of `LearnerMemory`. `learner_races` starts from three kinds of states, each
with two writers left to race, because three at once are out of reach with all
these steps: nothing recorded yet; one correction committed; two turns committed
of which the second overwrote what the first derived. One buffered signal
for each attempt (`MaxSignals`) and two attempts already let a turn hold one
concept's row and wait for another's. Struggle and resolution, a measured answer
and the backstop are the signals; one style is in play, so ties between styles are
not explored.

Bounds of `ReaderProfile`. Callbacks relate a turn to the latest one before it: one
committed callback and two turns that race are the cases, at the gaps of 1 and 2
that `low` and `normal` would need more turns to exceed. Feedback meets a turn, another
feedback, or two turns that want to stamp it, on an empty shelf; the third feedback
comes before or after two that overlap, where a change that overlapped nothing could be
lost to what the others do. One change of the shelf takes a paper away or brings one back.

Bounds of `ConceptGraph`. Two deliveries hold and wait for one another's rows, names
and edges; two attempts let a failed one begin again. The instance has a name
written two ways, an alias, a near pair, a prerequisite and a type nobody knows.

Bounds of `Grounding`. Two passages and a repeated text are the least for a search
to find something again, a tie and a duplicate; numbers up to three name each
passage and one that is none. Searching and reading memory touch different fields,
so a turn of the run does one or the other.

Bounds of `Erasure`. `Touched` is a concept and a session, the two kinds of rows a turn
may hold. One row for each table lets every foreign key act once; the
level structure does not depend on how many rows a level has, and section 4 proves
the same for any number.

Bounds of `Workspace`. Two clicks are one whose answer is late and one that
overtakes it. The rail and the conversations start apart, because a listing and a
transcript meet only in the open session, which clicks move in both.

Fairness of `TurnSession` (`FairSpec`). Weak fairness of each accepted request's server steps, and
nothing else: the event loop resumes a request whose await is done, model calls
return or raise (the clients have timeouts), PostgreSQL grants a free lock and
detects deadlocks. Arrival of requests and departure of clients are not fair.
Each request's steps are disabled only while it waits for a lock whose holder can
move, which is what `EveryRequestEnds` shows.

Fairness of `LearnerMemory` and `ReaderProfile`. As for `TurnSession`: the server
steps of each writer or turn that has begun. What the agent notices, and when a
model call fails, is not fair; the agent's loop ends because it is bounded
(`Persist` stays enabled).

Fairness of `PaperIngestion`. Weak fairness of each accepted upload's server steps,
of the queue's push of each task it holds, and of each started job. The script,
readers and turns are not fair. `QueuedSettles` excepts a paper whose task was
dropped after `MaxAttempts`: the code has no step for it (a re-upload of a queued
paper shares it), as `usePapers.js` says.

Fairness of `ConceptGraph`. The steps of a delivery that has begun, and the queue's
next push of one that failed with attempts left.

Fairness of `Erasure`. The statement and the other request go on, and PostgreSQL's
detector aborts one of two transactions that wait for one another; which one, is
not said.

Fairness of `Workspace`. The timer fires; listings are answered; a turn ends on the
server; a stream's next event arrives or its connection breaks, and `finally` runs.
Transcripts and clicks are not fair.

## 4. What is proved

`TurnSessionProofs` proves, for every set of requests and every gap: `TypeCorrect`,
`OrdinalsCorrect`, `ExchangesKept`, `TranscriptCorrect`, `PendingCorrect`,
`AttemptsCorrect`, `AnsweredStaysAnswered`, and `Refinement` of `SessionLog`. The
assumptions are the two of `TurnSession` (`None` is not a request, the gap is
positive).

The invariant `IInv` is needed because no property above is inductive by itself:
that the next turn is number `turn_count` holds because at most one request holds
an uncommitted turn row (`TurnInv`: two holders have different ordinals, and each
holder's ordinal is not below the count and at most it), that a grade never
resurrects a quiz because a copy that names a pending quiz was loaded from the row
and either grades it or never writes it (`QuizInv`), that the transcript is
ordered because message ordinals read under the turn's key stay above the
committed ones while retention removes from below (`MessageInv`). Steps are first
split into private steps (one request, nothing committed), commits and sweeps
(`StepCases`, `PrivateFrame`); each conjunct has one lemma for each kind.

`PaperIngestionProofs` proves, for every number of uploads, readers, scripts,
workers, answers and attempts and whatever the faults: `PaperTypes`,
`PassagesOfOneRun`, `AnswerableIsSearchable`, `CitationsLead`, `NoSilentStall`. The
assumptions are the two of `PaperIngestion` (names are distinct, `By` is defined on
the uploads, at least one attempt). The invariant adds what the rows do not show:
a job that writes holds the row lock and what it erased is all there is
(`HolderInv`), a task exists only once its upload is over and a worker that links
readers never works for an ingestion (`TaskInv`). `HolderInv` carries the passages,
`TaskInv` the ownership of a queued paper; both are needed because a job's end is
one step that reads what it loaded several steps before.

`ErasureProofs` proves, for any rows and references: `ErasureTypes`,
`AccountGoesWhole`, `NeverRefused`. The assumption `ErasureAssumption` is what the
schema and the code that writes it give: references lead to rows; only rows of the
account refer into it; one that does so optionally has a `user_id` of the account
itself (`Owned`), and a row without one, such as a `turn_retrievals`, requires a row
that has. The invariant says what a level leaves behind (`SettledInv`: a row that
stays refers to no row whose foreign keys have acted, and to one that acts only by
a key that is still due), that the first level is that of the users row alone
(`LevelInv`), and that a row being written keeps the deletion waiting
(`WriterInv`). From it `NothingIsLeft`: an owned row that stayed would refer to the
users row, and any other of the account to an owned row. And `NothingIsCut`: a
reference that would be set to null belongs to an owned row, and at the second
level all owned rows are gone. So the triggers on `turns` and `messages` never see
an UPDATE, in whatever order a level's keys act.

`GroundingProofs` proves, for any papers, passages, rankings, drafts and lookups:
`GroundingTypes`, `CitationsGrounded`, `ReloadFaithful`, `MemoryAccounted`, and
`DepthIsMoot`: the tool `get_concept_context` walks two hops when asked for depth 2
and then keeps the edges at the concept itself, so the model is told what depth 1
tells. Of `GroundingAssumption` they use that the passages are finitely many, that
bounds are numbers and that `None` is no marker. The invariant says what a number
means: whatever the model was handed under a number of this attempt is the retrieved
passage at that place, and there is nothing else at any place (`HandedInv`, with the
type, by which no passage is retrieved twice); a citation is of the passage of its
number (`CitedInv`); the rows are those of the retrieved passages that still exist,
all of them until the paper is processed again (`RowsInv`). A search numbers the
passages it has not seen before behind those it has, in the order of the ranking
(`InOrder`, an enumeration of a finite set that lists each once, `InOrderLists`);
`SearchNumbers` is the lemma that this keeps every earlier number.

`ReaderProfileProofs` proves, for any number of turns in flight, feedbacks, papers and
concepts and any gap: `ProfileTypes`, `CallbacksDue`, `FeedbackIsStamped`,
`FeedbackCounted`. The assumption is `ProfileAssumption` (`None` names nothing, the
gap is a number). The invariant keeps, for each turn, what its gate saw: the committed
turns of that moment (`SpacedOK`: all callbacks among them are as far back as the level
asked, because the gate looked at the latest one and distance shrinks as moments grow,
which needs a greatest element of a bounded set of numbers, `Greatest`; the turns
counted by the second statement only add to those the first one saw), the papers
that were readable at some moment of it (`ReadableOK`: until it decides, the history
has all that is granted now), and the feedback it knew (`FeedbackOK`: stamped, or about
to be stamped by this turn). That the preferences are what some of the log adds up to, everything that overlapped
nothing included, needs a second invariant, `FollowInv`: the committed preferences, and
the copy of each request that is reading, are such a sum, and a reader that is still
alone is the only one and has loaded what is committed. A request that overlapped
another may therefore write an older sum back and drop only what overlapped it too.
The sum is a recursion over the log; that it exists, is one, and moves once when a
feedback is appended (`RunExists`, `RunsAgree`, `SumAppend`) is proved by the least
number at which it would fail.

`ConceptGraphProofs` proves, for any papers, candidates, replies, spellings and
deliveries: `GraphTypes`, `SoundGraph`, `MergesJudged`, `UndisturbedLeavesItsPaper`.
The assumption is `GraphAssumption` (the shape of a stored analysis, `None` is no row,
at least one attempt). The invariant
says that a verdict "same" is an answer about that candidate and that row
(`JudgedOK`), that every row a candidate can be folded into was loaded (`FoundOK`),
that a copy is the row as loaded until the job writes it and names the same papers
afterwards unless somebody else has written (`CopyOK`), and that one transaction at a
time has written a row or a name (`OneWriter`, from the locks). `OneWriter` is what
makes "nobody else changed it" at the commit tell something of the moment of the
flush: from the flush on, nobody could. The edges have an invariant of their own,
`GInv`: what a job was told is about its own candidates and their neighbours
(`AskedOK`), an edge it has linked joins two different concepts that are committed or
its own (`LinksOK`), and a finished job has left the edge of every "related" answer
that did not fold into one concept (`ConnectedOK`, from `Commit`, which waits until no
turn has anything left to link).

`LearnerMemoryProofs` proves `EvidenceSound`, `MemoryTypes`, `CacheEarned`, `Settles`
and `OverrideTheReaders`, for any number of turns, corrections, concepts, papers and
signals, from `WritersAssumption`, `SignalsAssumption`, `MaxSignalsAssumption` and
`NoneIsNoRow`. The first invariant, `IInv`, says that nothing is written before the
agent is done and that "ready" is reached by writing unless the turn knew no concept
(`ProgressOK`), that what is noticed, buffered or written is of the present attempt
(`AttemptOK`), and that what is buffered resolves only what is committed
(`ResolutionOK`): at the moment of pairing a writer has nothing of its own to see,
since observations are written only after the loop. It does not mention what is
derived from the observations, and `EvidenceSound` needs nothing else.

`DataInv` is about what is derived. Each column of a row, committed or flushed, is what
`derive` gives for some of the observations its writer sees (`Derivable`: the columns
of one row may come from different moments, because an UPDATE leaves out those that
equal a stale copy); a flushed row differs from the committed one only where its writer
had a reason (`RowOK`), and the lock says that nobody else has flushed it (`HoldsOK`).
`CacheEarned` and `OverrideTheReaders` follow from it. For `Settles` it also says what
holds as long as nobody else has committed about the concept: the writer derived from
all it sees, and the row and the copy agree (`SettleOK`). The weight and the score are
sums over finite sets, whose laws (`SumStep`, `SumAdd`, `SumMonotone`) are proved from
well-foundedness of the naturals; scores are compared as quotients, so that being
alike is transitive is a fact about proportions (`Proportional`).

`WorkspaceProofs` proves `PageConsistent`, for any papers, sessions and questions and
any number of clicks, from `WorkspaceAssumption`; it starts from a freshly loaded page,
where the run also starts from pages with something asked. The properties of the page
are not inductive, for each rests on what is still in flight. One transcript at most is
waited for, and it is the open session's (`OneRequest`): the cleanup that cancels the
earlier request is what makes this so. What a transcript holds was sent to its session
(`TranscriptsAreTheirSessions`), and no question is sent twice (`KnownIsSent`), so a
session shows its own. Only the shell of the streaming turn spins
(`SpinsWhileStreaming`), and `finally` patches that one. A question sent when nothing
was loading has nothing on its way that could replace its shell, until another session
is opened (`SteadyIsShown`). The rail needs the types of what its listings carry
(`ShelfInv`). Patches are reduced once to what they keep and what they change
(`PatchKeeps`, `PatchChanges`), and the four kinds of events to one lemma
(`EventArrives`).

Every invariant, action property and refinement that a run checks is stated by a
theorem. Only model-checked are `EveryRequestEnds`, `QueuedSettles`, `EveryWriterEnds`,
`EveryTurnEnds`, `EveryDeliveryEnds`, `EveryTransactionEnds`, `ReaderCanAskAgain` and
`SettledIsShown`, because liveness under fairness is beyond the prover, and the two
findings, which are counterexamples. What the graders, the models and the rankings
return stays a choice in the proofs as in the runs.

## 5. Where the code and its texts disagree

Two disagreements have a run: `turns_open_questions` and `papers_concepts`. Others
were met while reading and are noted here with the lines.

- A retry undoes the quiz it asked by setting the session free, so a question that
  another request put to the reader meanwhile is not graded by the next message
  (`agent/runner.py:105`, against `services/turns.py:283`). The reset leaves the
  `active_concept_id` of the undone quiz (`runner.py:85`: it undoes what the attempt
  left behind).
- `processing` and the phases of ingestion are never visible to a reader: the job
  is one transaction (`ingestion/pipeline.py:137`, `architecture.md:803`).
- A second ingestion of a paper deletes the passages its answers cite, and the rows
  of `turn_retrievals` go with them (`pipeline.py:181`, `services/tasks.py:171`).
- A score that a turn derived can leave out a correction committed meanwhile
  (`services/learner_state.py:325`; line 23: the score is computed from the
  observations and the column only caches it).
- Two jobs that fold papers into one concept at once can lose one of them in its
  `source_paper_ids`, which is written back whole (`ingestion/concepts.py:326`); two
  feedbacks that overlap can lose the change of one, for the same reason
  (`services/feedback.py:93`). Both properties say what is not lost.
- A retried canonicalization can make a concept of a name it merged the first time
  (`ingestion/concepts.py:330`, against lines 11 to 13).
- A turn stamps every feedback that is unapplied when it commits, also one given while
  it was composed; the comment says that the stamped feedback composed this turn
  (`services/feedback.py:150`, against `services/turns.py:706`).
- Two turns in flight both pass the gap and both call back
  (`services/callbacks.py:255`, against line 249: enough turns since the last callback).
- A failed listing stops the polling (`usePapers.js:47`, against line 58).
- The history window may begin in the middle of an exchange
  (`services/messages.py:163`, against line 149); its hourly throttle is set before
  a sweep that may be rolled back (`messages.py:214`).
- A retry keeps the agent's own session, in which passages have the numbers of the
  failed attempt (`runner.py:252`).
- Every retrieval row records the turn's first query (`services/turns.py:680`), and
  of "[1]" and "[01]" for one passage a reload lists one.
- Depth 2 of `get_concept_context` adds nothing (`agent/tools.py:281`).
- A question sent while the transcript loads is replaced by the transcript
  (`useConversation.js:91`).

## 6. What is not modelled, and why

- The window of history a turn reads, the read-time decay of a score, the
  sanitising of names, the projection told to the agent: values computed from rows
  the models have, used for wording.
- PDF parsing, sectioning and chunking: sequential heuristics over text that a
  library returns; a unit test reaches what can be wrong with them.
- First-login provisioning: one insert, and a re-read when it loses.
- The batch of `scripts/reindex.py` over several papers; the module has one paper.
- The validation of an uploaded file, the creation and listing of sessions, token
  verification, configuration, storage, static files, wire formats, and the scripts
  that seed, provision and measure: no state that two actors share.
- The memory panel and the feedback buttons of the frontend: fetch and draw.
