----------------------------- MODULE LearnerMemory -----------------------------
(***************************************************************************)
(* One reader's learner memory: the concepts, the append-only observations *)
(* about them, and the transactions that write both (app/services/         *)
(* signals.py, learner_state.py, turns.py, app/routers/memory.py).         *)
(*                                                                         *)
(* A writer is a turn of one of the reader's sessions, or one PATCH of     *)
(* /memory/concepts/{id}; each runs in one READ COMMITTED transaction.  Two *)
(* turns of the same session exclude each other by their ordinal           *)
(* (TurnSession), so the turns here belong to different sessions.  What a  *)
(* writer has flushed but not committed is in w[t].own and w[t].rows;      *)
(* `concepts` and `observations` are what is committed.  An UPDATE of a    *)
(* concept holds its row lock until the end of the transaction, and the    *)
(* INSERT of a concept makes another INSERT of that name wait.             *)
(***************************************************************************)
EXTENDS LearnerState, Sequences

CONSTANTS
  Turns, Corrections,   \* the writers
  Concepts,             \* concept names
  Papers,
  Styles,               \* the styles in play, None when the agent names none
  Noticed, Graded,      \* what the agent may report, what a grading may yield
  MaxSignals            \* bound: signals buffered by one attempt of a turn

Writers == Turns \cup Corrections

ASSUME WritersAssumption ==
  /\ Turns \cap Corrections = {}
  /\ None \notin Writers \cup Concepts \cup Papers
ASSUME SignalsAssumption ==
  /\ Noticed \subseteq SignalType
  /\ Graded \subseteq {"quiz_correct", "quiz_partial", "quiz_incorrect"}
ASSUME MaxSignalsAssumption == MaxSignals \in Nat

VARIABLES
  concepts,      \* the committed row of each concept, None while there is none
  observations,  \* the committed observations
  rowLock,       \* for each concept, the writer that holds its row
  clock,         \* transactions started so far
  pc,            \* where each writer is
  w              \* each writer's local variables and uncommitted writes

vars == <<concepts, observations, rowLock, clock, pc, w>>

-----------------------------------------------------------------------------
MAX_TRANSIENT_ATTEMPTS == 2

Ended == {"idle", "done", "failed"}

(* The derived columns of a concept nothing is known about. *)
Unknown == [score |-> [points |-> 0, weight |-> 0], confidence |-> 0,
            count |-> 0, style |-> None, last |-> 0]

NewConcept(papers) == [view |-> Unknown, sources |-> papers, override |-> None]

NoSignal == [concept |-> None, signal |-> "reinforcement", style |-> None,
             resolves |-> None, attempt |-> 0]

(* A writer before it runs. *)
Fresh ==
  [kind |-> "agent", at |-> 0, paper |-> None, seen |-> None, attempt |-> 1,
   now |-> NoSignal,      \* the signal being prepared
   writing |-> FALSE,     \* `record`: it is written as soon as it is prepared
   buffer |-> <<>>,       \* pending_signals
   own |-> {}, rows |-> [c \in Concepts |-> None],
   copy |-> NewConcept({}),   \* the row of now.concept as it was last loaded
   saw |-> {},            \* history: what was committed about it when it was read
   derived |-> Unknown, again |-> FALSE]

(* Concepts come from a paper's analysis or from an earlier conversation. *)
Init ==
  /\ concepts \in [Concepts -> {None} \cup {NewConcept(p) : p \in SUBSET Papers}]
  /\ observations = {}
  /\ rowLock = [c \in Concepts |-> None]
  /\ clock = 0
  /\ pc = [t \in Writers |-> "idle"]
  /\ w = [t \in Writers |-> Fresh]

-----------------------------------------------------------------------------
(* What the queries of a writer see. *)
Row(t, c) == IF w[t].rows[c] # None THEN w[t].rows[c] ELSE concepts[c]

(* Mutant: rows another transaction may still roll back are read. *)
VisibleUncommitted(t) == observations \cup UNION {w[o].own : o \in Writers}

Visible(t) == observations \cup w[t].own

About(c, obs) == {o \in obs : o.concept = c}
Id(o) == <<o.by, o.no>>

(* _open_struggle: the latest struggle nothing visible resolves. *)
OpenStruggles(t, c) ==
  LET resolved == {o.resolves : o \in Visible(t)}
      open == {o \in About(c, Visible(t)) :
                 o.signal \in StruggleSignals /\ Id(o) \notin resolved}
  IN  {o \in open : \A p \in open : p.at <= o.at}

RowFree(t, c) == rowLock[c] \in {None, t}
Lock(t, c) == rowLock' = [rowLock EXCEPT ![c] = t]

Creates(t, c) == concepts[c] = None /\ w[t].rows[c] # None

Goto(t, label) == pc' = [pc EXCEPT ![t] = label]
Set(t, record) == w' = [w EXCEPT ![t] = record]

-----------------------------------------------------------------------------
(* The beginning of each kind of transaction. *)

(* A turn: prefetch fills memory_seen, whose first concept is kept here. *)
BeginTurn(t) ==
  /\ pc[t] = "idle"
  /\ clock' = clock + 1
  /\ \E paper \in Papers, seen \in {c \in Concepts : concepts[c] # None} \cup {None} :
       Set(t, [Fresh EXCEPT !.at = clock + 1, !.paper = paper, !.seen = seen])
  /\ Goto(t, "agent")
  /\ UNCHANGED <<concepts, observations, rowLock>>

(* A turn that grades a quiz: its signal is recorded after the grading. *)
BeginGrading(t) ==
  /\ pc[t] = "idle"
  /\ clock' = clock + 1
  /\ \E paper \in Papers, signal \in Graded,
        c \in {x \in Concepts : concepts[x] # None} :
       Set(t, [Fresh EXCEPT !.kind = "graded", !.at = clock + 1, !.paper = paper,
                            !.now = [NoSignal EXCEPT !.concept = c, !.signal = signal],
                            !.writing = TRUE])
  /\ Goto(t, "recall")
  /\ UNCHANGED <<concepts, observations, rowLock>>

(* A correction loads the concept it is about and keeps that copy. *)
BeginCorrection(t) ==
  /\ pc[t] = "idle"
  /\ clock' = clock + 1
  /\ \E c \in {x \in Concepts : concepts[x] # None},
        signal \in {"user_stated_known", "user_stated_unknown"} :
       Set(t, [Fresh EXCEPT !.kind = "correction", !.at = clock + 1,
                            !.now = [NoSignal EXCEPT !.concept = c, !.signal = signal],
                            !.writing = TRUE,
                            !.copy = concepts[c],
                            !.saw = About(c, observations)])
  /\ Goto(t, "override")
  /\ UNCHANGED <<concepts, observations, rowLock>>

(* The override is flushed first, unless it is the number already loaded; it *)
(* is named by the signal it yields.                                         *)
Override(t) ==
  LET c == w[t].now.concept
  IN  /\ pc[t] = "override"
      /\ \/ /\ RowFree(t, c)
            /\ Lock(t, c)
            /\ Set(t, [w[t] EXCEPT !.copy.override = w[t].now.signal,
                 !.rows[c] = [concepts[c] EXCEPT !.override = w[t].now.signal]])
         \/ /\ w[t].copy.override = w[t].now.signal
            /\ UNCHANGED <<rowLock, w>>
      /\ Goto(t, "pair")
      /\ UNCHANGED <<concepts, observations, clock>>

-----------------------------------------------------------------------------
(* SignalService.prepare. *)

(* The agent reports a signal.  Any type of the vocabulary is accepted. *)
Notice(t) ==
  /\ pc[t] = "agent"
  /\ Len(w[t].buffer) < MaxSignals
  /\ \E c \in Concepts, signal \in Noticed, style \in Styles :
       Set(t, [w[t] EXCEPT !.now = [NoSignal EXCEPT !.concept = c, !.signal = signal,
                                      !.style = style, !.attempt = w[t].attempt]])
  /\ Goto(t, "recall")
  /\ UNCHANGED <<concepts, observations, rowLock, clock>>

(* _recall_or_create: a known concept may gain the turn's paper. *)
Recall(t) ==
  LET c == w[t].now.concept
  IN  /\ pc[t] = "recall"
      /\ IF Row(t, c) = None
         THEN Goto(t, "create") /\ UNCHANGED w
         ELSE IF w[t].paper \in Row(t, c).sources
         THEN Goto(t, "pair") /\ UNCHANGED w
         ELSE Goto(t, "grow") /\ Set(t, [w[t] EXCEPT !.copy = Row(t, c)])
      /\ UNCHANGED <<concepts, observations, rowLock, clock>>

(* The list as it was loaded, with the paper appended, is flushed. *)
Grow(t) ==
  LET c == w[t].now.concept
  IN  /\ pc[t] = "grow"
      /\ RowFree(t, c)
      /\ Lock(t, c)
      /\ Set(t, [w[t] EXCEPT !.copy = Fresh.copy, !.rows[c] =
           [Row(t, c) EXCEPT !.sources = w[t].copy.sources \cup {w[t].paper}]])
      /\ Goto(t, "pair")
      /\ UNCHANGED <<concepts, observations, clock>>

(* uq_concepts_user_id_normalized_name: the INSERT waits for another one. *)
NameAwaited(t, c) == \E o \in Writers \ {t} : Creates(o, c)

CreateConcept(t) ==
  LET c == w[t].now.concept
  IN  /\ pc[t] = "create"
      /\ concepts[c] = None
      /\ ~ NameAwaited(t, c)
      /\ Set(t, [w[t] EXCEPT !.rows[c] = NewConcept({w[t].paper})])
      /\ Goto(t, "pair")
      /\ UNCHANGED <<concepts, observations, rowLock, clock>>

(* The resolution is paired; the signal is buffered, or written at once. *)
Pair(t) ==
  LET signal == w[t].now
      open == OpenStruggles(t, signal.concept)
      resolves == IF signal.signal \notin ResolvingSignals \/ open = {} THEN {None}
                  ELSE {Id(o) : o \in open}
  IN  /\ pc[t] = "pair"
      /\ \E r \in resolves :
           Set(t, [w[t] EXCEPT !.buffer = Append(@, [signal EXCEPT !.resolves = r]),
                               !.now = NoSignal])
      /\ Goto(t, IF w[t].writing THEN "write" ELSE "agent")
      /\ UNCHANGED <<concepts, observations, rowLock, clock>>

-----------------------------------------------------------------------------
(* The end of the agent's loop. *)

(* Mutant: the retry keeps the buffer. *)
RetryKeeping(t) ==
  /\ pc[t] = "agent"
  /\ w[t].attempt < MAX_TRANSIENT_ATTEMPTS
  /\ Set(t, [w[t] EXCEPT !.attempt = @ + 1])
  /\ UNCHANGED <<concepts, observations, rowLock, clock, pc>>

(* Mutant: the attempts are not counted against their limit. *)
RetryForever(t) ==
  /\ pc[t] = "agent"
  /\ w[t].attempt <= MAX_TRANSIENT_ATTEMPTS
  /\ Set(t, [w[t] EXCEPT !.attempt = @ + 1, !.buffer = <<>>])
  /\ UNCHANGED <<concepts, observations, rowLock, clock, pc>>

(* _reset_for_retry: what the failed attempt buffered is dropped; a concept *)
(* it created and a paper it added stay flushed.                            *)
Retry(t) ==
  /\ pc[t] = "agent"
  /\ w[t].attempt < MAX_TRANSIENT_ATTEMPTS
  /\ Set(t, [w[t] EXCEPT !.attempt = @ + 1, !.buffer = <<>>])
  /\ UNCHANGED <<concepts, observations, rowLock, clock, pc>>

(* The turn is inserted; its signals follow, and the backstop if it has none. *)
Persist(t) ==
  /\ pc[t] = "agent"
  /\ \/ /\ w[t].buffer # <<>>
        /\ Goto(t, "write")
        /\ UNCHANGED w
     \/ /\ w[t].buffer = <<>> /\ w[t].seen = None
        /\ Goto(t, "ready")
        /\ UNCHANGED w
     \/ /\ w[t].buffer = <<>> /\ w[t].seen # None
        /\ Set(t, [w[t] EXCEPT !.writing = TRUE,
             !.now = [NoSignal EXCEPT !.concept = w[t].seen, !.attempt = w[t].attempt]])
        /\ Goto(t, "recall")
  /\ UNCHANGED <<concepts, observations, rowLock, clock>>

-----------------------------------------------------------------------------
(* SignalService.commit and recompute. *)

(* The observations of a concept, read after the new one was flushed; and a *)
(* mutant that reads them before.                                           *)
EvidenceBefore(t, row) == About(row.concept, Visible(t))
Evidence(t, row) == About(row.concept, Visible(t) \cup {row})

(* The observation is inserted and the concept's evidence read again. *)
WriteSignal(t) ==
  LET signal == Head(w[t].buffer)
      row == [by |-> t, no |-> Cardinality(w[t].own) + 1, at |-> w[t].at,
              concept |-> signal.concept, signal |-> signal.signal,
              style |-> signal.style, resolves |-> signal.resolves,
              attempt |-> signal.attempt]
  IN  /\ pc[t] = "write"
      /\ \E d \in Derive(Evidence(t, row)) :
           Set(t, [w[t] EXCEPT !.own = @ \cup {row}, !.now = signal,
                               !.buffer = Tail(@), !.derived = d,
                               !.saw = IF t \in Corrections THEN @
                                       ELSE About(signal.concept, observations)])
      /\ Goto(t, IF w[t].kind = "correction" THEN "update" ELSE "load")
      /\ UNCHANGED <<concepts, observations, rowLock, clock>>

(* session.get(Concept): no copy is left alive in a turn, so it is loaded. *)
LoadConcept(t) ==
  LET c == w[t].now.concept
  IN  /\ pc[t] = "load"
      /\ Set(t, [w[t] EXCEPT !.copy = Row(t, c)])
      /\ Goto(t, "update")
      /\ UNCHANGED <<concepts, observations, rowLock, clock>>

(* After an update: the next signal, a correction's second recompute, or the *)
(* commit.                                                                   *)
AfterUpdate(t) ==
  CASE w[t].buffer # <<>> -> "write"
    [] w[t].kind = "correction" /\ ~ w[t].again -> "recompute"
    [] OTHER -> "ready"

(* The columns that differ from the loaded copy are flushed. *)
Dirty(t) == Differing(w[t].copy.view, w[t].derived)

(* Mutant: the UPDATE writes every column of the copy. *)
FlushedWhole(t) == [w[t].copy EXCEPT !.view = w[t].derived]

Flushed(t) ==
  LET row == Row(t, w[t].now.concept)
  IN  [row EXCEPT !.view = [col \in Column |->
         IF col \in Dirty(t) THEN w[t].derived[col] ELSE row.view[col]]]

(* A correction keeps its copy alive, a turn does not. *)
CopyAfter(t) == IF t \in Corrections
                THEN [w[t].copy EXCEPT !.view = w[t].derived] ELSE Fresh.copy

UpdateConcept(t) ==
  LET c == w[t].now.concept
  IN  /\ pc[t] = "update"
      /\ \/ /\ Dirty(t) = {}
            /\ Set(t, [w[t] EXCEPT !.copy = CopyAfter(t), !.derived = Unknown])
            /\ UNCHANGED rowLock
         \/ /\ Dirty(t) # {}
            /\ RowFree(t, c)
            /\ Lock(t, c)
            /\ Set(t, [w[t] EXCEPT !.copy = CopyAfter(t), !.derived = Unknown,
                                   !.rows[c] = Flushed(t)])
      /\ Goto(t, AfterUpdate(t))
      /\ UNCHANGED <<concepts, observations, clock>>

Recompute(t) ==
  /\ pc[t] = "recompute"
  /\ \E d \in Derive(About(w[t].now.concept, Visible(t))) :
       Set(t, [w[t] EXCEPT !.derived = d, !.again = TRUE])
  /\ Goto(t, "update")
  /\ UNCHANGED <<concepts, observations, rowLock, clock>>

-----------------------------------------------------------------------------
(* The end of a transaction. *)
Release(t) ==
  rowLock' = [c \in Concepts |-> IF rowLock[c] = t THEN None ELSE rowLock[c]]

Commit(t) ==
  /\ pc[t] = "ready"
  /\ observations' = observations \cup w[t].own
  /\ concepts' = [c \in Concepts |-> Row(t, c)]
  /\ Release(t)
  /\ Set(t, [Fresh EXCEPT !.kind = w[t].kind, !.seen = w[t].seen,
                          !.attempt = w[t].attempt])
  /\ Goto(t, "done")
  /\ UNCHANGED clock

Rollback(t) ==
  /\ Release(t)
  /\ Set(t, Fresh)
  /\ Goto(t, "failed")
  /\ UNCHANGED <<concepts, observations, clock>>

(* The model is unreachable, the answer is empty, the client went away. *)
Fail(t) == pc[t] \notin Ended /\ Rollback(t)

(* The name was committed by another writer: an integrity error. *)
NameConflict(t) ==
  /\ pc[t] = "create"
  /\ concepts[w[t].now.concept] # None
  /\ Rollback(t)

(* PostgreSQL's detector ends a transaction that waits in a circle. *)
WaitsFor(t, o) ==
  LET c == w[t].now.concept
  IN  /\ t # o
      /\ \/ /\ pc[t] \in {"override", "grow"}
            /\ rowLock[c] = o
         \/ /\ pc[t] = "update"
            /\ Dirty(t) # {}
            /\ rowLock[c] = o
         \/ pc[t] = "create" /\ Creates(o, c)

Waits(t) == \E o \in Writers : WaitsFor(t, o)

InCircle(t) == Waits(t) /\
  \E S \in SUBSET {o \in Writers : Waits(o)} :
    /\ t \in S
    /\ \A x \in S : (\E y \in S : WaitsFor(x, y)) /\ (\E y \in S : WaitsFor(y, x))

(* Mutant: the victim's statement alone is undone, and tried again. *)
StatementRetried(t) == InCircle(t) /\ UNCHANGED vars

DeadlockDetected(t) == InCircle(t) /\ Rollback(t)

-----------------------------------------------------------------------------
Prepare(t) == Recall(t) \/ Grow(t) \/ CreateConcept(t) \/ Pair(t)
Write(t) == WriteSignal(t) \/ LoadConcept(t) \/ UpdateConcept(t) \/ Recompute(t)

(* What the server does next for a writer that has begun. *)
ServerStep(t) ==
  \/ Override(t)
  \/ Prepare(t)
  \/ Persist(t)
  \/ Write(t)
  \/ Commit(t)
  \/ NameConflict(t)
  \/ DeadlockDetected(t)

Step(t) ==
  \/ t \in Turns /\ (BeginTurn(t) \/ BeginGrading(t))
  \/ t \in Corrections /\ BeginCorrection(t)
  \/ Notice(t)
  \/ Retry(t)
  \/ ServerStep(t)
  \/ Fail(t)

Finished == \A t \in Writers : pc[t] \in Ended

Next == (\E t \in Writers : Step(t)) \/ (Finished /\ UNCHANGED vars)

Spec == Init /\ [][Next]_vars

(* A request that has begun is not left alone; nobody has to begin one. *)
FairSpec == Spec /\ \A t \in Writers : WF_vars(ServerStep(t))

-----------------------------------------------------------------------------
(* Properties. *)

Signal == [concept : Concepts \cup {None}, signal : SignalType,
           style : Styles \cup {None}, resolves : {None} \cup (Writers \X Nat),
           attempt : 0..MAX_TRANSIENT_ATTEMPTS]

View == [score : [points : Nat, weight : Nat], confidence : Nat, count : Nat,
         style : Styles \cup {None}, last : Nat]

ConceptRow == [view : View, sources : SUBSET Papers,
               override : {None, "user_stated_known", "user_stated_unknown"}]

ASSUME NoneIsNoRow == None \notin ConceptRow

Observation == [by : Writers, no : Nat \ {0}, at : Nat, concept : Concepts,
                signal : SignalType, style : Styles \cup {None},
                resolves : {None} \cup (Writers \X Nat),
                attempt : 0..MAX_TRANSIENT_ATTEMPTS]

Local == [kind : {"agent", "graded", "correction"}, at : Nat,
          paper : Papers \cup {None}, seen : Concepts \cup {None},
          attempt : 1..MAX_TRANSIENT_ATTEMPTS, now : Signal, writing : BOOLEAN,
          buffer : Seq(Signal), own : SUBSET Observation,
          rows : [Concepts -> ConceptRow \cup {None}], copy : ConceptRow,
          saw : SUBSET Observation, derived : View, again : BOOLEAN]

Label == Ended \cup {"agent", "recall", "grow", "create", "pair", "override",
                     "write", "load", "update", "recompute", "ready"}

(* Every variable has its type. *)
TypeOK ==
  /\ concepts \in [Concepts -> ConceptRow \cup {None}]
  /\ observations \subseteq Observation
  /\ rowLock \in [Concepts -> Writers \cup {None}]
  /\ clock \in Nat
  /\ pc \in [Writers -> Label]
  /\ w \in [Writers -> Local]

(* Each derived column of a concept is what `derive` gives for some of the   *)
(* committed observations: never for one that was buffered by a turn that    *)
(* failed, or flushed by a transaction that was rolled back.                 *)
CacheIsCommittedEvidence ==
  \A c \in Concepts : concepts[c] # None =>
    LET derivable == UNION {Derive(S) : S \in SUBSET About(c, observations)}
    IN  Column \subseteq UNION {Column \ Differing(concepts[c].view, d) :
                                 d \in derivable}

(* The backstop's rows move the decay clock and nothing else: the confidence *)
(* stored for a concept is carried by the other committed observations.      *)
ConfidenceIsEarned ==
  \A c \in Concepts : concepts[c] # None =>
    concepts[c].view.confidence <=
      TotalWeight({o \in About(c, observations) : o.signal # "reinforcement"})

(* What is stored for a concept was earned by committed evidence.           *)
CacheIsEarned == CacheIsCommittedEvidence /\ ConfidenceIsEarned

(* What a turn leaves in memory was noticed by the attempt that answered it. *)
EvidenceOfTheAnswer ==
  \A o \in observations :
    o.by \in Turns /\ w[o.by].kind = "agent" => o.attempt = w[o.by].attempt

(* A turn about a known concept leaves an observation, whatever the agent    *)
(* forgot and however often it was retried.                                  *)
MemoryAccumulates ==
  \A t \in Turns :
    pc[t] = "done" /\ w[t].kind = "agent" /\ w[t].seen # None =>
      \E o \in observations : o.by = t

(* A resolution names a struggle with the same concept which an earlier      *)
(* transaction committed.                                                    *)
ResolutionsFollowStruggles ==
  \A o \in observations : o.resolves # None =>
    \E p \in observations :
      /\ Id(p) = o.resolves
      /\ p.by # o.by
      /\ p.concept = o.concept
      /\ p.signal \in StruggleSignals

(* The evidence: none of a failed attempt, some of every turn, resolutions  *)
(* of earlier struggles.                                                    *)
EvidenceIsSound ==
  EvidenceOfTheAnswer /\ MemoryAccumulates /\ ResolutionsFollowStruggles

Commits(t) == pc[t] = "ready" /\ pc'[t] = "done"

(* However stale a concept's columns have become, a writer that no other     *)
(* commit about the concept disturbed between its reading and its own commit *)
(* leaves them in agreement with all the evidence.                           *)
UndisturbedWriterSettles ==
  [][\A t \in Writers : LET c == w[t].now.concept IN
       Commits(t) /\ w[t].own # {} /\ w[t].saw = About(c, observations) =>
         Agrees(concepts'[c].view, About(c, observations'))]_vars

(* The override of a concept changes only in the commit of a correction of   *)
(* that concept, to the value that the reader gave.                          *)
OverrideIsTheReaders ==
  [][\A c \in Concepts :
       concepts[c] # None /\ concepts'[c].override # concepts[c].override =>
         \E t \in Corrections : /\ Commits(t)
                                /\ w[t].now.concept = c
                                /\ concepts'[c].override = w[t].now.signal]_vars

(* A writer that has begun ends, also when writers wait for one another's    *)
(* concepts.                                                                 *)
EveryWriterEnds ==
  \A t \in Writers : pc[t] \notin Ended ~> pc[t] \in Ended
=============================================================================
