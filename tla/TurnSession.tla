----------------------------- MODULE TurnSession -----------------------------
(***************************************************************************)
(* One reading session of the companion and the concurrent turn requests   *)
(* made against it (app/services/turns.py, quizzes.py, messages.py and     *)
(* app/agent/runner.py).                                                   *)
(*                                                                         *)
(* A request is one POST /sessions/{id}/turns.  It runs in one READ        *)
(* COMMITTED transaction: it loads the session row once, works on that     *)
(* in-memory copy while models are awaited, and commits at its end.  What  *)
(* a request has flushed but not committed lives in req[r]; `session`,     *)
(* `turns`, `messages`, `quizzes` and `attempts` are what is committed.    *)
(* PostgreSQL's part is explicit: the row lock an UPDATE of the session    *)
(* takes, the wait of an INSERT on another transaction's uncommitted equal *)
(* key, the integrity error once that key is committed, and the deadlock   *)
(* detector.                                                               *)
(***************************************************************************)
EXTENDS Integers, FiniteSets, FiniteSetsExt

CONSTANTS
  Requests,   \* turn requests; a quiz is named by the request that asked it
  None,       \* no quiz, no lock owner
  QuizGap     \* max(1, round(QUIZ_MIN_TURN_GAP * multiplier)): turns between checks

ASSUME NoneAssumption == None \notin Requests
ASSUME QuizGapAssumption == QuizGap \in Nat \ {0}

VARIABLES
  session,    \* the committed row of the session
  turns,      \* committed `turns`
  messages,   \* committed `messages`
  quizzes,    \* committed `quizzes`, each named by the request that asked it
  attempts,   \* committed `quiz_attempts`
  rowLock,    \* the request whose transaction holds the row lock of `session`
  clock,      \* transactions started so far
  started,    \* now() of each request's transaction, which is its start
  pc,         \* where each request is
  req         \* each request's in-memory copy of the row and uncommitted writes

dbVars == <<session, turns, messages, quizzes, attempts>>
vars == <<dbVars, rowLock, clock, started, pc, req>>

-----------------------------------------------------------------------------
MAX_TRANSIENT_ATTEMPTS == 2

Activity == {"FREE", "EXPLAINING", "QUIZ_PENDING"}
Grade == {"correct", "partial", "incorrect", "ungraded"}   \* ungraded: grade = NULL
Kind == {"answer", "refused", "graded"}
Column == {"activity", "pending", "concept"}

Ended == {"done", "failed"}

(* The states in which a request has a transaction open. *)
Open == {"scoping", "agent", "asking", "grading", "counted", "attempted",
         "composed", "inserting", "holding", "written"}

Label == Open \cup Ended \cup {"idle", "streaming"}

(* A request before it runs, and after its transaction is closed. *)
Fresh ==
  [activity |-> "FREE", pending |-> None, concept |-> None, dirty |-> {},
   asked |-> FALSE, tries |-> 0, kind |-> "answer",
   quiz |-> None, no |-> 0, grade |-> "ungraded", turn |-> 0, message |-> 0]

Init ==
  /\ session = [activity |-> "FREE", pending |-> None, concept |-> None,
                turnCount |-> 0]
  /\ turns = {}
  /\ messages = {}
  /\ quizzes = {}
  /\ attempts = {}
  /\ rowLock = None
  /\ clock = 0
  /\ started = [r \in Requests |-> 0]
  /\ pc = [r \in Requests |-> "idle"]
  /\ req = [r \in Requests |-> Fresh]

-----------------------------------------------------------------------------
(* Mutant: the next ordinal is a count of rows, not the highest plus one. *)
NextOrdinalByCount(rows) == Cardinality(rows)

(* The committed highest ordinal plus one, for turns and for messages alike. *)
NextOrdinal(rows) ==
  IF rows = {} THEN 0 ELSE Max({row.ordinal : row \in rows}) + 1

(* A row of `turns`, of `quiz_attempts`, flushed but not committed. *)
HoldsTurn(r) == pc[r] \in {"holding", "written"}
HoldsAttempt(r) ==
  /\ req[r].kind = "graded"
  /\ pc[r] \in {"attempted", "composed", "inserting", "holding", "written"}

RowFree(r) == rowLock \in {None, r}

AttemptsOf(q) == {a \in attempts : a.quiz = q}

(* Mutants: a unique constraint that was never created. *)
TurnKeyUnconstrained(r) == FALSE
AttemptKeyUnconstrained(r) == FALSE

(* uq_turns_session_id_ordinal, uq_quiz_attempts_quiz_id_attempt_no. *)
TurnKeyTaken(r) == \E t \in turns : t.ordinal = req[r].turn
TurnKeyAwaited(r) ==
  \E o \in Requests \ {r} : HoldsTurn(o) /\ req[o].turn = req[r].turn
AttemptKeyTaken(r) == \E a \in AttemptsOf(req[r].quiz) : a.no = req[r].no
AttemptKeyAwaited(r) ==
  \E o \in Requests \ {r} :
    HoldsAttempt(o) /\ req[o].quiz = req[r].quiz /\ req[o].no = req[r].no

Goto(r, label) == pc' = [pc EXCEPT ![r] = label]

(* Rollback: the error event is sent and nothing of the request remains. *)
Rollback(r) ==
  /\ Goto(r, "failed")
  /\ rowLock' = IF rowLock = r THEN None ELSE rowLock
  /\ req' = [req EXCEPT ![r] = Fresh]
  /\ UNCHANGED <<dbVars, clock, started>>

-----------------------------------------------------------------------------
(* Load the session row; a pending quiz makes the message its answer. *)
CreateTurn(r) ==
  /\ pc[r] = "idle"
  /\ clock' = clock + 1
  /\ started' = [started EXCEPT ![r] = clock + 1]
  /\ LET pending == session.activity = "QUIZ_PENDING"
     IN  /\ req' = [req EXCEPT ![r] =
                      [@ EXCEPT !.activity = session.activity,
                                !.pending = session.pending,
                                !.concept = session.concept,
                                !.kind = IF pending THEN "graded" ELSE "answer",
                                !.quiz = session.pending]]
         /\ Goto(r, IF pending THEN "grading" ELSE "scoping")
  /\ UNCHANGED <<dbVars, rowLock>>

(* The paper is not `ready`: the turn is composed from its status. *)
RefuseUnreadyPaper(r) ==
  /\ pc[r] = "scoping"
  /\ req' = [req EXCEPT ![r].kind = "refused"]
  /\ Goto(r, "composed")
  /\ UNCHANGED <<dbVars, rowLock, clock, started>>

(* Scope, history, prefetch and callback gate are read; the agent starts. *)
RunTurn(r) ==
  /\ pc[r] = "scoping"
  /\ req' = [req EXCEPT ![r].tries = 1]
  /\ Goto(r, "agent")
  /\ UNCHANGED <<dbVars, rowLock, clock, started>>

(* Committed turns begun after the last committed quiz was. *)
GapSatisfied ==
  quizzes # {} =>
    LET last == Max({started[q] : q \in quizzes})
    IN  Cardinality({t \in turns : started[t.by] > last}) >= QuizGap

(* generate_quiz, up to and with the INSERT of the quiz: the gate looks at *)
(* the in-memory copy and at committed rows, then the author model runs.   *)
Gate(r) ==
  /\ pc[r] = "agent"
  /\ req[r].activity # "QUIZ_PENDING"
  /\ GapSatisfied
  /\ Goto(r, "asking")
  /\ UNCHANGED <<dbVars, rowLock, clock, started, req>>

(* The second flush of QuizService.create: the UPDATE of the session row. *)
AskQuiz(r) ==
  /\ pc[r] = "asking"
  /\ RowFree(r)
  /\ rowLock' = r
  /\ req' = [req EXCEPT ![r] =
               [@ EXCEPT !.activity = "QUIZ_PENDING", !.pending = r, !.concept = r,
                         !.dirty = Column, !.asked = TRUE]]
  /\ Goto(r, "agent")
  /\ UNCHANGED <<dbVars, clock, started>>

(* Mutant: the reset puts the activity back and forgets the quiz. *)
ResetActivityOnly(r) ==
  IF req[r].asked
  THEN [req[r] EXCEPT !.activity = "FREE", !.asked = FALSE]
  ELSE req[r]

(* A transient model error: _reset_for_retry, then the loop runs again. *)
ResetForRetry(r) ==
  IF req[r].asked
  THEN [req[r] EXCEPT !.activity = "FREE", !.pending = None, !.asked = FALSE]
  ELSE req[r]

(* Mutant: a transient error is retried for as long as it lasts. *)
RetryTurnUnbounded(r) ==
  /\ pc[r] = "agent"
  /\ req[r].tries <= MAX_TRANSIENT_ATTEMPTS
  /\ req' = [req EXCEPT ![r] = [ResetForRetry(r) EXCEPT !.tries = @ + 1]]
  /\ UNCHANGED <<dbVars, rowLock, clock, started, pc>>

RetryTurn(r) ==
  /\ pc[r] = "agent"
  /\ req[r].tries < MAX_TRANSIENT_ATTEMPTS
  /\ req' = [req EXCEPT ![r] = [ResetForRetry(r) EXCEPT !.tries = @ + 1]]
  /\ UNCHANGED <<dbVars, rowLock, clock, started, pc>>

(* The agent's draft passed the citation gate with some text left. *)
ComposeAnswer(r) ==
  /\ pc[r] = "agent"
  /\ Goto(r, "composed")
  /\ UNCHANGED <<dbVars, rowLock, clock, started, req>>

-----------------------------------------------------------------------------
(* The grader answers or fails twice; committed attempts are counted. *)
GradePending(r) ==
  /\ pc[r] = "grading"
  /\ \E g \in Grade :
       req' = [req EXCEPT ![r] =
                 [@ EXCEPT !.grade = g,
                           !.no = Cardinality(AttemptsOf(req[r].quiz)) + 1]]
  /\ Goto(r, "counted")
  /\ UNCHANGED <<dbVars, rowLock, clock, started>>

(* The INSERT of the attempt, which waits for an uncommitted equal key. *)
InsertAttempt(r) ==
  /\ pc[r] = "counted"
  /\ ~ AttemptKeyTaken(r)
  /\ ~ AttemptKeyAwaited(r)
  /\ Goto(r, "attempted")
  /\ UNCHANGED <<dbVars, rowLock, clock, started, req>>

AttemptConflict(r) ==
  /\ pc[r] = "counted"
  /\ AttemptKeyTaken(r)
  /\ Rollback(r)

(* Mutant: a failed grading leaves the quiz pending. *)
TransitionIfGraded(r) ==
  /\ pc[r] = "attempted"
  /\ RowFree(r)
  /\ rowLock' = r
  /\ req' = [req EXCEPT ![r] =
               IF req[r].grade = "ungraded"
               THEN [@ EXCEPT !.dirty = {"activity", "pending"}]
               ELSE [@ EXCEPT !.pending = None,
                              !.activity = IF req[r].grade = "correct"
                                           THEN "FREE" ELSE "EXPLAINING",
                              !.dirty = {"activity", "pending"}]]
  /\ Goto(r, "composed")
  /\ UNCHANGED <<dbVars, clock, started>>

(* Step 10, the transition: always taken, whatever the grade. *)
Transition(r) ==
  /\ pc[r] = "attempted"
  /\ RowFree(r)
  /\ rowLock' = r
  /\ req' = [req EXCEPT ![r] =
               [@ EXCEPT !.pending = None,
                         !.activity = IF req[r].grade \in {"correct", "ungraded"}
                                      THEN "FREE" ELSE "EXPLAINING",
                         !.dirty = {"activity", "pending"}]]
  /\ Goto(r, "composed")
  /\ UNCHANGED <<dbVars, clock, started>>

-----------------------------------------------------------------------------
(* _persist and its two siblings: ordinal, turn, exchange, commit. *)
ReadOrdinal(r) ==
  /\ pc[r] = "composed"
  /\ req' = [req EXCEPT ![r].turn = NextOrdinal(turns)]
  /\ Goto(r, "inserting")
  /\ UNCHANGED <<dbVars, rowLock, clock, started>>

InsertTurn(r) ==
  /\ pc[r] = "inserting"
  /\ ~ TurnKeyTaken(r)
  /\ ~ TurnKeyAwaited(r)
  /\ Goto(r, "holding")
  /\ UNCHANGED <<dbVars, rowLock, clock, started, req>>

(* Mutant: the integrity error is not turned into the end of the request. *)
TurnConflictUnhandled(r) == FALSE

TurnConflict(r) ==
  /\ pc[r] = "inserting"
  /\ TurnKeyTaken(r)
  /\ Rollback(r)

AppendExchange(r) ==
  /\ pc[r] = "holding"
  /\ req' = [req EXCEPT ![r].message = NextOrdinal(messages)]
  /\ Goto(r, "written")
  /\ UNCHANGED <<dbVars, rowLock, clock, started>>

(* Mutant: both messages are given the ordinal read before either is flushed. *)
ExchangeUnflushed(r) ==
  {[by |-> r, role |-> "user", ordinal |-> req[r].message],
   [by |-> r, role |-> "assistant", ordinal |-> req[r].message]}

Exchange(r) ==
  {[by |-> r, role |-> "user", ordinal |-> req[r].message],
   [by |-> r, role |-> "assistant", ordinal |-> req[r].message + 1]}

(* Mutant: the turn count is the ordinal of the last turn. *)
WrittenRowCountedShort(r) ==
  [activity |-> IF "activity" \in req[r].dirty
                THEN req[r].activity ELSE session.activity,
   pending |-> IF "pending" \in req[r].dirty
               THEN req[r].pending ELSE session.pending,
   concept |-> IF "concept" \in req[r].dirty
               THEN req[r].concept ELSE session.concept,
   turnCount |-> req[r].turn]

(* The columns flushed since the load replace the committed ones. *)
WrittenRow(r) ==
  [activity |-> IF "activity" \in req[r].dirty
                THEN req[r].activity ELSE session.activity,
   pending |-> IF "pending" \in req[r].dirty
               THEN req[r].pending ELSE session.pending,
   concept |-> IF "concept" \in req[r].dirty
               THEN req[r].concept ELSE session.concept,
   turnCount |-> req[r].turn + 1]

Commit(r) ==
  /\ pc[r] = "written"
  /\ RowFree(r)
  /\ session' = WrittenRow(r)
  /\ turns' = turns \cup
       {[by |-> r, ordinal |-> req[r].turn, kind |-> req[r].kind]}
  /\ messages' = messages \cup Exchange(r)
  /\ quizzes' = quizzes \cup (IF req[r].asked THEN {r} ELSE {})
  /\ attempts' = attempts \cup
       (IF req[r].kind = "graded"
        THEN {[quiz |-> req[r].quiz, no |-> req[r].no,
               grade |-> req[r].grade, by |-> r]}
        ELSE {})
  /\ rowLock' = None
  /\ req' = [req EXCEPT ![r] = Fresh]
  /\ Goto(r, "streaming")
  /\ UNCHANGED <<clock, started>>

(* Step 12: the verified answer and the done event. *)
Stream(r) ==
  /\ pc[r] = "streaming"
  /\ Goto(r, "done")
  /\ UNCHANGED <<dbVars, rowLock, clock, started, req>>

-----------------------------------------------------------------------------
(* TurnFailed, any other exception, or the client gone before the commit. *)
FailTurn(r) ==
  /\ pc[r] \in Open
  /\ Rollback(r)

(* Holder of the row lock waits for an ordinal whose holder waits for the row. *)
Deadlocked(a, b) ==
  /\ rowLock = a
  /\ pc[a] = "inserting"
  /\ pc[b] = "written"
  /\ req[a].turn = req[b].turn
  /\ a # b

DeadlockVictim(r) ==
  /\ \E o \in Requests : Deadlocked(r, o) \/ Deadlocked(o, r)
  /\ Rollback(r)

(* prune_expired: rows of transactions started before the cutoff, which is *)
(* MESSAGE_RETENTION_DAYS ago and so before every request in flight.       *)
PruneExpired ==
  \E cutoff \in 1 .. clock :
    /\ \A r \in Requests : pc[r] \notin Ended \cup {"idle"} => started[r] > cutoff
    /\ \E m \in messages : started[m.by] <= cutoff
    /\ messages' = {m \in messages : started[m.by] > cutoff}
    /\ UNCHANGED <<session, turns, quizzes, attempts, rowLock, clock, started,
                   pc, req>>

(* Every request has ended and the session is left alone. *)
Rest ==
  /\ \A r \in Requests : pc[r] \in Ended
  /\ UNCHANGED vars

-----------------------------------------------------------------------------
AgentStep(r) ==
  \/ RunTurn(r) \/ Gate(r) \/ AskQuiz(r) \/ RetryTurn(r) \/ ComposeAnswer(r)

GradingStep(r) ==
  \/ GradePending(r) \/ InsertAttempt(r) \/ AttemptConflict(r) \/ Transition(r)

PersistStep(r) ==
  \/ ReadOrdinal(r) \/ InsertTurn(r) \/ TurnConflict(r) \/ AppendExchange(r)
  \/ Commit(r) \/ Stream(r)

(* What the server does of its own accord with a request it has accepted. *)
ServerStep(r) ==
  \/ RefuseUnreadyPaper(r) \/ AgentStep(r) \/ GradingStep(r) \/ PersistStep(r)
  \/ DeadlockVictim(r)

Next ==
  \/ \E r \in Requests : CreateTurn(r) \/ ServerStep(r) \/ FailTurn(r)
  \/ PruneExpired
  \/ Rest

Spec == Init /\ [][Next]_vars

(* Requests arrive and clients leave as they please; an accepted request is *)
(* run by the event loop, its model calls return or raise, and PostgreSQL   *)
(* detects deadlocks.                                                       *)
FairSpec == Spec /\ \A r \in Requests : WF_vars(ServerStep(r))

-----------------------------------------------------------------------------
(* Types of the committed rows and of the per-request state. *)
Requested == Requests \cup {None}

Copy ==
  [activity : Activity, pending : Requested, concept : Requested,
   dirty : SUBSET Column, asked : BOOLEAN, tries : 0 .. MAX_TRANSIENT_ATTEMPTS,
   kind : Kind, quiz : Requested, no : Nat, grade : Grade,
   turn : Nat, message : Nat]

TypeOK ==
  /\ session \in [activity : Activity, pending : Requested,
                  concept : Requested, turnCount : Nat]
  /\ turns \subseteq [by : Requests, ordinal : Nat, kind : Kind]
  /\ messages \subseteq [by : Requests, role : {"user", "assistant"}, ordinal : Nat]
  /\ quizzes \subseteq Requests
  /\ attempts \subseteq [quiz : Requests, no : Nat \ {0}, grade : Grade, by : Requests]
  /\ IsFiniteSet(attempts)
  /\ rowLock \in Requested
  /\ clock \in Nat
  /\ started \in [Requests -> Nat]
  /\ pc \in [Requests -> Label]
  /\ req \in [Requests -> Copy]

(* The transcript of a session has no hole and no fork: the committed turn *)
(* ordinals are exactly 0 .. turn_count - 1, one turn each, however many   *)
(* requests ran at once and however many of them were rolled back          *)
(* (turns.py _next_ordinal, _persist; uq_turns_session_id_ordinal).        *)
TurnsGapless ==
  /\ {t.ordinal : t \in turns} = 0 .. session.turnCount - 1
  /\ \A t, u \in turns : t.ordinal = u.ordinal => t = u

(* A question is never recorded without its answer, the answer follows it  *)
(* directly, and no other request's message shares an ordinal with either, *)
(* with retention sweeps running in between (messages.py append_exchange:  *)
(* "a session's history can never contain a question without its answer"). *)
ExchangesWhole ==
  /\ \A m \in messages :
       \E n \in messages :
         /\ n.by = m.by
         /\ IF m.role = "user"
            THEN n.role = "assistant" /\ n.ordinal = m.ordinal + 1
            ELSE n.role = "user" /\ m.ordinal = n.ordinal + 1
  /\ \A m, n \in messages : m.ordinal = n.ordinal => m = n

(* The transcript a reload shows is in the order of the turns, and every   *)
(* message in it belongs to a committed turn.                              *)
TranscriptFollowsTurns ==
  \A m \in messages :
    /\ \E t \in turns : t.by = m.by
    /\ \A n \in messages : \A t, u \in turns :
         (t.by = m.by /\ u.by = n.by /\ t.ordinal < u.ordinal)
           => m.ordinal < n.ordinal

(* CHECK quiz_pending_consistency never fires, on the committed row nor on *)
(* any request's flushed copy of it, and a pending quiz is one that exists *)
(* (committed, or uncommitted in the same transaction).                    *)
QuizPendingConsistency ==
  /\ (session.activity = "QUIZ_PENDING") <=> (session.pending # None)
  /\ session.pending \in quizzes \cup {None}
  /\ \A r \in Requests :
       /\ (req[r].activity = "QUIZ_PENDING") <=> (req[r].pending # None)
       /\ req[r].pending \in quizzes \cup {None} \cup (IF req[r].asked THEN {r} ELSE {})

(* Attempts at a quiz are numbered 1, 2, ... without a gap or a repeat,    *)
(* and only a quiz that was asked has attempts.                            *)
AttemptsNumbered ==
  \A q \in Requests :
    LET of == AttemptsOf(q)
    IN  /\ {a.no : a \in of} = 1 .. Cardinality(of)
        /\ of # {} => q \in quizzes

(* A question the session still waits on has not been graded: no order of   *)
(* stale copies and commits brings an answered quiz back.                   *)
PendingUnanswered ==
  session.pending # None => AttemptsOf(session.pending) = {}

-----------------------------------------------------------------------------
(* The committed rows, read as the log and the transcript of SessionLog. *)
TurnLog ==
  [i \in 1 .. session.turnCount |->
     CHOOSE r \in Requests : \E t \in turns : t.by = r /\ t.ordinal = i - 1]

Kept ==
  {r \in Requests : \E m, n \in messages :
     /\ m.by = r /\ n.by = r
     /\ m.role = "user" /\ n.role = "assistant"
     /\ n.ordinal = m.ordinal + 1}

Log == INSTANCE SessionLog WITH log <- TurnLog, kept <- Kept

(* Whatever the interleaving of concurrent requests, retries, rollbacks,    *)
(* lock waits and deadlocks, what is committed is a serial log: a turn and  *)
(* its exchange appear together, at the end, once (turns.py:396 "persist,   *)
(* in one transaction").                                                    *)
SerialLog == Log!Spec

(* A request the server accepted ends: with its answer streamed, or with an *)
(* error event; never stuck behind the locks of the others.                 *)
EveryRequestEnds ==
  \A r \in Requests : pc[r] \in Open \cup {"streaming"} ~> pc[r] \in Ended

-----------------------------------------------------------------------------
(* What the code says of itself and concurrent or retried requests break.   *)

(* tests/test_quizzes.py:160: "Two open questions at once would make the    *)
(* routing ambiguous" - the gate refuses a second one.                      *)
AtMostOneOpenQuestion ==
  \A p, q \in quizzes : AttemptsOf(p) = {} /\ AttemptsOf(q) = {} => p = q

=============================================================================
