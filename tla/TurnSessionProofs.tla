-------------------------- MODULE TurnSessionProofs --------------------------
(***************************************************************************)
(* What TurnSession guarantees for every set of requests and every quiz    *)
(* gap.  The invariants of TurnSession are not inductive: the proofs carry *)
(* what each request in flight knows (Local, QuizLocal, TurnLocal,         *)
(* AttemptLocal, MessageLocal) beside what is committed.                   *)
(***************************************************************************)
EXTENDS TurnSession, Sequences, FiniteSetTheorems, WellFoundedInduction, TLAPS

-----------------------------------------------------------------------------
(* What is known of a request by itself. *)
Local(r) ==
  /\ pc[r] \notin Open => req[r] = Fresh
  /\ pc[r] \in {"scoping", "agent", "asking"} => req[r].kind = "answer"
  /\ pc[r] \in {"grading", "counted", "attempted"} => req[r].kind = "graded"
  /\ pc[r] \in {"scoping", "grading", "counted", "attempted"} => req[r].dirty = {}
  /\ req[r].asked => /\ req[r].pending = r
                     /\ req[r].dirty = Column
                     /\ req[r].kind = "answer"
  /\ req[r].dirty # {} => /\ {"activity", "pending"} \subseteq req[r].dirty
                          /\ req[r].asked \/ req[r].pending = None
  /\ pc[r] # "attempted" /\ HoldsAttempt(r) => req[r].dirty # {}
  /\ pc[r] = "counted" \/ HoldsAttempt(r) => req[r].no # 0

(* A committed quiz was asked by a request that is over; a grading grades one. *)
Finished(r) == pc[r] \in {"streaming", "done"}

QuizLocal(r) ==
  /\ (req[r].activity = "QUIZ_PENDING") <=> (req[r].pending # None)
  /\ req[r].pending \in quizzes \cup {None} \cup (IF req[r].asked THEN {r} ELSE {})
  /\ req[r].kind = "graded" => req[r].quiz \in quizzes
  /\ r \in quizzes => Finished(r)

QuizInv ==
  /\ (session.activity = "QUIZ_PENDING") <=> (session.pending # None)
  /\ session.pending \in quizzes \cup {None}
  /\ \A r \in Requests : QuizLocal(r)

(* At most one request holds an uncommitted turn, with the next ordinal; a   *)
(* request about to insert one has read an ordinal that is not beyond it.    *)
TurnLocal(r) ==
  /\ pc[r] = "inserting" => req[r].turn <= session.turnCount
  /\ HoldsTurn(r) => req[r].turn = session.turnCount
  /\ (\E t \in turns : t.by = r) => Finished(r)

TurnInv ==
  /\ TurnsGapless
  /\ \A r \in Requests : TurnLocal(r)
  /\ \A r, o \in Requests : HoldsTurn(r) /\ HoldsTurn(o) => r = o

(* The same of the attempts at each quiz. *)
AttemptLocal(r) ==
  LET count == Cardinality(AttemptsOf(req[r].quiz))
  IN  /\ pc[r] = "counted" => req[r].no <= count + 1
      /\ HoldsAttempt(r) => req[r].no = count + 1

AttemptInv ==
  /\ AttemptsNumbered
  /\ \A r \in Requests : AttemptLocal(r)
  /\ \A r, o \in Requests :
       HoldsAttempt(r) /\ HoldsAttempt(o) /\ req[r].quiz = req[o].quiz => r = o

(* The ordinals of a flushed exchange are above all committed ones, which    *)
(* the turn count bounds.                                                    *)
MessageLocal(r) ==
  pc[r] = "written" =>
    /\ req[r].message <= 2 * session.turnCount
    /\ \A m \in messages : m.ordinal < req[r].message

MessageInv ==
  /\ ExchangesWhole
  /\ TranscriptFollowsTurns
  /\ \A m \in messages : m.ordinal < 2 * session.turnCount
  /\ \A r \in Requests : MessageLocal(r)

IInv ==
  /\ TypeOK
  /\ \A r \in Requests : Local(r)
  /\ QuizInv
  /\ TurnInv
  /\ AttemptInv
  /\ MessageInv
  /\ PendingUnanswered

-----------------------------------------------------------------------------
(* Max of a set of ordinals, and the next ordinal. *)

(* An element of a set of integers that bounds it is its maximum. *)
LEMMA MaxIs ==
  ASSUME NEW S \in SUBSET Int, NEW m \in S, \A x \in S : x <= m
  PROVE  Max(S) = m
<1>1. \E x \in S : \A y \in S : x >= y
  OBVIOUS
<1>2. Max(S) \in S /\ \A y \in S : Max(S) >= y
  BY <1>1 DEF Max
<1>3. Max(S) \in Int /\ m \in Int /\ Max(S) >= m /\ Max(S) <= m
  BY <1>2
<1> QED BY <1>3

(* A non-empty bounded set of naturals has its maximum in it. *)
LEMMA MaxExists ==
  ASSUME NEW S \in SUBSET Nat, S # {}, NEW b \in Nat, \A x \in S : x <= b
  PROVE  \E m \in S : \A x \in S : x <= m
<1> DEFINE Below == {b - x : x \in S}
           R == OpToRel(<, Nat)
<1>1. \A x \in S : b - x \in Nat
  OBVIOUS
<1>2. Below \subseteq Nat 
  BY <1>1
<1>3. Below # {}
  OBVIOUS
<1>4. \A x, y \in Nat : x < y => <<x, y>> \in R
  BY DEF OpToRel
<1>5. IsWellFoundedOn(R, Nat)
  BY NatLessThanWellFounded
<1>6. PICK d \in Below : \A y \in Below : ~ (<<y, d>> \in R)
  <2> HIDE DEF Below, R
  <2> QED BY <1>2, <1>3, <1>5, WFMin
<1>7. \A y \in Below : d <= y
  <2> HIDE DEF Below, R
  <2> TAKE y \in Below
  <2>1. y \in Nat /\ d \in Nat
    BY <1>2, <1>6
  <2>2. ~ (y < d)
    BY <1>4, <1>6, <2>1
  <2> QED BY <2>1, <2>2
<1>8. \E m \in S : d = b - m
  BY <1>6
<1>10. PICK m \in S : d = b - m
  BY <1>8
<1>9. \A x \in S : b - m <= b - x
  BY <1>7, <1>10
<1> QED <2>1. \A x \in S : x \in Nat /\ m \in Nat
    OBVIOUS
  <2> QED BY <1>9, <2>1

(* The next ordinal is above every committed one, and at most their bound. *)
LEMMA NextOrdinalAbove ==
  ASSUME NEW rows, NEW b \in Nat,
         \A row \in rows : row.ordinal \in Nat /\ row.ordinal < b
  PROVE  /\ NextOrdinal(rows) \in 0 .. b
         /\ \A row \in rows : row.ordinal < NextOrdinal(rows)
<1>1. CASE rows = {}
  BY <1>1 DEF NextOrdinal
<1>2. CASE rows # {}
  <2> DEFINE S == {row.ordinal : row \in rows}
  <2>1. S \in SUBSET Nat /\ S # {} /\ \A x \in S : x <= b
    BY <1>2
  <2>2. PICK m \in S : \A x \in S : x <= m
    BY <2>1, MaxExists
  <2>3. Max(S) = m
    <3>1. S \in SUBSET Int
      BY <2>1
    <3> HIDE DEF S
    <3> QED BY <2>2, <3>1, MaxIs
  <2>4. NextOrdinal(rows) = m + 1 /\ m \in Nat /\ m < b
    BY <1>2, <2>1, <2>2, <2>3 DEF NextOrdinal
  <2>5. \A row \in rows : row.ordinal <= m
    BY <2>2
  <2> QED BY <2>4, <2>5
<1> QED BY <1>1, <1>2

(* The ordinal the next turn takes is the session's turn count. *)
LEMMA NextTurnOrdinal ==
  ASSUME TypeOK, TurnsGapless
  PROVE  NextOrdinal(turns) = session.turnCount
<1>1. session.turnCount \in Nat
  BY DEF TypeOK
<1>2. CASE session.turnCount = 0
  <2>1. turns = {}
    BY <1>2 DEF TurnsGapless
  <2> QED BY <1>2, <2>1 DEF NextOrdinal
<1>3. CASE session.turnCount # 0
  <2> DEFINE S == {t.ordinal : t \in turns}
             m == session.turnCount - 1
  <2>1. S = 0 .. m
    BY DEF TurnsGapless
  <2>2. Max(S) = m
    <3>1. S \in SUBSET Int /\ m \in S /\ \A x \in S : x <= m
      BY <1>1, <1>3, <2>1
    <3> HIDE DEF S, m
    <3> QED BY <3>1, MaxIs
  <2>3. turns # {}
    BY <1>1, <1>3, <2>1
  <2> QED BY <1>1, <2>2, <2>3 DEF NextOrdinal
<1> QED BY <1>2, <1>3

(* What is neither beyond the next ordinal nor among those taken is the next. *)
LEMMA OnlyTheNext ==
  ASSUME NEW a \in Nat, NEW n \in Nat, a <= n, a \notin 0 .. n - 1
  PROVE  a = n
  OBVIOUS

(* The attempts at a quiz can be counted (quizzes.py grade_pending). *)
LEMMA AttemptsFinite ==
  ASSUME IsFiniteSet(attempts), NEW q
  PROVE  IsFiniteSet(AttemptsOf(q)) /\ Cardinality(AttemptsOf(q)) \in Nat
<1>1. AttemptsOf(q) \in SUBSET attempts
  BY DEF AttemptsOf
<1> QED BY <1>1, FS_Subset, FS_CardinalityType

-----------------------------------------------------------------------------
(* A request whose transaction is closed is well typed. *)
LEMMA FreshType == Fresh \in Copy
  BY DEF Fresh, Copy, Activity, Requested, Kind, Grade, Column, MAX_TRANSIENT_ATTEMPTS

(* Types hold initially. *)
LEMMA TypeInit == Init => TypeOK
  BY FreshType, FS_EmptySet DEF Init, TypeOK, Requested, Activity, Label, Open

(* A step that gives one request a new copy and a new label, and commits nothing. *)
LEMMA TypeOwnStep ==
  ASSUME TypeOK, NEW r \in Requests, NEW copy \in Copy, NEW label \in Label,
         req' = [req EXCEPT ![r] = copy], pc' = [pc EXCEPT ![r] = label],
         UNCHANGED dbVars, rowLock' \in Requested, clock' \in Nat,
         started' \in [Requests -> Nat]
  PROVE  TypeOK'
  BY DEF TypeOK, dbVars

(* Types: the request loads the session row (routers/sessions.py). *)
LEMMA TypeCreate ==
  ASSUME TypeOK, NEW r \in Requests, CreateTurn(r)
  PROVE  TypeOK'
<1> DEFINE pending == session.activity = "QUIZ_PENDING"
           copy == [req[r] EXCEPT !.activity = session.activity,
                                  !.pending = session.pending,
                                  !.concept = session.concept,
                                  !.kind = IF pending THEN "graded" ELSE "answer",
                                  !.quiz = session.pending]
           label == IF pending THEN "grading" ELSE "scoping"
<1>1. copy \in Copy
  <2>1. req[r] \in Copy /\ session.activity \in Activity
        /\ session.pending \in Requested /\ session.concept \in Requested
    BY DEF TypeOK
  <2> QED BY <2>1 DEF Copy, Kind
<1>2. label \in Label
  BY DEF Label, Open
<1>3. req' = [req EXCEPT ![r] = copy] /\ pc' = [pc EXCEPT ![r] = label]
  BY DEF CreateTurn, Goto
<1>4. clock' \in Nat /\ started' \in [Requests -> Nat] /\ rowLock' \in Requested /\ UNCHANGED dbVars
  BY DEF CreateTurn, TypeOK
<1> HIDE DEF copy, label
<1> QED BY <1>1, <1>2, <1>3, <1>4, TypeOwnStep

(* Types: a transaction is rolled back. *)
LEMMA TypeRollback ==
  ASSUME TypeOK, NEW r \in Requests, Rollback(r)
  PROVE  TypeOK'
<1>1. "failed" \in Label
  BY DEF Label, Ended
<1> QED BY <1>1, FreshType, TypeOwnStep DEF Rollback, Goto, TypeOK, Requested

(* Types: the steps of the agent loop (runner.py run_turn). *)
LEMMA TypeAgent ==
  ASSUME TypeOK, NEW r \in Requests, AgentStep(r)
  PROVE  TypeOK'
<1>1. CASE RunTurn(r)
  <2>1. [req[r] EXCEPT !.tries = 1] \in Copy
    BY DEF TypeOK, Copy, MAX_TRANSIENT_ATTEMPTS
  <2>2. req' = [req EXCEPT ![r] = [req[r] EXCEPT !.tries = 1]]
    BY <1>1 DEF RunTurn
  <2> QED BY <1>1, <2>1, <2>2 DEF RunTurn, Goto, TypeOK, Label, Open, dbVars
<1>2. CASE Gate(r)
  BY <1>2 DEF Gate, Goto, TypeOK, Label, Open, dbVars
<1>3. CASE AskQuiz(r)
  <2> DEFINE copy == [req[r] EXCEPT !.activity = "QUIZ_PENDING", !.pending = r, !.concept = r,
                         !.dirty = Column, !.asked = TRUE]
  <2>1. copy \in Copy
    <3>1. req[r] \in Copy /\ r \in Requested
      BY DEF TypeOK, Requested
    <3> QED BY <3>1 DEF Copy, Activity
  <2>2. req' = [req EXCEPT ![r] = copy]
    BY <1>3 DEF AskQuiz
  <2> HIDE DEF copy
  <2> QED BY <1>3, <2>1, <2>2 DEF AskQuiz, Goto, TypeOK, Label, Open, dbVars, Requested
<1>4. CASE RetryTurn(r)
  <2> DEFINE copy == [ResetForRetry(r) EXCEPT !.tries = @ + 1]
  <2>1. copy \in Copy
    <3>1. req[r] \in Copy /\ None \in Requested /\ req[r].tries + 1 \in 0 .. MAX_TRANSIENT_ATTEMPTS
      BY <1>4 DEF TypeOK, Requested, RetryTurn, Copy, MAX_TRANSIENT_ATTEMPTS
    <3>2. ResetForRetry(r) \in Copy /\ ResetForRetry(r).tries = req[r].tries
      BY <3>1 DEF ResetForRetry, Copy, Activity
    <3> QED BY <3>1, <3>2 DEF Copy
  <2>2. req' = [req EXCEPT ![r] = copy]
    BY <1>4 DEF RetryTurn
  <2> HIDE DEF copy
  <2> QED BY <1>4, <2>1, <2>2 DEF RetryTurn, TypeOK, dbVars
<1>5. CASE ComposeAnswer(r)
  BY <1>5 DEF ComposeAnswer, Goto, TypeOK, Label, Open, dbVars
<1> QED BY <1>1, <1>2, <1>3, <1>4, <1>5 DEF AgentStep

(* Types: the steps of a graded answer (quizzes.py grade_pending). *)
LEMMA TypeGrading ==
  ASSUME TypeOK, NEW r \in Requests, GradingStep(r)
  PROVE  TypeOK'
<1>1. CASE GradePending(r)
  <2>1. PICK g \in Grade : req' = [req EXCEPT ![r] =
                 [@ EXCEPT !.grade = g, !.no = Cardinality(AttemptsOf(req[r].quiz)) + 1]]
    BY <1>1 DEF GradePending
  <2> DEFINE n == Cardinality(AttemptsOf(req[r].quiz)) + 1
             copy == [req[r] EXCEPT !.grade = g, !.no = n]
  <2>2. copy \in Copy
    <3>1. req[r] \in Copy /\ n \in Nat
      BY AttemptsFinite DEF TypeOK
    <3> HIDE DEF n
    <3> QED BY <3>1 DEF Copy
  <2>3. req' = [req EXCEPT ![r] = copy]
    BY <2>1
  <2> HIDE DEF copy
  <2> QED BY <1>1, <2>2, <2>3 DEF GradePending, Goto, TypeOK, Label, Open, dbVars
<1>2. CASE InsertAttempt(r)
  BY <1>2 DEF InsertAttempt, Goto, TypeOK, Label, Open, dbVars
<1>3. CASE AttemptConflict(r)
  BY <1>3, TypeRollback DEF AttemptConflict
<1>4. CASE Transition(r)
  <2> DEFINE copy == [req[r] EXCEPT
                         !.pending = None,
                         !.activity = IF req[r].grade \in {"correct", "ungraded"}
                                      THEN "FREE" ELSE "EXPLAINING",
                         !.dirty = {"activity", "pending"}]
  <2>1. copy \in Copy
    <3>1. req[r] \in Copy /\ None \in Requested
      BY DEF TypeOK, Requested
    <3> QED BY <3>1 DEF Copy, Activity, Column
  <2>2. req' = [req EXCEPT ![r] = copy]
    BY <1>4 DEF Transition
  <2> HIDE DEF copy
  <2> QED BY <1>4, <2>1, <2>2 DEF Transition, Goto, TypeOK, Label, Open, dbVars, Requested
<1> QED BY <1>1, <1>2, <1>3, <1>4 DEF GradingStep
-----------------------------------------------------------------------------
(* The steps of Next, sorted by what they do to committed rows. *)
Aborted(r) == pc[r] \in Open /\ Rollback(r)

Private(r) ==
  \/ CreateTurn(r) \/ RefuseUnreadyPaper(r) \/ AgentStep(r)
  \/ GradePending(r) \/ InsertAttempt(r) \/ Transition(r)
  \/ ReadOrdinal(r) \/ InsertTurn(r) \/ AppendExchange(r) \/ Stream(r)
  \/ Aborted(r)

(* The four ways a transaction ends without a commit. *)
LEMMA AbortCases ==
  ASSUME TypeOK, NEW r \in Requests,
         AttemptConflict(r) \/ TurnConflict(r) \/ FailTurn(r) \/ DeadlockVictim(r)
  PROVE  Aborted(r)
  BY DEF AttemptConflict, TurnConflict, FailTurn, DeadlockVictim, Deadlocked,
         Aborted, Open

(* Every step is a private step, a commit, a prune or a stutter. *)
LEMMA StepCases ==
  ASSUME TypeOK, [Next]_vars
  PROVE  \/ UNCHANGED vars
         \/ PruneExpired
         \/ \E r \in Requests : Private(r) \/ Commit(r)
<1>1. CASE \E r \in Requests : CreateTurn(r) \/ ServerStep(r) \/ FailTurn(r)
  <2>1. PICK r \in Requests : CreateTurn(r) \/ ServerStep(r) \/ FailTurn(r)
    BY <1>1
  <2>2. Private(r) \/ Commit(r)
    BY <2>1, AbortCases DEF ServerStep, GradingStep, PersistStep, Private
  <2> QED BY <2>2
<1> QED BY <1>1 DEF Next, Rest

(* A private step concerns one request and commits nothing. *)
LEMMA PrivateFrame ==
  ASSUME TypeOK, NEW r \in Requests, Private(r)
  PROVE  /\ UNCHANGED dbVars
         /\ \A o \in Requests \ {r} : pc'[o] = pc[o] /\ req'[o] = req[o]
<1> USE DEF TypeOK, Goto, dbVars
<1>1. CASE CreateTurn(r) BY <1>1 DEF CreateTurn
<1>2. CASE RefuseUnreadyPaper(r) BY <1>2 DEF RefuseUnreadyPaper
<1>3. CASE AgentStep(r)
  BY <1>3 DEF AgentStep, RunTurn, Gate, AskQuiz, RetryTurn, ComposeAnswer
<1>4. CASE GradePending(r) BY <1>4 DEF GradePending
<1>5. CASE InsertAttempt(r) BY <1>5 DEF InsertAttempt
<1>6. CASE Transition(r) BY <1>6 DEF Transition
<1>7. CASE ReadOrdinal(r) BY <1>7 DEF ReadOrdinal
<1>8. CASE InsertTurn(r) BY <1>8 DEF InsertTurn
<1>9. CASE AppendExchange(r) BY <1>9 DEF AppendExchange
<1>10. CASE Stream(r) BY <1>10 DEF Stream
<1>11. CASE Aborted(r) BY <1>11 DEF Aborted, Rollback
<1> QED
  BY <1>1, <1>2, <1>3, <1>4, <1>5, <1>6, <1>7, <1>8, <1>9, <1>10, <1>11 DEF Private

-----------------------------------------------------------------------------
(* Local: what is known of a request by itself. *)
LEMMA LocalAgent ==
  ASSUME TypeOK, NEW r \in Requests, Local(r), AgentStep(r)
  PROVE  Local(r)'
<1> USE DEF TypeOK, Goto, Copy, Local, HoldsAttempt, Open
<1>1. CASE RunTurn(r) BY <1>1 DEF RunTurn
<1>2. CASE Gate(r) BY <1>2 DEF Gate
<1>3. CASE AskQuiz(r) BY <1>3 DEF AskQuiz, Column
<1>4. CASE RetryTurn(r) BY <1>4 DEF RetryTurn, ResetForRetry, Column
<1>5. CASE ComposeAnswer(r) BY <1>5 DEF ComposeAnswer
<1> QED BY <1>1, <1>2, <1>3, <1>4, <1>5 DEF AgentStep

(* Local facts of a request survive its private steps. *)
LEMMA LocalPrivate ==
  ASSUME TypeOK, NEW r \in Requests, Local(r), Private(r)
  PROVE  Local(r)'
<1> USE DEF TypeOK, Goto, Copy, Local, HoldsAttempt, Open
<1>1. CASE CreateTurn(r) BY <1>1 DEF CreateTurn, Fresh
<1>2. CASE RefuseUnreadyPaper(r) BY <1>2 DEF RefuseUnreadyPaper, Column
<1>3. CASE AgentStep(r) BY <1>3, LocalAgent
<1>4. CASE GradePending(r)
  <2> DEFINE n == Cardinality(AttemptsOf(req[r].quiz)) + 1
  <2>1. n # 0
    BY AttemptsFinite
  <2>2. pc[r] = "grading" /\ pc' = [pc EXCEPT ![r] = "counted"]
        /\ \E g \in Grade : req' = [req EXCEPT ![r] = [@ EXCEPT !.grade = g, !.no = n]]
    BY <1>4 DEF GradePending
  <2> HIDE DEF n
  <2> QED BY <2>1, <2>2
<1>5. CASE InsertAttempt(r) BY <1>5 DEF InsertAttempt
<1>6. CASE Transition(r) BY <1>6 DEF Transition, Column
<1>7. CASE ReadOrdinal(r) BY <1>7 DEF ReadOrdinal
<1>8. CASE InsertTurn(r) BY <1>8 DEF InsertTurn
<1>9. CASE AppendExchange(r) BY <1>9 DEF AppendExchange
<1>10. CASE Stream(r) BY <1>10 DEF Stream
<1>11. CASE Aborted(r) BY <1>11 DEF Aborted, Rollback, Fresh
<1> QED
  BY <1>1, <1>2, <1>3, <1>4, <1>5, <1>6, <1>7, <1>8, <1>9, <1>10, <1>11 DEF Private

(* Local facts of a request survive its commit. *)
LEMMA LocalCommit ==
  ASSUME TypeOK, NEW r \in Requests, Commit(r)
  PROVE  Local(r)'
  BY DEF TypeOK, Goto, Copy, Local, HoldsAttempt, Open, Commit, Fresh

(* Local facts of every request survive every step. *)
LEMMA LocalStep ==
  ASSUME TypeOK, \A r \in Requests : Local(r), [Next]_vars
  PROVE  \A r \in Requests : Local(r)'
<1>1. CASE UNCHANGED vars
  BY <1>1 DEF vars, Local, HoldsAttempt
<1>2. CASE PruneExpired
  BY <1>2 DEF PruneExpired, Local, HoldsAttempt
<1>3. ASSUME NEW r \in Requests, Private(r) \/ Commit(r)
      PROVE  \A o \in Requests : Local(o)'
  <2>1. Local(r)'
    BY <1>3, LocalPrivate, LocalCommit
  <2>2. \A o \in Requests \ {r} : pc'[o] = pc[o] /\ req'[o] = req[o]
    BY <1>3, PrivateFrame DEF Commit, Goto, TypeOK
  <2> QED BY <2>1, <2>2 DEF Local, HoldsAttempt
<1> QED BY <1>1, <1>2, <1>3, StepCases

-----------------------------------------------------------------------------
(* QuizInv, and no committed attempt at a pending quiz. *)
LEMMA QuizInit == Init => QuizInv /\ PendingUnanswered
  BY DEF Init, QuizInv, QuizLocal, Fresh, PendingUnanswered

(* QuizInv survives a private step. *)
LEMMA QuizPrivate ==
  ASSUME TypeOK, NEW r \in Requests, Local(r), QuizInv, Private(r)
  PROVE  QuizLocal(r)'
<1> USE DEF TypeOK, Goto, Copy, Local, HoldsAttempt, Open, QuizInv, QuizLocal,
            Finished, dbVars
<1>1. CASE CreateTurn(r) BY <1>1 DEF CreateTurn, Fresh
<1>2. CASE RefuseUnreadyPaper(r) BY <1>2 DEF RefuseUnreadyPaper
<1>3. CASE AgentStep(r)
  <2>1. CASE RunTurn(r) BY <2>1 DEF RunTurn
  <2>2. CASE Gate(r) BY <2>2 DEF Gate
  <2>3. CASE AskQuiz(r) BY <2>3, NoneAssumption DEF AskQuiz
  <2>4. CASE RetryTurn(r) BY <2>4 DEF RetryTurn, ResetForRetry
  <2>5. CASE ComposeAnswer(r) BY <2>5 DEF ComposeAnswer
  <2> QED BY <1>3, <2>1, <2>2, <2>3, <2>4, <2>5 DEF AgentStep
<1>4. CASE GradePending(r) BY <1>4 DEF GradePending
<1>5. CASE InsertAttempt(r) BY <1>5 DEF InsertAttempt
<1>6. CASE Transition(r) BY <1>6 DEF Transition
<1>7. CASE ReadOrdinal(r) BY <1>7 DEF ReadOrdinal
<1>8. CASE InsertTurn(r) BY <1>8 DEF InsertTurn
<1>9. CASE AppendExchange(r) BY <1>9 DEF AppendExchange
<1>10. CASE Stream(r) BY <1>10 DEF Stream
<1>11. CASE Aborted(r) BY <1>11 DEF Aborted, Rollback, Fresh
<1> QED
  BY <1>1, <1>2, <1>3, <1>4, <1>5, <1>6, <1>7, <1>8, <1>9, <1>10, <1>11 DEF Private

(* QuizInv survives a commit: the written row is as consistent as the copy. *)
LEMMA QuizCommit ==
  ASSUME TypeOK, NEW r \in Requests, Local(r), QuizInv, Commit(r)
  PROVE  QuizInv'
<1> USE DEF TypeOK, Copy, Local, QuizInv, QuizLocal
<1>1. /\ quizzes \subseteq quizzes'
      /\ req[r].asked => r \in quizzes'
      /\ \A q \in quizzes' : q \in quizzes \/ q = r
  BY DEF Commit
<1>2. /\ (session.activity = "QUIZ_PENDING")' <=> (session.pending # None)'
      /\ session'.pending \in quizzes' \cup {None}
  BY <1>1 DEF Commit, WrittenRow
<1>3. QuizLocal(r)'
  BY <1>1 DEF Commit, Goto, Fresh, Finished
<1>4. ASSUME NEW o \in Requests \ {r} PROVE QuizLocal(o)'
  BY <1>1, <1>4 DEF Commit, Goto, Finished
<1> QED BY <1>2, <1>3, <1>4

(* A commit leaves no answered quiz pending. *)
LEMMA PendingCommit ==
  ASSUME TypeOK, NEW r \in Requests, Local(r), QuizInv, AttemptsNumbered,
         PendingUnanswered, Commit(r)
  PROVE  PendingUnanswered'
<1> USE DEF TypeOK, Copy, Local, Commit, WrittenRow, AttemptsOf
<1>1. CASE req[r].kind = "graded"
  BY <1>1 DEF PendingUnanswered, HoldsAttempt
<1>2. CASE req[r].kind # "graded" /\ req[r].asked
  <2>1. r \notin quizzes
    BY DEF QuizInv, QuizLocal, Finished
  <2>2. AttemptsOf(r) = {}
    BY <2>1 DEF AttemptsNumbered
  <2> QED BY <1>2, <2>2 DEF PendingUnanswered
<1>3. CASE req[r].kind # "graded" /\ ~ req[r].asked
  BY <1>3 DEF PendingUnanswered
<1> QED BY <1>1, <1>2, <1>3

(* QuizInv survives every step. *)
LEMMA QuizStep ==
  ASSUME TypeOK, \A r \in Requests : Local(r), QuizInv, [Next]_vars
  PROVE  QuizInv'
<1>1. CASE UNCHANGED vars
  BY <1>1 DEF vars, dbVars, QuizInv, QuizLocal, Finished
<1>2. CASE PruneExpired
  BY <1>2 DEF PruneExpired, QuizInv, QuizLocal, Finished
<1>3. ASSUME NEW r \in Requests, Private(r) PROVE QuizInv'
  BY <1>3, QuizPrivate, PrivateFrame DEF QuizInv, QuizLocal, Finished, dbVars
<1>4. ASSUME NEW r \in Requests, Commit(r) PROVE QuizInv'
  BY <1>4, QuizCommit
<1> QED BY <1>1, <1>2, <1>3, <1>4, StepCases

(* PendingUnanswered survives every step. *)
LEMMA PendingStep ==
  ASSUME TypeOK, \A r \in Requests : Local(r), QuizInv, AttemptsNumbered,
         PendingUnanswered, [Next]_vars
  PROVE  PendingUnanswered'
<1>1. CASE UNCHANGED vars
  BY <1>1 DEF vars, dbVars, PendingUnanswered, AttemptsOf
<1>2. CASE PruneExpired
  BY <1>2 DEF PruneExpired, PendingUnanswered, AttemptsOf
<1>3. ASSUME NEW r \in Requests, Private(r) PROVE PendingUnanswered'
  BY <1>3, PrivateFrame DEF PendingUnanswered, AttemptsOf, dbVars
<1>4. ASSUME NEW r \in Requests, Commit(r) PROVE PendingUnanswered'
  BY <1>4, PendingCommit
<1> QED BY <1>1, <1>2, <1>3, <1>4, StepCases

-----------------------------------------------------------------------------
(* TurnInv: the committed turns and the one that waits to join them. *)
LEMMA TurnInit == Init => TurnInv
  BY DEF Init, TurnInv, TurnsGapless, TurnLocal, HoldsTurn

(* TurnInv survives a private step: the unique key lets one holder in. *)
LEMMA TurnPrivate ==
  ASSUME TypeOK, NEW r \in Requests, TurnInv, Private(r)
  PROVE  /\ TurnLocal(r)'
         /\ HoldsTurn(r)' => \A o \in Requests \ {r} : ~ HoldsTurn(o)
<1> USE DEF TypeOK, Goto, Copy, TurnInv, TurnLocal, HoldsTurn, Finished, dbVars
<1>1. CASE CreateTurn(r) BY <1>1 DEF CreateTurn
<1>2. CASE RefuseUnreadyPaper(r) BY <1>2 DEF RefuseUnreadyPaper
<1>3. CASE AgentStep(r)
  BY <1>3 DEF AgentStep, RunTurn, Gate, AskQuiz, RetryTurn, ComposeAnswer
<1>4. CASE GradePending(r) BY <1>4 DEF GradePending
<1>5. CASE InsertAttempt(r) BY <1>5 DEF InsertAttempt
<1>6. CASE Transition(r) BY <1>6 DEF Transition
<1>7. CASE ReadOrdinal(r) BY <1>7, NextTurnOrdinal DEF ReadOrdinal
<1>8. CASE InsertTurn(r)
  <2>1. req[r].turn = session.turnCount
    <3>1. req[r].turn \in Nat /\ session.turnCount \in Nat
      OBVIOUS
    <3>2. req[r].turn <= session.turnCount
      BY <1>8 DEF InsertTurn
    <3>3. req[r].turn \notin {t.ordinal : t \in turns}
      BY <1>8 DEF InsertTurn, TurnKeyTaken
    <3>4. req[r].turn \notin 0 .. session.turnCount - 1
      BY <3>3 DEF TurnsGapless
    <3> QED BY ONLY <3>1, <3>2, <3>4, OnlyTheNext
  <2>2. \A o \in Requests \ {r} : ~ HoldsTurn(o)
    BY <1>8, <2>1 DEF InsertTurn, TurnKeyAwaited
  <2> QED BY <1>8, <2>1, <2>2 DEF InsertTurn
<1>9. CASE AppendExchange(r) BY <1>9 DEF AppendExchange
<1>10. CASE Stream(r) BY <1>10 DEF Stream
<1>11. CASE Aborted(r) BY <1>11 DEF Aborted, Rollback, Open
<1> QED
  BY <1>1, <1>2, <1>3, <1>4, <1>5, <1>6, <1>7, <1>8, <1>9, <1>10, <1>11 DEF Private

(* What a commit adds to the turns, in terms of the turn count. *)
LEMMA CommitTurn ==
  ASSUME TypeOK, NEW r \in Requests, TurnInv, Commit(r)
  PROVE  /\ session'.turnCount = session.turnCount + 1
         /\ turns' = turns \cup {[by |-> r, ordinal |-> session.turnCount,
                                  kind |-> req[r].kind]}
         /\ \A t \in turns : t.by # r /\ t.ordinal < session.turnCount
         /\ \A o \in Requests \ {r} :
              ~ HoldsTurn(o) /\ pc'[o] = pc[o] /\ req'[o] = req[o]
<1>1. req[r].turn = session.turnCount
  BY DEF Commit, TurnInv, TurnLocal, HoldsTurn
<1>2. \A t \in turns : t.ordinal \in 0 .. session.turnCount - 1
  BY DEF TurnInv, TurnsGapless
<1>3. \A t \in turns : t.by # r
  BY DEF Commit, TurnInv, TurnLocal, Finished, TypeOK
<1>4. \A o \in Requests \ {r} : ~ HoldsTurn(o) /\ pc'[o] = pc[o] /\ req'[o] = req[o]
  BY DEF Commit, Goto, TurnInv, HoldsTurn, TypeOK
<1> QED BY <1>1, <1>2, <1>3, <1>4 DEF Commit, WrittenRow, TypeOK

(* TurnInv survives a commit: the turn committed is the next one. *)
LEMMA TurnCommit ==
  ASSUME TypeOK, NEW r \in Requests, TurnInv, Commit(r)
  PROVE  TurnInv'
<1> DEFINE n == session.turnCount
<1>1. n \in Nat
  BY DEF TypeOK
<1>2. TurnsGapless'
  <2>1. {t.ordinal : t \in turns'} = 0 .. session'.turnCount - 1
    <3>1. {t.ordinal : t \in turns} = 0 .. n - 1
      BY DEF TurnInv, TurnsGapless
    <3>2. {t.ordinal : t \in turns'} = {t.ordinal : t \in turns} \cup {n}
      <4> DEFINE new == [by |-> r, ordinal |-> n, kind |-> req[r].kind]
      <4>1. turns' = turns \cup {new} /\ new.ordinal = n
        BY CommitTurn
      <4> HIDE DEF new, n
      <4> QED BY <4>1
    <3>3. 0 .. (n + 1) - 1 = (0 .. n - 1) \cup {n}
      BY <1>1
    <3> QED BY <3>1, <3>2, <3>3, CommitTurn
  <2>2. \A t, u \in turns' : t.ordinal = u.ordinal => t = u
    BY <1>1, CommitTurn DEF TurnInv, TurnsGapless, TypeOK
  <2> QED BY <2>1, <2>2 DEF TurnsGapless
<1>3. pc' = [pc EXCEPT ![r] = "streaming"] /\ pc[r] = "written"
  BY DEF Commit, Goto
<1>4. \A o \in Requests : TurnLocal(o)'
  <2>1. TurnLocal(r)'
    BY <1>3 DEF TurnLocal, HoldsTurn, Finished, TypeOK
  <2>2. ASSUME NEW o \in Requests \ {r} PROVE TurnLocal(o)'
    BY <1>1, <2>2, CommitTurn DEF TurnInv, TurnLocal, HoldsTurn, Finished, TypeOK, Copy
  <2> QED BY <2>1, <2>2
<1>5. \A o \in Requests : ~ HoldsTurn(o)'
  BY <1>3, CommitTurn DEF HoldsTurn, TypeOK
<1> QED BY <1>2, <1>4, <1>5 DEF TurnInv

(* TurnInv survives every step. *)
LEMMA TurnStep ==
  ASSUME TypeOK, TurnInv, [Next]_vars
  PROVE  TurnInv'
<1> USE DEF TurnInv, TurnsGapless, TurnLocal, HoldsTurn, Finished
<1>1. CASE UNCHANGED vars
  BY <1>1 DEF vars, dbVars
<1>2. CASE PruneExpired
  BY <1>2 DEF PruneExpired
<1>3. ASSUME NEW r \in Requests, Private(r) PROVE TurnInv'
  <2>1. UNCHANGED dbVars /\ \A o \in Requests \ {r} : pc'[o] = pc[o] /\ req'[o] = req[o]
    BY <1>3, PrivateFrame
  <2>2. TurnLocal(r)' /\ (HoldsTurn(r)' => \A o \in Requests \ {r} : ~ HoldsTurn(o))
    BY <1>3, TurnPrivate
  <2> QED BY <2>1, <2>2 DEF dbVars
<1>4. ASSUME NEW r \in Requests, Commit(r) PROVE TurnInv'
  BY <1>4, TurnCommit
<1> QED BY <1>1, <1>2, <1>3, <1>4, StepCases

-----------------------------------------------------------------------------
(* AttemptInv: the committed attempts and those that wait to join them. *)
LEMMA AttemptInit == Init => AttemptInv
<1> SUFFICES ASSUME Init PROVE AttemptInv
  OBVIOUS
<1>1. \A q \in Requests : AttemptsOf(q) = {}
  BY DEF Init, AttemptsOf
<1>2. AttemptsNumbered
  <2>1. 1 .. 0 = {}
    OBVIOUS
  <2> QED BY <1>1, <2>1, FS_EmptySet DEF AttemptsNumbered
<1>3. \A r \in Requests : pc[r] = "idle"
  BY DEF Init
<1> QED BY <1>2, <1>3 DEF AttemptInv, AttemptLocal, HoldsAttempt

(* An attempt whose number is free is the next one at its quiz. *)
LEMMA FreeAttempt ==
  ASSUME TypeOK, NEW r \in Requests, Local(r), QuizInv, AttemptInv, InsertAttempt(r)
  PROVE  req[r].no = Cardinality(AttemptsOf(req[r].quiz)) + 1
<1> DEFINE q == req[r].quiz
<1>0. PICK count : count = Cardinality(AttemptsOf(q))
  OBVIOUS
<1>1. q \in Requests /\ req[r].no \in Nat /\ count \in Nat
  BY <1>0, AttemptsFinite DEF TypeOK, Copy, Local, QuizInv, QuizLocal, InsertAttempt
<1>2. req[r].no <= count + 1 /\ req[r].no # 0
  BY <1>0 DEF InsertAttempt, AttemptInv, AttemptLocal, Local
<1>3. req[r].no \notin {a.no : a \in AttemptsOf(q)}
  BY DEF InsertAttempt, AttemptKeyTaken
<1>4. req[r].no \notin 1 .. count
  BY <1>0, <1>1, <1>3 DEF AttemptInv, AttemptsNumbered
<1>5. req[r].no \notin 0 .. (count + 1) - 1
  BY <1>1, <1>2, <1>4
<1>6. count + 1 \in Nat
  BY <1>1
<1>7. req[r].no = count + 1
  BY <1>1, <1>2, <1>5, <1>6, OnlyTheNext
<1> QED BY <1>0, <1>7

(* AttemptInv survives a private step. *)
LEMMA AttemptPrivate ==
  ASSUME TypeOK, NEW r \in Requests, Local(r), QuizInv, AttemptInv, Private(r)
  PROVE  /\ AttemptLocal(r)'
         /\ HoldsAttempt(r)' =>
              \A o \in Requests \ {r} :
                HoldsAttempt(o) => req[o].quiz # req'[r].quiz
<1>a. UNCHANGED dbVars
  BY PrivateFrame
<1>b. \A q : AttemptsOf(q)' = AttemptsOf(q)
  BY <1>a DEF dbVars, AttemptsOf
<1> USE DEF TypeOK, Goto, Copy, AttemptInv, AttemptLocal, HoldsAttempt
<1>1. CASE CreateTurn(r) BY <1>1 DEF CreateTurn
<1>2. CASE RefuseUnreadyPaper(r) BY <1>2 DEF RefuseUnreadyPaper
<1>3. CASE AgentStep(r)
  BY <1>3 DEF AgentStep, RunTurn, Gate, AskQuiz, RetryTurn, ComposeAnswer, Local
<1>4. CASE GradePending(r)
  <2> DEFINE n == Cardinality(AttemptsOf(req[r].quiz)) + 1
  <2>1. n \in Nat
    BY AttemptsFinite
  <2>2. pc'[r] = "counted" /\ req'[r].no = n /\ req'[r].quiz = req[r].quiz
    <3>1. PICK g \in Grade : req' = [req EXCEPT ![r] = [@ EXCEPT !.grade = g, !.no = n]]
      BY <1>4 DEF GradePending
    <3>2. pc' = [pc EXCEPT ![r] = "counted"]
      BY <1>4 DEF GradePending
    <3> HIDE DEF n
    <3> QED BY <3>1, <3>2
  <2> QED BY <1>b, <2>1, <2>2
<1>5. CASE InsertAttempt(r)
  <2>1. req[r].no = Cardinality(AttemptsOf(req[r].quiz)) + 1
    BY <1>5, FreeAttempt
  <2>2. req' = req /\ pc'[r] = "attempted"
    BY <1>5 DEF InsertAttempt
  <2>3. \A o \in Requests \ {r} : HoldsAttempt(o) => req[o].quiz # req[r].quiz
    <3> SUFFICES ASSUME NEW o \in Requests \ {r}, HoldsAttempt(o),
                        req[o].quiz = req[r].quiz
                 PROVE  FALSE
      OBVIOUS
    <3>1. req[o].no = req[r].no
      BY <2>1
    <3> QED BY <1>5, <3>1 DEF InsertAttempt, AttemptKeyAwaited
  <2> QED BY <1>b, <2>1, <2>2, <2>3
<1>6. CASE Transition(r) BY <1>b, <1>6 DEF Transition, Local
<1>7. CASE ReadOrdinal(r) BY <1>b, <1>7 DEF ReadOrdinal
<1>8. CASE InsertTurn(r) BY <1>b, <1>8 DEF InsertTurn
<1>9. CASE AppendExchange(r) BY <1>b, <1>9 DEF AppendExchange
<1>10. CASE Stream(r) BY <1>10 DEF Stream
<1>11. CASE Aborted(r) BY <1>11 DEF Aborted, Rollback
<1> QED
  BY <1>1, <1>2, <1>3, <1>4, <1>5, <1>6, <1>7, <1>8, <1>9, <1>10, <1>11 DEF Private

(* AttemptInv survives a commit: the attempt committed is the next one. *)
LEMMA AttemptCommit ==
  ASSUME TypeOK, NEW r \in Requests, Local(r), QuizInv, AttemptInv, Commit(r)
  PROVE  AttemptInv'
<1>p. PICK q, count, new, graded :
         /\ q = req[r].quiz
         /\ count = Cardinality(AttemptsOf(q))
         /\ new = [quiz |-> q, no |-> req[r].no, grade |-> req[r].grade, by |-> r]
         /\ graded = (req[r].kind = "graded")
  OBVIOUS
<1>1. /\ pc' = [pc EXCEPT ![r] = "streaming"]
      /\ req' = [req EXCEPT ![r] = Fresh]
      /\ attempts' = attempts \cup (IF graded THEN {new} ELSE {})
      /\ quizzes \subseteq quizzes'
  BY <1>p DEF Commit, Goto
<1>2. ~ HoldsAttempt(r)' /\ AttemptLocal(r)'
  BY <1>1 DEF HoldsAttempt, AttemptLocal, TypeOK
<1>3. \A o \in Requests \ {r} : pc'[o] = pc[o] /\ req'[o] = req[o]
  BY <1>1 DEF TypeOK
<1>4. CASE ~ graded
  <2>1. attempts' = attempts
    BY <1>1, <1>4
  <2>2. \A p : AttemptsOf(p)' = AttemptsOf(p)
    BY <2>1 DEF AttemptsOf
  <2> QED BY <1>1, <1>2, <1>3, <2>2
       DEF AttemptInv, AttemptsNumbered, AttemptLocal, HoldsAttempt
<1>5. CASE graded
  <2>1. HoldsAttempt(r) /\ q \in quizzes
    BY <1>p, <1>5 DEF Commit, HoldsAttempt, QuizInv, QuizLocal
  <2>2. req[r].no = count + 1 /\ count \in Nat
    BY <1>p, <2>1, AttemptsFinite DEF AttemptInv, AttemptLocal, TypeOK
  <2>3. AttemptsOf(q)' = AttemptsOf(q) \cup {new}
    BY <1>1, <1>5, <1>p DEF AttemptsOf
  <2>4. \A p : p # q => AttemptsOf(p)' = AttemptsOf(p)
    BY <1>1, <1>5, <1>p DEF AttemptsOf
  <2>5. {a.no : a \in AttemptsOf(q)} = 1 .. count
    BY <1>p, <2>1 DEF AttemptInv, AttemptsNumbered, TypeOK
  <2>6. Cardinality(AttemptsOf(q)') = count + 1
    <3>1. new \notin AttemptsOf(q)
      <4>1. new.no \notin 1 .. count
        BY <1>p, <2>2
      <4> QED BY <2>5, <4>1
    <3>2. IsFiniteSet(AttemptsOf(q))
      BY AttemptsFinite DEF TypeOK
    <3>3. Cardinality(AttemptsOf(q) \cup {new}) = Cardinality(AttemptsOf(q)) + 1
      BY <3>1, <3>2, FS_AddElement
    <3> QED BY <1>p, <2>3, <3>3
  <2>7. {a.no : a \in AttemptsOf(q)'} = 1 .. count + 1
    <3>1. new.no = count + 1
      BY <1>p, <2>2
    <3>2. {a.no : a \in AttemptsOf(q)'} = {a.no : a \in AttemptsOf(q)} \cup {count + 1}
      BY <2>3, <3>1
    <3>3. 1 .. count + 1 = (1 .. count) \cup {count + 1}
      BY <2>2
    <3> QED BY <2>5, <3>2, <3>3
  <2>8. AttemptsNumbered'
    <3> SUFFICES ASSUME NEW p \in Requests
                 PROVE  /\ {a.no : a \in AttemptsOf(p)'} = 1 .. Cardinality(AttemptsOf(p)')
                        /\ AttemptsOf(p)' # {} => p \in quizzes'
      BY DEF AttemptsNumbered
    <3>1. CASE p = q
      BY <1>1, <2>1, <2>6, <2>7, <3>1
    <3>2. CASE p # q
      BY <1>1, <2>4, <3>2 DEF AttemptInv, AttemptsNumbered
    <3> QED BY <3>1, <3>2
  <2>9. ASSUME NEW o \in Requests \ {r} PROVE AttemptLocal(o)'
    <3>1. CASE req[o].quiz = q
      <4>1. ~ HoldsAttempt(o)
        BY <1>p, <2>1, <3>1 DEF AttemptInv
      <4>2. pc[o] = "counted" => req[o].no \in Nat /\ req[o].no <= count + 1
        BY <1>p, <3>1 DEF AttemptInv, AttemptLocal, TypeOK, Copy
      <4> QED BY <1>3, <2>2, <2>6, <3>1, <4>1, <4>2 DEF AttemptLocal, HoldsAttempt
    <3>2. CASE req[o].quiz # q
      BY <1>3, <2>4, <3>2 DEF AttemptInv, AttemptLocal, HoldsAttempt
    <3> QED BY <3>1, <3>2
  <2> QED BY <1>2, <1>3, <2>8, <2>9 DEF AttemptInv, HoldsAttempt
<1> QED BY <1>4, <1>5

(* AttemptInv survives every step. *)
LEMMA AttemptStep ==
  ASSUME TypeOK, \A r \in Requests : Local(r), QuizInv, AttemptInv, [Next]_vars
  PROVE  AttemptInv'
<1>1. CASE UNCHANGED vars
  BY <1>1 DEF vars, dbVars, AttemptInv, AttemptsNumbered, AttemptLocal,
              HoldsAttempt, AttemptsOf
<1>2. CASE PruneExpired
  BY <1>2 DEF PruneExpired, AttemptInv, AttemptsNumbered, AttemptLocal,
              HoldsAttempt, AttemptsOf
<1>3. ASSUME NEW r \in Requests, Private(r) PROVE AttemptInv'
  <2>1. UNCHANGED dbVars /\ \A o \in Requests \ {r} : pc'[o] = pc[o] /\ req'[o] = req[o]
    BY <1>3, PrivateFrame
  <2>2. /\ AttemptLocal(r)'
        /\ HoldsAttempt(r)' =>
             \A o \in Requests \ {r} : HoldsAttempt(o) => req[o].quiz # req'[r].quiz
    BY <1>3, AttemptPrivate
  <2>3. \A q : AttemptsOf(q)' = AttemptsOf(q)
    BY <2>1 DEF dbVars, AttemptsOf
  <2>4. AttemptsNumbered'
    BY <2>1, <2>3 DEF dbVars, AttemptInv, AttemptsNumbered
  <2>5. \A o \in Requests : AttemptLocal(o)'
    BY <2>1, <2>2, <2>3 DEF AttemptInv, AttemptLocal, HoldsAttempt
  <2> QED BY <2>1, <2>2, <2>4, <2>5 DEF AttemptInv, HoldsAttempt
<1>4. ASSUME NEW r \in Requests, Commit(r) PROVE AttemptInv'
  BY <1>4, AttemptCommit
<1> QED BY <1>1, <1>2, <1>3, <1>4, StepCases

-----------------------------------------------------------------------------
(* TypeOK: the rest. *)
LEMMA NextMessageOrdinal ==
  ASSUME TypeOK, MessageInv
  PROVE  /\ NextOrdinal(messages) \in 0 .. 2 * session.turnCount
         /\ \A m \in messages : m.ordinal < NextOrdinal(messages)
<1>1. PICK b \in Nat : b = 2 * session.turnCount
  BY DEF TypeOK
<1>2. \A m \in messages : m.ordinal \in Nat /\ m.ordinal < b
  BY <1>1 DEF TypeOK, MessageInv
<1> QED BY <1>1, <1>2, NextOrdinalAbove

(* Types survive a private step. *)
LEMMA TypePrivate ==
  ASSUME TypeOK, TurnInv, MessageInv, NEW r \in Requests, Private(r)
  PROVE  TypeOK'
<1> USE DEF TypeOK, Goto, Label, Open, dbVars
<1>1. CASE CreateTurn(r) BY <1>1, TypeCreate
<1>2. CASE RefuseUnreadyPaper(r)
  <2>1. [req[r] EXCEPT !.kind = "refused"] \in Copy
    BY DEF Copy, Kind
  <2>2. req' = [req EXCEPT ![r] = [req[r] EXCEPT !.kind = "refused"]]
    BY <1>2 DEF RefuseUnreadyPaper
  <2> QED BY <1>2, <2>1, <2>2 DEF RefuseUnreadyPaper
<1>3. CASE AgentStep(r) BY <1>3, TypeAgent
<1>4. CASE GradePending(r) \/ InsertAttempt(r) \/ Transition(r)
  BY <1>4, TypeGrading DEF GradingStep
<1>5. CASE ReadOrdinal(r)
  <2>1. PICK n : n = NextOrdinal(turns)
    OBVIOUS
  <2>2. n \in Nat
    BY <2>1, NextTurnOrdinal DEF TurnInv
  <2>3. [req[r] EXCEPT !.turn = n] \in Copy
    BY <2>2 DEF Copy
  <2>4. req' = [req EXCEPT ![r] = [req[r] EXCEPT !.turn = n]]
    BY <1>5, <2>1 DEF ReadOrdinal
  <2> QED BY <1>5, <2>3, <2>4 DEF ReadOrdinal
<1>6. CASE InsertTurn(r) BY <1>6 DEF InsertTurn
<1>7. CASE AppendExchange(r)
  <2>1. PICK n : n = NextOrdinal(messages)
    OBVIOUS
  <2>2. n \in Nat
    BY <2>1, NextMessageOrdinal
  <2>3. [req[r] EXCEPT !.message = n] \in Copy
    BY <2>2 DEF Copy
  <2>4. req' = [req EXCEPT ![r] = [req[r] EXCEPT !.message = n]]
    BY <1>7, <2>1 DEF AppendExchange
  <2> QED BY <1>7, <2>3, <2>4 DEF AppendExchange
<1>8. CASE Stream(r) BY <1>8 DEF Stream, Ended
<1>9. CASE Aborted(r) BY <1>9, TypeRollback DEF Aborted
<1> QED
  BY <1>1, <1>2, <1>3, <1>4, <1>5, <1>6, <1>7, <1>8, <1>9 DEF Private

(* Types survive a commit. *)
LEMMA TypeCommit ==
  ASSUME TypeOK, NEW r \in Requests, Local(r), QuizInv, Commit(r)
  PROVE  TypeOK'
<1>1. req[r] \in Copy
  BY DEF TypeOK
<1>2. session' \in [activity : Activity, pending : Requested,
                    concept : Requested, turnCount : Nat]
  BY <1>1 DEF Commit, WrittenRow, TypeOK, Copy
<1>3. turns' \subseteq [by : Requests, ordinal : Nat, kind : Kind]
  BY <1>1 DEF Commit, TypeOK, Copy
<1>4. messages' \subseteq [by : Requests, role : {"user", "assistant"}, ordinal : Nat]
  <2>1. req[r].message \in Nat /\ req[r].message + 1 \in Nat
    BY <1>1 DEF Copy
  <2> QED BY <2>1 DEF Commit, Exchange, TypeOK
<1>5. quizzes' \subseteq Requests
  BY DEF Commit, TypeOK
<1>6. attempts' \subseteq [quiz : Requests, no : Nat \ {0}, grade : Grade, by : Requests]
      /\ IsFiniteSet(attempts')
  <2>1. CASE req[r].kind = "graded"
    <3> DEFINE new == [quiz |-> req[r].quiz, no |-> req[r].no,
                       grade |-> req[r].grade, by |-> r]
    <3>1. attempts' = attempts \cup {new}
      BY <2>1 DEF Commit
    <3>2. new \in [quiz : Requests, no : Nat \ {0}, grade : Grade, by : Requests]
      BY <1>1, <2>1 DEF Commit, Copy, Local, HoldsAttempt, QuizInv, QuizLocal, TypeOK
    <3> HIDE DEF new
    <3> QED BY <3>1, <3>2, FS_AddElement DEF TypeOK
  <2>2. CASE req[r].kind # "graded"
    BY <2>2 DEF Commit, TypeOK
  <2> QED BY <2>1, <2>2
<1>7. rowLock' \in Requested
  BY DEF Commit, Requested
<1>8. pc' \in [Requests -> Label] /\ req' \in [Requests -> Copy]
  BY FreshType DEF Commit, Goto, TypeOK, Label
<1>9. clock' = clock /\ started' = started
  BY DEF Commit
<1> QED BY <1>2, <1>3, <1>4, <1>5, <1>6, <1>7, <1>8, <1>9 DEF TypeOK

(* Types survive every step. *)
LEMMA TypeStep ==
  ASSUME TypeOK, \A r \in Requests : Local(r), QuizInv, TurnInv, MessageInv,
         [Next]_vars
  PROVE  TypeOK'
<1>1. CASE UNCHANGED vars
  BY <1>1 DEF vars, dbVars, TypeOK
<1>2. CASE PruneExpired
  BY <1>2 DEF PruneExpired, TypeOK
<1>3. ASSUME NEW r \in Requests, Private(r) \/ Commit(r) PROVE TypeOK'
  BY <1>3, TypePrivate, TypeCommit
<1> QED BY <1>1, <1>2, <1>3, StepCases

-----------------------------------------------------------------------------
(* MessageInv: the transcript. *)
LEMMA MessageInit == Init => MessageInv
  BY DEF Init, MessageInv, ExchangesWhole, TranscriptFollowsTurns, MessageLocal

(* MessageInv survives a private step. *)
LEMMA MessagePrivate ==
  ASSUME TypeOK, NEW r \in Requests, MessageInv, Private(r)
  PROVE  MessageLocal(r)'
<1> USE DEF TypeOK, Goto, Copy, MessageInv, MessageLocal, dbVars
<1>1. CASE CreateTurn(r) BY <1>1 DEF CreateTurn
<1>2. CASE RefuseUnreadyPaper(r) BY <1>2 DEF RefuseUnreadyPaper
<1>3. CASE AgentStep(r)
  BY <1>3 DEF AgentStep, RunTurn, Gate, AskQuiz, RetryTurn, ComposeAnswer
<1>4. CASE GradePending(r) BY <1>4 DEF GradePending
<1>5. CASE InsertAttempt(r) BY <1>5 DEF InsertAttempt
<1>6. CASE Transition(r) BY <1>6 DEF Transition
<1>7. CASE ReadOrdinal(r) BY <1>7 DEF ReadOrdinal
<1>8. CASE InsertTurn(r) BY <1>8 DEF InsertTurn
<1>9. CASE AppendExchange(r)
  <2>1. req'[r].message = NextOrdinal(messages) /\ UNCHANGED dbVars
    BY <1>9 DEF AppendExchange
  <2> QED BY <2>1, NextMessageOrdinal
<1>10. CASE Stream(r) BY <1>10 DEF Stream
<1>11. CASE Aborted(r) BY <1>11 DEF Aborted, Rollback
<1> QED
  BY <1>1, <1>2, <1>3, <1>4, <1>5, <1>6, <1>7, <1>8, <1>9, <1>10, <1>11 DEF Private

(* MessageInv survives retention: an exchange expires as a whole. *)
LEMMA MessagePrune ==
  ASSUME TypeOK, MessageInv, PruneExpired
  PROVE  MessageInv'
<1>1. PICK cutoff \in 1 .. clock :
        messages' = {m \in messages : started[m.by] > cutoff}
  BY DEF PruneExpired
<1>2. UNCHANGED <<session, turns, started, pc, req>>
  BY DEF PruneExpired
<1>3. messages' \subseteq messages
      /\ \A m \in messages', n \in messages : n.by = m.by => n \in messages'
  BY <1>1
<1>4. ExchangesWhole'
  <2>1. ASSUME NEW m \in messages'
        PROVE  \E n \in messages' :
                 /\ n.by = m.by
                 /\ IF m.role = "user"
                    THEN n.role = "assistant" /\ n.ordinal = m.ordinal + 1
                    ELSE n.role = "user" /\ m.ordinal = n.ordinal + 1
    BY <1>3 DEF MessageInv, ExchangesWhole
  <2> QED BY <1>3, <2>1 DEF MessageInv, ExchangesWhole
<1>5. TranscriptFollowsTurns'
  BY <1>2, <1>3 DEF MessageInv, TranscriptFollowsTurns
<1> QED BY <1>2, <1>3, <1>4, <1>5 DEF MessageInv, MessageLocal

(* What a commit adds to the transcript: an exchange above all of it. *)
LEMMA CommitExchange ==
  ASSUME TypeOK, NEW r \in Requests, MessageInv, TurnInv, Commit(r)
  PROVE  \E k \in Nat :
           /\ messages' = messages \cup
                {[by |-> r, role |-> "user", ordinal |-> k],
                 [by |-> r, role |-> "assistant", ordinal |-> k + 1]}
           /\ \A m \in messages : m.ordinal < k /\ m.by # r
           /\ k + 1 < 2 * session'.turnCount
<1>1. PICK k \in Nat : k = req[r].message
  BY DEF TypeOK, Copy
<1>2. k <= 2 * session.turnCount /\ \A m \in messages : m.ordinal < k
  BY <1>1 DEF Commit, MessageInv, MessageLocal
<1>3. session.turnCount \in Nat /\ session'.turnCount = session.turnCount + 1
  BY CommitTurn DEF TypeOK
<1>4. \A m \in messages : m.by # r
  BY CommitTurn DEF MessageInv, TranscriptFollowsTurns
<1> QED BY <1>1, <1>2, <1>3, <1>4 DEF Commit, Exchange

(* MessageInv survives a commit: the exchange goes above all others. *)
LEMMA MessageCommit ==
  ASSUME TypeOK, NEW r \in Requests, MessageInv, TurnInv, Commit(r)
  PROVE  MessageInv'
<1>0. PICK k \in Nat :
        /\ messages' = messages \cup
             {[by |-> r, role |-> "user", ordinal |-> k],
              [by |-> r, role |-> "assistant", ordinal |-> k + 1]}
        /\ \A m \in messages : m.ordinal < k /\ m.by # r
        /\ k + 1 < 2 * session'.turnCount
  BY CommitExchange
<1>1. PICK asked, answer :
        /\ asked = [by |-> r, role |-> "user", ordinal |-> k]
        /\ answer = [by |-> r, role |-> "assistant", ordinal |-> k + 1]
        /\ messages' = messages \cup {asked, answer}
        /\ \A m \in messages : m.ordinal < k /\ m.by # r
        /\ k + 1 < 2 * session'.turnCount
  BY <1>0
<1>2. \A m \in messages : m.ordinal \in Nat
  BY DEF TypeOK
<1>3. ExchangesWhole'
  <2>1. ASSUME NEW m \in messages'
        PROVE  \E n \in messages' :
                 /\ n.by = m.by
                 /\ IF m.role = "user"
                    THEN n.role = "assistant" /\ n.ordinal = m.ordinal + 1
                    ELSE n.role = "user" /\ m.ordinal = n.ordinal + 1
    <3>1. CASE m \in messages
      BY <1>1, <3>1 DEF MessageInv, ExchangesWhole
    <3>2. CASE m = asked
      BY <1>1, <3>2
    <3>3. CASE m = answer
      BY <1>1, <3>3
    <3> QED BY <1>1, <3>1, <3>2, <3>3
  <2>2. \A m, n \in messages' : m.ordinal = n.ordinal => m = n
    BY <1>1, <1>2 DEF MessageInv, ExchangesWhole
  <2> QED BY <2>1, <2>2 DEF ExchangesWhole
<1>4. TranscriptFollowsTurns'
  <2>1. PICK new : /\ new = [by |-> r, ordinal |-> session.turnCount,
                             kind |-> req[r].kind]
                   /\ turns' = turns \cup {new}
                   /\ \A t \in turns : t.by # r /\ t.ordinal < session.turnCount
    BY CommitTurn
  <2>2. \A m \in messages' : \E t \in turns' : t.by = m.by
    BY <1>1, <2>1 DEF MessageInv, TranscriptFollowsTurns
  <2>3. ASSUME NEW m \in messages', NEW n \in messages', NEW t \in turns', NEW u \in turns',
               t.by = m.by, u.by = n.by, t.ordinal < u.ordinal
        PROVE  m.ordinal < n.ordinal
    <3>0. session.turnCount \in Nat
      BY DEF TypeOK
    <3>1. CASE t = new
      BY <2>1, <2>3, <3>0, <3>1 DEF TypeOK
    <3>2. CASE t # new /\ u = new
      <4>1. m \in messages /\ n \in {asked, answer}
        BY <1>1, <2>1, <2>3, <3>2
      <4> QED BY <1>1, <1>2, <4>1
    <3>3. CASE t # new /\ u # new
      <4>1. m \in messages /\ n \in messages /\ t \in turns /\ u \in turns
        BY <1>1, <2>1, <2>3, <3>3
      <4> QED BY <2>3, <4>1 DEF MessageInv, TranscriptFollowsTurns
    <3> QED BY <3>1, <3>2, <3>3
  <2> QED BY <2>2, <2>3 DEF TranscriptFollowsTurns
<1>5. \A m \in messages' : m.ordinal < 2 * session'.turnCount
  <2>1. session.turnCount \in Nat /\ session'.turnCount = session.turnCount + 1
    BY CommitTurn DEF TypeOK
  <2>2. \A m \in messages : m.ordinal < 2 * session.turnCount
    BY DEF MessageInv
  <2> QED BY <1>1, <1>2, <2>1, <2>2
<1>6. \A o \in Requests : MessageLocal(o)'
  <2>1. \A o \in Requests : ~ HoldsTurn(o)'
    BY CommitTurn DEF Commit, Goto, HoldsTurn, TypeOK
  <2> QED BY <2>1 DEF MessageLocal, HoldsTurn
<1> QED BY <1>3, <1>4, <1>5, <1>6 DEF MessageInv

(* MessageInv survives every step. *)
LEMMA MessageStep ==
  ASSUME TypeOK, TurnInv, MessageInv, [Next]_vars
  PROVE  MessageInv'
<1>1. CASE UNCHANGED vars
  BY <1>1 DEF vars, dbVars, MessageInv, ExchangesWhole, TranscriptFollowsTurns, MessageLocal
<1>2. CASE PruneExpired
  BY <1>2, MessagePrune
<1>3. ASSUME NEW r \in Requests, Private(r) PROVE MessageInv'
  <2>1. messages' = messages /\ turns' = turns /\ session' = session
    BY <1>3, PrivateFrame DEF dbVars
  <2>2. ExchangesWhole' /\ TranscriptFollowsTurns'
    BY <2>1 DEF MessageInv, ExchangesWhole, TranscriptFollowsTurns
  <2>3. \A m \in messages' : m.ordinal < 2 * session'.turnCount
    BY <2>1 DEF MessageInv
  <2>4. \A o \in Requests \ {r} : MessageLocal(o)'
    BY <1>3, <2>1, PrivateFrame DEF MessageInv, MessageLocal
  <2>5. MessageLocal(r)'
    BY <1>3, MessagePrivate
  <2> QED BY <2>2, <2>3, <2>4, <2>5 DEF MessageInv
<1>4. ASSUME NEW r \in Requests, Commit(r) PROVE MessageInv'
  BY <1>4, MessageCommit
<1> QED BY <1>1, <1>2, <1>3, <1>4, StepCases

-----------------------------------------------------------------------------
(* Local facts hold initially. *)
LEMMA LocalInit == Init => \A r \in Requests : Local(r)
  BY DEF Init, Local, Open, Fresh, HoldsAttempt

(* The inductive invariant, from which the correctness theorems follow: it  *)
(* holds of every reachable state of a session under concurrent turns.      *)
THEOREM Invariance == Spec => []IInv
<1>1. Init => IInv
  BY TypeInit, LocalInit, QuizInit, TurnInit, AttemptInit, MessageInit DEF IInv
<1>2. IInv /\ [Next]_vars => IInv'
  <2> SUFFICES ASSUME IInv, [Next]_vars PROVE IInv'
    OBVIOUS
  <2>1. TypeOK'
    BY TypeStep DEF IInv
  <2>2. (\A r \in Requests : Local(r))'
    BY LocalStep DEF IInv
  <2>3. QuizInv' /\ TurnInv' /\ AttemptInv' /\ MessageInv'
    BY QuizStep, TurnStep, AttemptStep, MessageStep DEF IInv
  <2>4. PendingUnanswered'
    BY PendingStep DEF IInv, AttemptInv
  <2> QED BY <2>1, <2>2, <2>3, <2>4 DEF IInv
<1> QED BY <1>1, <1>2, PTL DEF Spec

(* Types hold of every reachable state (turns.py, models.py: the columns). *)
THEOREM TypeCorrect == Spec => []TypeOK
<1>1. IInv => TypeOK
  BY DEF IInv
<1> QED BY <1>1, Invariance, PTL

(* Turn ordinals are 0 .. turn_count - 1, each once (turns.py _next_ordinal, *)
(* _persist).                                                                *)
THEOREM OrdinalsCorrect == Spec => []TurnsGapless
<1>1. IInv => TurnsGapless
  BY DEF IInv, TurnInv
<1> QED BY <1>1, Invariance, PTL

(* A question is kept with its answer, and they expire together (messages.py *)
(* append_exchange, prune_expired).                                          *)
THEOREM ExchangesKept == Spec => []ExchangesWhole
<1>1. IInv => ExchangesWhole
  BY DEF IInv, MessageInv
<1> QED BY <1>1, Invariance, PTL

(* Reading the messages of a session in their order reads its turns in      *)
(* theirs, whichever requests raced (turns.py _persist, messages.py          *)
(* append_exchange).                                                         *)
THEOREM TranscriptCorrect == Spec => []TranscriptFollowsTurns
<1>1. IInv => TranscriptFollowsTurns
  BY DEF IInv, MessageInv
<1> QED BY <1>1, Invariance, PTL

(* The CHECK on the session's activity never fires (models.py Session,       *)
(* quizzes.py create and grade_pending, runner.py _reset_for_retry).         *)
THEOREM PendingCorrect == Spec => []QuizPendingConsistency
<1>1. IInv => QuizPendingConsistency
  BY DEF IInv, QuizInv, QuizLocal, QuizPendingConsistency
<1> QED BY <1>1, Invariance, PTL

(* Attempts at a quiz are numbered without gap or repeat, whichever graders  *)
(* raced for the session's row (quizzes.py grade_pending).                   *)
THEOREM AttemptsCorrect == Spec => []AttemptsNumbered
<1>1. IInv => AttemptsNumbered
  BY DEF IInv, AttemptInv
<1> QED BY <1>1, Invariance, PTL

(* No answered quiz comes back as pending (quizzes.py grade_pending).        *)
THEOREM AnsweredStaysAnswered == Spec => []PendingUnanswered
<1>1. IInv => PendingUnanswered
  BY DEF IInv
<1> QED BY <1>1, Invariance, PTL

-----------------------------------------------------------------------------
(* The committed rows implement SessionLog. *)

(* Entry i of the log is the request of the turn whose ordinal is i - 1. *)
LogShape ==
  /\ TurnLog \in Seq(Requests)
  /\ Len(TurnLog) = session.turnCount
  /\ \A t \in turns : t.ordinal + 1 \in 1 .. session.turnCount
                     /\ TurnLog[t.ordinal + 1] = t.by
  /\ \A i \in 1 .. session.turnCount :
       \E t \in turns : t.ordinal = i - 1 /\ TurnLog[i] = t.by

(* The committed turns can be read as a log. *)
LEMMA LogIsShaped == IInv => LogShape
<1> SUFFICES ASSUME TypeOK, TurnsGapless PROVE LogShape
  BY DEF IInv, TurnInv
<1>1. session.turnCount \in Nat
  BY DEF TypeOK
<1>2. ASSUME NEW t \in turns
      PROVE  /\ t.ordinal + 1 \in 1 .. session.turnCount
             /\ TurnLog[t.ordinal + 1] = t.by
  <2>1. t.ordinal \in Nat /\ t.by \in Requests
    BY DEF TypeOK
  <2>2. t.ordinal \in 0 .. session.turnCount - 1
    BY DEF TurnsGapless
  <2>3. PICK i : i = t.ordinal + 1
    OBVIOUS
  <2>4. i \in 1 .. session.turnCount /\ i - 1 = t.ordinal
    BY <1>1, <2>1, <2>2, <2>3
  <2>5. \A r \in Requests :
         (\E u \in turns : u.by = r /\ u.ordinal = i - 1) <=> r = t.by
    BY <2>4 DEF TurnsGapless
  <2>6. (CHOOSE r \in Requests : \E u \in turns : u.by = r /\ u.ordinal = i - 1) = t.by
    BY <2>1, <2>5
  <2> QED BY <2>3, <2>4, <2>6 DEF TurnLog
<1>3. ASSUME NEW i \in 1 .. session.turnCount
      PROVE  \E t \in turns : t.ordinal = i - 1 /\ TurnLog[i] = t.by
  <2>1. i - 1 \in 0 .. session.turnCount - 1
    BY <1>1
  <2>2. PICK t \in turns : t.ordinal = i - 1
    BY <2>1 DEF TurnsGapless
  <2>3. t.ordinal + 1 = i
    BY <2>2
  <2> QED BY <1>2, <2>2, <2>3
<1>4. TurnLog \in [1 .. session.turnCount -> Requests]
  <2>1. \A i \in 1 .. session.turnCount : TurnLog[i] \in Requests
    BY <1>3 DEF TypeOK
  <2> QED BY <2>1 DEF TurnLog
<1> QED BY <1>1, <1>2, <1>3, <1>4 DEF LogShape

(* A commit records its request, with both its messages, at the end of the log. *)
LEMMA LogCommit ==
  ASSUME IInv, LogShape, LogShape', NEW r \in Requests, Commit(r)
  PROVE  Log!Record(r)
<1>1. TypeOK /\ TurnInv /\ MessageInv
  BY DEF IInv
<1>2. PICK n \in Nat : n = session.turnCount
  BY <1>1 DEF TypeOK
<1>3. session'.turnCount = n + 1
  BY <1>1, <1>2, CommitTurn
<1>4. PICK new : /\ new = [by |-> r, ordinal |-> n, kind |-> req[r].kind]
                 /\ turns' = turns \cup {new}
                 /\ \A t \in turns : t.by # r
  BY <1>1, <1>2, CommitTurn
<1>5. r \notin Log!Recorded
  <2>1. ASSUME NEW i \in 1 .. Len(TurnLog) PROVE TurnLog[i] # r
    <3>1. i \in 1 .. session.turnCount
      BY DEF LogShape
    <3>2. PICK t \in turns : TurnLog[i] = t.by
      BY <3>1 DEF LogShape
    <3> QED BY <1>4, <3>2
  <2> QED BY <2>1 DEF Log!Recorded
<1>6. PICK log, next : log = TurnLog /\ next = TurnLog'
  OBVIOUS
<1>7. log \in Seq(Requests) /\ Len(log) = n /\ next \in Seq(Requests) /\ Len(next) = n + 1
  BY <1>2, <1>3, <1>6 DEF LogShape
<1>8. next[n + 1] = r
  BY <1>4, <1>6 DEF LogShape
<1>9. ASSUME NEW i \in 1 .. n PROVE next[i] = log[i]
  <2>1. PICK t \in turns : t.ordinal = i - 1 /\ log[i] = t.by
    BY <1>2, <1>6 DEF LogShape
  <2>2. t.ordinal + 1 = i /\ t \in turns'
    BY <1>4, <2>1
  <2>3. next[t.ordinal + 1] = t.by
    BY <1>6, <2>2 DEF LogShape
  <2> QED BY <2>1, <2>2, <2>3
<1>10. next = Append(log, r)
  <2>1. Append(log, r) \in Seq(Requests) /\ Len(Append(log, r)) = n + 1
        /\ Append(log, r)[n + 1] = r
    BY <1>7
  <2>2. \A i \in 1 .. n : Append(log, r)[i] = log[i]
    BY <1>7
  <2>3. \A i \in 1 .. n + 1 : i \in 1 .. n \/ i = n + 1
    OBVIOUS
  <2>4. \A i \in 1 .. n + 1 : next[i] = Append(log, r)[i]
    BY <1>8, <1>9, <2>1, <2>2, <2>3
  <2> QED BY <1>7, <2>1, <2>4
<1>11. Kept' = Kept \cup {r}
  <2>0. PICK k \in Nat :
          messages' = messages \cup
            {[by |-> r, role |-> "user", ordinal |-> k],
             [by |-> r, role |-> "assistant", ordinal |-> k + 1]}
    BY <1>1, CommitExchange
  <2>1. PICK asked, answer :
          /\ asked = [by |-> r, role |-> "user", ordinal |-> k]
          /\ answer = [by |-> r, role |-> "assistant", ordinal |-> k + 1]
          /\ messages' = messages \cup {asked, answer}
    BY <2>0
  <2>2. ASSUME NEW o \in Requests, o # r PROVE o \in Kept' <=> o \in Kept
    BY <2>1, <2>2 DEF Kept
  <2>3. r \in Kept'
    BY <2>1 DEF Kept
  <2>4. Kept \subseteq Requests /\ Kept' \subseteq Requests
    BY DEF Kept
  <2> QED BY <2>2, <2>3, <2>4
<1> QED BY <1>5, <1>6, <1>10, <1>11 DEF Log!Record

(* Every step of the session is a step of the log or leaves it alone. *)
LEMMA LogStep ==
  ASSUME IInv, LogShape, LogShape', [Next]_vars
  PROVE  [Log!Next]_<<TurnLog, Kept>>
<1>1. CASE UNCHANGED vars
  BY <1>1 DEF vars, dbVars, TurnLog, Kept
<1>2. CASE PruneExpired
  <2>1. messages' \subseteq messages /\ UNCHANGED <<session, turns>>
    BY <1>2 DEF PruneExpired
  <2>2. TurnLog' = TurnLog /\ Kept' \subseteq Kept
    BY <2>1 DEF TurnLog, Kept
  <2> QED BY <2>2 DEF Log!Next, Log!Expire
<1>3. ASSUME NEW r \in Requests, Private(r) PROVE UNCHANGED <<TurnLog, Kept>>
  <2>1. UNCHANGED dbVars
    BY <1>3, PrivateFrame DEF IInv
  <2> QED BY <2>1 DEF dbVars, TurnLog, Kept
<1>4. ASSUME NEW r \in Requests, Commit(r) PROVE Log!Next
  BY <1>4, LogCommit DEF Log!Next
<1> QED BY <1>1, <1>2, <1>3, <1>4, StepCases DEF IInv

(* Concurrent turn requests on one session are committed as a serial log of  *)
(* whole exchanges (turns.py _persist: "in one transaction").                *)
THEOREM Refinement == Spec => SerialLog
<1>1. Init => Log!Init
  BY DEF Init, Log!Init, TurnLog, Kept
<1>2. IInv /\ LogShape /\ LogShape' /\ [Next]_vars => [Log!Next]_<<TurnLog, Kept>>
  BY LogStep
<1> QED BY <1>1, <1>2, LogIsShaped, Invariance, PTL DEF Spec, SerialLog, Log!Spec
=============================================================================
