---------------------------- MODULE ReaderProfile ----------------------------
(***************************************************************************)
(* What one reader's turns in different sessions share besides memory: the *)
(* cross-paper callback gate (app/services/callbacks.py), the feedback and *)
(* the preferences it moves (app/services/feedback.py, app/routers/        *)
(* feedback.py), and the order in which a turn writes them (app/services/  *)
(* turns.py).                                                              *)
(*                                                                         *)
(* A turn and a feedback request are one READ COMMITTED transaction each.  *)
(* created_at of a turn is the start of its transaction.  A turn locks the *)
(* concept of its signal when it writes it, the feedback rows it stamps,   *)
(* and then, when it had no signal, the concept of the backstop.           *)
(***************************************************************************)
EXTENDS Integers, Sequences, FiniteSets

CONSTANTS
  Turns, Feedbacks,       \* the requests
  Papers, Concepts,
  Sources,                \* source_paper_ids of each concept
  Kinds,                  \* feedback types in play
  Style,                  \* the style a style_preference names
  CALLBACK_MIN_TURN_GAP,
  MaxChanges,             \* a bound on removals and uploads
  None

(* callback_suppressed_reason *)
Suppressions == {"personalization_off", "proactivity_off", "no_memory",
                 "no_weak_candidate", "rate_limited", "grant_revoked"}

ASSUME ProfileAssumption ==
  /\ Turns \cap Feedbacks = {}
  /\ Sources \in [Concepts -> SUBSET Papers]
  /\ Kinds \subseteq {"too_basic", "too_advanced", "style_preference", "helpful"}
  /\ CALLBACK_MIN_TURN_GAP \in Nat
  /\ MaxChanges \in Nat
  /\ None \notin Papers \cup Concepts \cup Turns \cup {Style} \cup Suppressions

VARIABLES
  prefs,     \* users.preferences
  log,       \* the committed feedback, in commit order
  applied,   \* applied_to_turn_id of each feedback
  turns,     \* the committed turns
  memory,    \* the concepts the reader has met before; never changes here
  granted,   \* the papers the reader may read
  clock,     \* transactions of turns started so far
  changes,   \* removals and uploads left, a bound
  turn,      \* each turn in flight
  request    \* each feedback request

requestVars == <<prefs, log, request, memory>>
vars == <<requestVars, applied, turns, granted, clock, changes, turn>>

-----------------------------------------------------------------------------
(* PROACTIVITY_GAP_MULTIPLIER, in halves; "off" has none. *)
PROACTIVITY_GAP_MULTIPLIER == [low |-> 4, normal |-> 2, high |-> 1]

(* Python's round: a half goes to the even neighbour. *)
RoundHalves(n) ==
  IF n % 2 = 0 THEN n \div 2
  ELSE IF (n \div 2) % 2 = 0 THEN n \div 2 ELSE n \div 2 + 1

MinimumGap(level) ==
  LET gap == RoundHalves(CALLBACK_MIN_TURN_GAP * PROACTIVITY_GAP_MULTIPLIER[level])
  IN  IF gap < 1 THEN 1 ELSE gap

DEPTH_LEVELS == <<"introductory", "normal", "detailed", "expert">>
DEFAULT_DEPTH == "normal"

(* One step along the scale, and no further than its ends. *)
ShiftDepth(depth, direction) ==
  LET at == (CHOOSE i \in DOMAIN DEPTH_LEVELS : DEPTH_LEVELS[i] = depth) + direction
  IN  IF at \in DOMAIN DEPTH_LEVELS THEN DEPTH_LEVELS[at] ELSE depth

Standing == {"too_basic", "too_advanced", "style_preference"}

(* What a feedback makes of the preferences it loaded. *)
Moved(p, kind) ==
  CASE kind = "too_basic" -> [p EXCEPT !.depth = ShiftDepth(p.depth, 1)]
    [] kind = "too_advanced" -> [p EXCEPT !.depth = ShiftDepth(p.depth, -1)]
    [] kind = "style_preference" -> [p EXCEPT !.style = Style]
    [] OTHER -> p

FreshTurn ==
  [pc |-> "idle", at |-> 0, active |-> None, level |-> "normal", seen |-> None,
   candidates |-> <<>>, concept |-> None, prior |-> None, reason |-> None,
   signal |-> None, pending |-> {}, holds |-> {},
   gated |-> FALSE,     \* the gate and the composition have read the reader's rows
   open |-> {},         \* history: papers readable at some moment of this turn
   base |-> {},         \* the callbacks the gate found committed
   counted |-> {},      \* history: the turns it counted since the latest of them
   known |-> {}]        \* history: the feedback committed before the gate

FreshRequest == [pc |-> "idle", kind |-> "helpful", copy |-> None, alone |-> TRUE]

Init ==
  /\ prefs \in [depth : {DEFAULT_DEPTH}, style : {None},
                proactivity : {"off"} \cup DOMAIN PROACTIVITY_GAP_MULTIPLIER,
                personalization_enabled : BOOLEAN]
  /\ log = <<>>
  /\ applied = [f \in Feedbacks |-> None]
  /\ turns = {}
  /\ memory \in SUBSET Concepts
  /\ granted = Papers
  /\ clock = 0
  /\ changes \in 0..MaxChanges
  /\ turn = [t \in Turns |-> FreshTurn]
  /\ request = [f \in Feedbacks |-> FreshRequest]

-----------------------------------------------------------------------------
(* Feedback. *)

Reading(f) == request[f].pc = "read"

(* record: the user row is loaded; requests that overlap are marked. *)
LoadPreferences(f) ==
  /\ request[f].pc = "idle"
  /\ \E kind \in Kinds :
       request' = [g \in Feedbacks |->
         IF g = f
         THEN [pc |-> "read", kind |-> kind, copy |-> prefs,
               alone |-> ~ \E o \in Feedbacks : Reading(o)]
         ELSE [request[g] EXCEPT !.alone = @ /\ ~ Reading(g)]]
  /\ UNCHANGED <<prefs, log, memory, applied, turns, granted, clock, changes, turn>>

(* Mutant: a change of depth drops the style of the loaded column. *)
RecordReplacing(f) ==
  LET new == Moved([request[f].copy EXCEPT !.style = None], request[f].kind)
  IN  /\ Reading(f)
      /\ prefs' = IF new = request[f].copy THEN prefs ELSE new
      /\ log' = Append(log, f)
      /\ request' = [request EXCEPT ![f].pc = "done"]
      /\ UNCHANGED <<memory, applied, turns, granted, clock, changes, turn>>

(* The whole JSONB column is written, unless it equals the loaded one. *)
Record(f) ==
  LET new == Moved(request[f].copy, request[f].kind)
  IN  /\ Reading(f)
      /\ prefs' = IF new = request[f].copy THEN prefs ELSE new
      /\ log' = Append(log, f)
      /\ request' = [request EXCEPT ![f].pc = "done"]
      /\ UNCHANGED <<memory, applied, turns, granted, clock, changes, turn>>

(* A paper is removed from the shelf, or uploaded again. *)
Revoke(p) ==
  /\ p \in granted /\ changes > 0
  /\ granted' = granted \ {p}
  /\ changes' = changes - 1
  /\ UNCHANGED <<requestVars, applied, turns, clock, turn>>

InFlight(t) == turn[t].pc \notin {"idle", "done", "failed"}

(* The steps of a turn up to the decision on its callback. *)
Undecided == {"gate", "gap", "authorize"}

Grant(p) ==
  /\ p \notin granted /\ changes > 0
  /\ granted' = granted \cup {p}
  /\ changes' = changes - 1
  /\ turn' = [t \in Turns |-> IF turn[t].pc \in Undecided
                              THEN [turn[t] EXCEPT !.open = @ \cup {p}]
                              ELSE turn[t]]
  /\ UNCHANGED <<requestVars, applied, turns, clock>>

-----------------------------------------------------------------------------
(* A turn. *)

Set(t, record) ==
  /\ turn' = [turn EXCEPT ![t] = record]
  /\ UNCHANGED <<requestVars, applied, turns, granted, clock, changes>>

(* The transaction starts; an unreadable paper leaves the scope empty. *)
Begin(t) ==
  /\ turn[t].pc = "idle"
  /\ clock' = clock + 1
  /\ \E p \in granted \cup {None} :
       turn' = [turn EXCEPT ![t] = [FreshTurn EXCEPT !.pc = "gate", !.at = clock + 1,
                                      !.active = p, !.open = granted]]
  /\ UNCHANGED <<requestVars, applied, turns, granted, changes>>

(* An unready paper, or a quiz answer, whose grade is a signal about a      *)
(* concept: the turn records no gate, and applies no feedback.              *)
AnswerWithoutAgent(t) ==
  /\ turn[t].pc = "gate"
  /\ \E c \in memory \cup {None} :
       Set(t, [turn[t] EXCEPT !.pc = IF c = None THEN "commit" ELSE "signal",
                              !.signal = c, !.open = {}, !.active = None])

Callbacks(log_) == {x \in log_ : x.concept # None}

Since(log_, moment) == Cardinality({x \in log_ : x.at > moment})

(* Mutant: the turn that made the callback counts as one since. *)
GapSatisfiedEarly(t) ==
  \A x \in turn[t].base :
    (\A y \in turn[t].base : y.at <= x.at) =>
      Since(turns, x.at) + 1 >= MinimumGap(turn[t].level)

(* _gap_satisfied: turns of any session since the latest callback. *)
GapSatisfied(t) ==
  \A x \in turn[t].base :
    (\A y \in turn[t].base : y.at <= x.at) =>
      Since(turns, x.at) >= MinimumGap(turn[t].level)

(* Some of the other concepts, in some order. *)
Rankings(seen) ==
  {r \in UNION {[1..n -> memory \ {seen}] : n \in 0..Cardinality(memory)} :
     \A i, j \in DOMAIN r : r[i] = r[j] => i = j}

(* prefetch and steps 4 to 6 of decide, up to the moment of the latest       *)
(* callback.  What memory holds, and which weak neighbours it ranks, is a    *)
(* choice; the strongest hit is never one of them.                           *)
Gate(t) ==
  /\ turn[t].pc = "gate"
  /\ \E seen \in memory \cup {None} :
     \E candidates \in IF seen = None THEN {<<>>} ELSE Rankings(seen) :
       LET suppress(reason) == [turn[t] EXCEPT !.pc = "agent", !.reason = reason,
                                             !.open = {}, !.active = None]
           after ==
             IF ~ prefs.personalization_enabled THEN suppress("personalization_off")
             ELSE IF prefs.proactivity = "off" THEN suppress("proactivity_off")
             ELSE IF seen = None THEN suppress("no_memory")
             ELSE IF candidates = <<>> THEN suppress("no_weak_candidate")
             ELSE [turn[t] EXCEPT !.pc = IF Callbacks(turns) = {} THEN "authorize"
                                         ELSE "gap",
                                  !.candidates = candidates, !.base = Callbacks(turns),
                                  !.level = prefs.proactivity]
       IN  Set(t, [after EXCEPT !.seen = seen, !.gated = TRUE,
                                !.known = {log[i] : i \in DOMAIN log}])

(* The turns since are counted by a second statement, which also sees what  *)
(* has been committed in between.                                           *)
CountTurns(t) ==
  /\ turn[t].pc = "gap"
  /\ IF GapSatisfied(t)
     THEN Set(t, [turn[t] EXCEPT !.pc = "authorize", !.counted = turns])
     ELSE Set(t, [turn[t] EXCEPT !.pc = "agent", !.reason = "rate_limited", !.open = {},
                                 !.active = None, !.candidates = <<>>, !.base = {}])

(* _authorized_prior_paper: another paper, with a grant that still stands. *)
PriorPapers(t, c) == (Sources[c] \ {turn[t].active}) \cap granted

(* Mutant: a suppressed callback keeps its concept. *)
AuthorizeNamed(t) ==
  /\ turn[t].pc = "authorize"
  /\ Set(t, [turn[t] EXCEPT !.pc = "agent", !.reason = "grant_revoked",
                            !.concept = turn[t].candidates[1]])

(* Step 7: the first candidate with a readable earlier paper. *)
Authorize(t) ==
  LET ranked == turn[t].candidates
      readable == {i \in DOMAIN ranked : PriorPapers(t, ranked[i]) # {}}
  IN  /\ turn[t].pc = "authorize"
      /\ IF readable = {}
         THEN Set(t, [turn[t] EXCEPT !.pc = "agent", !.reason = "grant_revoked",
                                     !.candidates = <<>>, !.base = {}, !.counted = {},
                                     !.open = {}, !.active = None])
         ELSE LET c == ranked[CHOOSE i \in readable : \A j \in readable : i <= j]
              IN  \E p \in PriorPapers(t, c) :
                    Set(t, [turn[t] EXCEPT !.pc = "agent", !.concept = c, !.prior = p,
                                         !.candidates = <<>>])

(* The agent answers; it may have buffered a signal about a concept. *)
Answer(t) ==
  /\ turn[t].pc = "agent"
  /\ \E c \in memory \cup {None} :
       Set(t, [turn[t] EXCEPT !.pc = IF c = None THEN "pending" ELSE "signal",
                              !.signal = c])

Holds(t, row) == row \in turn[t].holds
Taken(t, row) == \E o \in Turns \ {t} : Holds(o, row)

(* The signal updates its concept's row; a graded answer has nothing more   *)
(* to write about memory.                                                   *)
WriteSignal(t) ==
  /\ turn[t].pc = "signal"
  /\ ~ Taken(t, turn[t].signal)
  /\ Set(t, [turn[t] EXCEPT !.pc = IF turn[t].gated THEN "pending" ELSE "commit",
                              !.holds = @ \cup {turn[t].signal}])

Unapplied ==
  {f \in Feedbacks : /\ f \in {log[i] : i \in DOMAIN log}
                     /\ request[f].kind \in Standing
                     /\ applied[f] = None}

(* apply_pending: the rows are read now and stamped when they are flushed. *)
ReadPending(t) ==
  /\ turn[t].pc = "pending"
  /\ Set(t, [turn[t] EXCEPT !.pc = "stamp", !.pending = Unapplied])

Stamp(t) ==
  /\ turn[t].pc = "stamp"
  /\ \A f \in turn[t].pending : ~ Taken(t, f)
  /\ Set(t, [turn[t] EXCEPT !.holds = @ \cup turn[t].pending,
       !.pc = IF turn[t].signal = None /\ turn[t].seen # None THEN "backstop"
              ELSE "commit"])

(* _backstop_signal: a reinforcement of the first concept seen. *)
Backstop(t) ==
  /\ turn[t].pc = "backstop"
  /\ ~ Taken(t, turn[t].seen)
  /\ Set(t, [turn[t] EXCEPT !.pc = "commit", !.holds = @ \cup {turn[t].seen}])

Commit(t) ==
  /\ turn[t].pc = "commit"
  /\ turns' = turns \cup {[by |-> t, at |-> turn[t].at, concept |-> turn[t].concept,
                           reason |-> turn[t].reason]}
  /\ applied' = [f \in Feedbacks |-> IF f \in turn[t].pending THEN t ELSE applied[f]]
  /\ turn' = [turn EXCEPT ![t] = [@ EXCEPT !.pc = "done", !.holds = {}, !.seen = None,
                                          !.pending = {}, !.signal = None]]
  /\ UNCHANGED <<requestVars, granted, clock, changes>>

(* Mutant: only the statement is undone, and tried again, in the same       *)
(* transaction.                                                             *)
RollBackStatement(t) == Set(t, turn[t])

RollBack(t) == Set(t, [FreshTurn EXCEPT !.pc = "failed"])

(* The agent is unavailable, the answer is empty, the client goes away. *)
Fail(t) == InFlight(t) /\ RollBack(t)

(* The rows a turn needs next. *)
Needs(t) ==
  CASE turn[t].pc = "signal" -> {turn[t].signal}
    [] turn[t].pc = "stamp" -> turn[t].pending
    [] turn[t].pc = "backstop" -> {turn[t].seen}
    [] OTHER -> {}

Waits(t, o) == t # o /\ \E row \in Needs(t) : Holds(o, row)

(* Turns that wait for one another: the database aborts one of them. *)
DeadlockDetected(t) ==
  /\ \E S \in SUBSET Turns :
       /\ t \in S
       /\ \A x \in S : (\E o \in S : Waits(x, o)) /\ (\E o \in S : Waits(o, x))
  /\ RollBack(t)

ServerStep(t) ==
  \/ AnswerWithoutAgent(t)
  \/ Gate(t)
  \/ CountTurns(t)
  \/ Authorize(t)
  \/ Answer(t)
  \/ WriteSignal(t)
  \/ ReadPending(t)
  \/ Stamp(t)
  \/ Backstop(t)
  \/ Commit(t)
  \/ DeadlockDetected(t)

Finished ==
  /\ \A t \in Turns : ~ InFlight(t)
  /\ \A f \in Feedbacks : ~ Reading(f)

Next ==
  \/ \E t \in Turns : Begin(t) \/ ServerStep(t) \/ Fail(t)
  \/ \E f \in Feedbacks : LoadPreferences(f) \/ Record(f)
  \/ \E p \in Papers : Revoke(p) \/ Grant(p)
  \/ Finished /\ UNCHANGED vars

Spec == Init /\ [][Next]_vars

(* The server goes on with a turn that has begun. *)
FairSpec == Spec /\ \A t \in Turns : WF_vars(ServerStep(t))

-----------------------------------------------------------------------------
(* Properties. *)

Preferences ==
  [depth : {DEPTH_LEVELS[i] : i \in DOMAIN DEPTH_LEVELS}, style : {None, Style},
   proactivity : {"off"} \cup DOMAIN PROACTIVITY_GAP_MULTIPLIER,
   personalization_enabled : BOOLEAN]

(* Every variable has its type; a turn that the gate has seen has a concept *)
(* or a reason, never both.                                                 *)
TypeOK ==
  /\ prefs \in Preferences
  /\ log \in Seq(Feedbacks)
  /\ applied \in [Feedbacks -> Turns \cup {None}]
  /\ turns \subseteq [by : Turns, at : 1..clock, concept : Concepts \cup {None},
                      reason : Suppressions \cup {None}]
  /\ granted \subseteq Papers
  /\ \A t \in Turns :
       /\ turn[t].holds \subseteq Concepts \cup Feedbacks
       /\ turn[t].prior \in Papers \cup {None}
       /\ turn[t].gated /\ turn[t].pc \in {"pending", "signal", "stamp", "backstop"} =>
            (turn[t].concept = None) # (turn[t].reason = None)
  /\ \A f \in Feedbacks : request[f].copy \in Preferences \cup {None}

(* Between a callback that another turn's gate found committed and the one   *)
(* it allowed itself lie as many turns as the reader's proactivity asks for, *)
(* in whatever sessions, whatever the order in which long turns commit, and  *)
(* whatever is committed between the two statements of the gate.             *)
CallbacksAreSpaced ==
  \A a, b \in Callbacks(turns) :
    a \in turn[b.by].base =>
      Since(turn[b.by].counted, a.at) >= MinimumGap(turn[b.by].level)

(* A callback leads into a paper other than the open one, which the reader   *)
(* could read at some moment of the turn: what memory remembers of a paper   *)
(* removed before is never enough.                                           *)
CallbackIsReadable ==
  \A t \in Turns : turn[t].concept # None =>
    /\ turn[t].prior \in turn[t].open
    /\ turn[t].prior # turn[t].active
    /\ turn[t].prior \in Sources[turn[t].concept]

(* A callback is neither too soon nor a way into a paper the reader lost.   *)
CallbacksAreDue == CallbacksAreSpaced /\ CallbackIsReadable

(* A feedback that moves a preference, committed before the gate of a turn   *)
(* of the agent, is stamped when that turn commits, by it or by another.     *)
NoFeedbackForgotten ==
  \A x \in turns :
    LET t == x.by
    IN  turn[t].gated =>
          \A f \in turn[t].known : request[f].kind \in Standing => applied[f] # None

Logged == {log[i] : i \in DOMAIN log}

(* What moves the preferences when only the feedback in S counts. *)
Counted(requests, S, f) == IF f \in S THEN requests[f].kind ELSE "helpful"

(* What that feedback adds up to, in the order in which it was committed. *)
Total(S) ==
  LET after[n \in 0..Len(log)] ==
        IF n = 0 THEN [prefs EXCEPT !.depth = DEFAULT_DEPTH, !.style = None]
        ELSE Moved(after[n - 1], Counted(request, S, log[n]))
  IN  after[Len(log)]

(* The preferences are what some of the committed feedback adds up to.  A    *)
(* request that overlaps another may lose its whole change to the column it  *)
(* loaded too early, and never a part of it; one that overlapped no other    *)
(* counts for ever, whatever others lose among themselves afterwards.        *)
PreferencesFollowFeedback ==
  \E S \in SUBSET Logged :
    /\ \A f \in Logged \ S : ~ request[f].alone
    /\ prefs = Total(S)

(* Feedback counts: it is stamped, and the preferences add up.               *)
FeedbackCounts == NoFeedbackForgotten /\ PreferencesFollowFeedback

(* A turn that has begun ends, also when one holds the feedback rows and     *)
(* waits for a concept that the other holds while it waits for those rows.   *)
EveryTurnEnds == \A t \in Turns : InFlight(t) ~> ~ InFlight(t)
=============================================================================
