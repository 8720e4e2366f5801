------------------------ MODULE ReaderProfileProofs ------------------------
(***************************************************************************)
(* ReaderProfile for any number of turns, feedbacks, papers and concepts:  *)
(* its types, the distance and readability of callbacks, the stamping of   *)
(* feedback, and what the preferences add up to.                           *)
(***************************************************************************)
EXTENDS ReaderProfile, FiniteSetTheorems, WellFoundedInduction, TLAPS

Phase == {"idle", "gate", "gap", "authorize", "agent", "signal", "pending", "stamp",
          "backstop", "commit", "done", "failed"}

Level == {"off"} \cup DOMAIN PROACTIVITY_GAP_MULTIPLIER

Committed ==
  [by : Turns, at : Nat \ {0}, concept : Concepts \cup {None},
   reason : Suppressions \cup {None}]

TurnRecord ==
  [pc : Phase, at : Nat, active : Papers \cup {None}, level : Level,
   seen : Concepts \cup {None}, candidates : Seq(Concepts),
   concept : Concepts \cup {None}, prior : Papers \cup {None}, reason : Suppressions \cup {None},
   signal : Concepts \cup {None}, pending : SUBSET Feedbacks,
   holds : SUBSET (Concepts \cup Feedbacks), gated : BOOLEAN, open : SUBSET Papers,
   base : SUBSET Committed, counted : SUBSET Committed, known : SUBSET Feedbacks]

-----------------------------------------------------------------------------
(* The gap. *)

LEMMA Least ==
  ASSUME NEW S \in SUBSET Nat, S # {}
  PROVE  \E x \in S : \A y \in S : x <= y
<1> DEFINE R == OpToRel(<, Nat)
<1>1. \E x \in S : \A y \in S : ~ (<<y, x>> \in R)
  <2> HIDE DEF R
  <2>1. IsWellFoundedOn(R, Nat)
    BY NatLessThanWellFounded DEF R
  <2> QED
    BY <2>1, WFMin
<1>2. PICK x \in S : \A y \in S : ~ (<<y, x>> \in R)
  BY <1>1
<1>3. ASSUME NEW y \in S
      PROVE  x <= y
  <2>1. ~ (<<y, x>> \in R)
    BY <1>2
  <2>2. x \in Nat /\ y \in Nat
    OBVIOUS
  <2>3. ~ (y < x)
    BY <2>1, <2>2 DEF OpToRel
  <2> QED
    BY <2>2, <2>3
<1> QED
  BY <1>3

LEMMA Greatest ==
  ASSUME NEW n \in Nat, NEW S \in SUBSET (0..n), S # {}
  PROVE  \E x \in S : \A y \in S : y <= x
<1> DEFINE T == {n - x : x \in S}
<1>1. \A x \in S : n - x \in Nat
  OBVIOUS
<1>5. T \subseteq Nat /\ T # {}
  BY <1>1
<1>2. PICK x \in T : \A y \in T : x <= y
  <2> HIDE DEF T
  <2> QED
    BY <1>5, Least
<1>3. PICK s \in S : x = n - s
  OBVIOUS
<1>4. \A y \in S : n - s <= n - y
  BY <1>2, <1>3
<1> QED
  BY <1>4

(* Python's round of a product in halves is a number. *)
LEMMA GapIsNumber ==
  ASSUME NEW level \in DOMAIN PROACTIVITY_GAP_MULTIPLIER
  PROVE  MinimumGap(level) \in Nat
<1>1. PROACTIVITY_GAP_MULTIPLIER[level] \in Nat
  BY DEF PROACTIVITY_GAP_MULTIPLIER
<1>2. CALLBACK_MIN_TURN_GAP * PROACTIVITY_GAP_MULTIPLIER[level] \in Nat
  BY <1>1, ProfileAssumption
<1> DEFINE n == CALLBACK_MIN_TURN_GAP * PROACTIVITY_GAP_MULTIPLIER[level]
<1> HIDE DEF n
<1>3. n \in Nat
  BY <1>2 DEF n
<1>4. RoundHalves(n) \in Nat
  BY <1>3 DEF RoundHalves
<1> QED
  BY <1>4 DEF MinimumGap, n

(* A larger moment leaves fewer turns after it. *)
LEMMA SinceShrinks ==
  ASSUME NEW log_, IsFiniteSet(log_), \A x \in log_ : x.at \in Nat,
         NEW m \in Nat, NEW n \in Nat, m <= n
  PROVE  Since(log_, n) <= Since(log_, m) /\ Since(log_, n) \in Nat /\ Since(log_, m) \in Nat
<1> DEFINE A == {x \in log_ : x.at > m}
           B == {x \in log_ : x.at > n}
<1>1. B \subseteq A /\ A \subseteq log_
  OBVIOUS
<1>2. IsFiniteSet(A) /\ IsFiniteSet(B)
  BY <1>1, FS_Subset
<1>3. Cardinality(B) <= Cardinality(A) /\ Cardinality(A) \in Nat /\ Cardinality(B) \in Nat
  BY <1>1, <1>2, FS_Subset, FS_CardinalityType
<1> QED
  BY <1>3 DEF Since

(* What the gate counts since the latest callback it found holds of the     *)
(* ones before it, whatever was committed before it counted.                *)
LEMMA GateSpaces ==
  ASSUME NEW log_ \in SUBSET Committed, IsFiniteSet(log_),
         NEW found \in SUBSET Committed, NEW n \in Nat, \A x \in found : x.at <= n,
         NEW gap \in Nat,
         \A x \in found : (\A y \in found : y.at <= x.at) => Since(log_, x.at) >= gap
  PROVE  \A a \in found : Since(log_, a.at) >= gap
<1> SUFFICES ASSUME NEW a \in found
             PROVE  Since(log_, a.at) >= gap
  OBVIOUS
<1> DEFINE S == {x.at : x \in found}
<1>0. \A x \in log_ \cup found : x.at \in Nat
  BY DEF Committed
<1>1. S \subseteq 0..n /\ S # {}
  BY <1>0
<1>2. PICK s \in S : \A y \in S : y <= s
  <2> HIDE DEF S
  <2> QED
    BY <1>1, Greatest
<1>3. PICK x \in found : x.at = s
  BY <1>2
<1>4. Since(log_, x.at) >= gap
  BY <1>2, <1>3
<1>5. a.at <= x.at /\ a.at \in Nat /\ x.at \in Nat
  BY <1>0, <1>2, <1>3
<1>6. /\ Since(log_, x.at) <= Since(log_, a.at)
      /\ Since(log_, x.at) \in Nat /\ Since(log_, a.at) \in Nat
  BY <1>0, <1>5, SinceShrinks
<1> QED
  BY <1>4, <1>6

-----------------------------------------------------------------------------
(* The inductive invariant. *)

Settled(f, pending) == request[f].kind \in Standing => applied[f] # None \/ f \in pending

(* A turn that has begun. *)
ClockOK(r) == r.pc \notin {"idle", "failed"} => r.at \in 1..clock

(* A concept or a reason, once the gate has decided. *)
GateOK(r) ==
  /\ r.gated /\ r.pc \in {"pending", "signal", "stamp", "backstop", "agent"} =>
       (r.concept = None) # (r.reason = None)
  /\ r.pc \in {"gate", "gap", "authorize"} => r.concept = None /\ r.reason = None
  /\ r.pc \in {"gap", "authorize", "agent"} => r.gated
  /\ r.pc = "signal" => r.signal # None
  /\ r.pc = "backstop" => r.seen # None

(* What the gate has counted since the callbacks it found is enough. *)
SpacedOK(r) ==
  /\ r.pc = "gate" => r.base = {}
  /\ r.pc = "gap" => r.level # "off" /\ \A x \in r.base : x.at <= clock
  /\ r.pc # "gap" => \A a \in r.base : Since(r.counted, a.at) >= MinimumGap(r.level)

(* Until it has decided, a turn's history has all that is readable. *)
ReadableOK(r) ==
  /\ r.pc \in {"gate", "gap", "authorize"} => granted \subseteq r.open
  /\ r.concept # None =>
       r.prior \in r.open /\ r.prior # r.active /\ r.prior \in Sources[r.concept]

(* What the gate knew is stamped, or is about to be by this turn. *)
FeedbackOK(r) ==
  /\ r.pc = "gate" => ~ r.gated /\ r.known = {}
  /\ r.pc \in {"gate", "gap", "authorize"} => r.pending = {}
  /\ r.known \cup r.pending \subseteq Logged
  /\ r.pc \in {"stamp", "backstop", "commit"} /\ r.gated =>
       \A f \in r.known : Settled(f, r.pending)
  /\ r.pc = "done" /\ r.gated => \A f \in r.known : Settled(f, {})

TurnOK(r) == ClockOK(r) /\ GateOK(r) /\ SpacedOK(r) /\ ReadableOK(r) /\ FeedbackOK(r)

RequestOK(f) ==
  /\ request[f].pc = "read" => request[f].copy \in Preferences
  /\ f \in Logged => request[f].pc = "done"

RowsOK ==
  /\ prefs \in Preferences /\ log \in Seq(Feedbacks)
  /\ applied \in [Feedbacks -> Turns \cup {None}]
  /\ turns \in SUBSET Committed /\ IsFiniteSet(turns)
  /\ \A x \in turns : x.at <= clock /\ turn[x.by].pc = "done"
  /\ clock \in Nat
  /\ memory \subseteq Concepts /\ granted \subseteq Papers
  /\ changes \in Nat

IInv ==
  /\ RowsOK
  /\ turn \in [Turns -> TurnRecord]
  /\ \A t \in Turns : TurnOK(turn[t])
  /\ request \in [Feedbacks -> [pc : {"idle", "read", "done"}, kind : Kinds \cup {"helpful"},
                                copy : Preferences \cup {None}, alone : BOOLEAN]]
  /\ \A f \in Feedbacks : RequestOK(f)

LEMMA FreshTyped == FreshTurn \in TurnRecord
<1>1. <<>> \in Seq(Concepts) /\ "normal" \in Level
  BY DEF Level, PROACTIVITY_GAP_MULTIPLIER
<1> QED
  BY <1>1 DEF FreshTurn, TurnRecord, Phase

LEMMA InitInv == Init => IInv
<1> SUFFICES ASSUME Init
             PROVE  IInv
  OBVIOUS
<1>1. RowsOK
  BY FS_EmptySet, ProfileAssumption DEF Init, RowsOK, Preferences, DEPTH_LEVELS, DEFAULT_DEPTH
<1>2. \A t \in Turns : TurnOK(turn[t])
  BY DEF Init, TurnOK, ClockOK, GateOK, SpacedOK, ReadableOK, FeedbackOK, FreshTurn, Callbacks
<1> QED
  BY <1>1, <1>2, FreshTyped DEF Init, IInv, RequestOK, FreshRequest, Logged

(* A step of one turn that writes nothing but its own record. *)
LEMMA SetInv ==
  ASSUME IInv, NEW t \in Turns, NEW r \in TurnRecord, Set(t, r), TurnOK(r),
         turn[t].pc # "done" \/ r.pc = "done"
  PROVE  IInv'
  BY DEF IInv, RowsOK, TurnOK, ClockOK, GateOK, SpacedOK, ReadableOK, FeedbackOK, RequestOK,
     Set, Logged, Settled, requestVars

LEMMA BeginInv == ASSUME IInv, NEW t \in Turns, Begin(t) PROVE IInv'
<1>1. PICK p \in granted \cup {None} :
        turn' = [turn EXCEPT ![t] = [FreshTurn EXCEPT !.pc = "gate", !.at = clock + 1,
                                      !.active = p, !.open = granted]]
  BY DEF Begin
<1>2. /\ clock \in Nat /\ clock' = clock + 1 /\ granted \subseteq Papers
      /\ UNCHANGED <<requestVars, applied, turns, granted, changes>>
      /\ p \in Papers \cup {None}
  BY DEF Begin, IInv, RowsOK
<1>3. turn'[t] = [FreshTurn EXCEPT !.pc = "gate", !.at = clock + 1,
                                   !.active = p, !.open = granted]
  BY <1>1 DEF IInv
<1>4. \A o \in Turns \ {t} : turn'[o] = turn[o]
  BY <1>1 DEF IInv
<1>5. turn'[t] \in TurnRecord
  <2>1. clock + 1 \in Nat /\ "gate" \in Phase
    BY <1>2 DEF Phase
  <2> QED
    BY <1>2, <1>3, <2>1, FreshTyped DEF TurnRecord
<1>6. turn' \in [Turns -> TurnRecord]
  <2> HIDE <1>3
  <2> QED
    BY <1>1, <1>5 DEF IInv
<1>7. TurnOK(turn[t])'
  <2>1. /\ turn'[t].pc = "gate" /\ turn'[t].at = clock' /\ turn'[t].concept = None
        /\ turn'[t].reason = None /\ turn'[t].open = granted' /\ turn'[t].pending = {}
        /\ ~ turn'[t].gated /\ turn'[t].known = {} /\ turn'[t].base = {}
        /\ turn'[t].candidates = <<>>
    BY <1>2, <1>3 DEF FreshTurn
  <2>2. ClockOK(turn[t])'
    BY <1>2, <2>1 DEF ClockOK
  <2>3. GateOK(turn[t])' /\ ReadableOK(turn[t])' /\ FeedbackOK(turn[t])'
    BY <2>1 DEF GateOK, ReadableOK, FeedbackOK
  <2>4. SpacedOK(turn[t])'
    BY <2>1 DEF SpacedOK, Callbacks
  <2> QED
    BY <2>2, <2>3, <2>4 DEF TurnOK
<1>8. ASSUME NEW o \in Turns, o # t
      PROVE  TurnOK(turn[o])'
  <2>1. TurnOK(turn[o]) /\ turn'[o] = turn[o] /\ turn[o] \in TurnRecord
    BY <1>8, <1>4 DEF IInv
  <2>2. turn[o].at \in Nat
    BY <2>1 DEF TurnRecord
  <2>3. ClockOK(turn[o])'
    BY <2>1, <2>2, <1>2 DEF TurnOK, ClockOK
  <2>7. \A x \in turn[o].base : x.at \in Nat
    BY <2>1 DEF TurnRecord, Committed
  <2>4. GateOK(turn[o])' /\ SpacedOK(turn[o])'
    BY <2>1, <2>7, <1>2 DEF TurnOK, GateOK, SpacedOK
  <2>5. ReadableOK(turn[o])'
    BY <2>1, <1>2 DEF TurnOK, ReadableOK
  <2>6. FeedbackOK(turn[o])'
    BY <2>1, <1>2 DEF TurnOK, FeedbackOK, Logged, Settled, requestVars
  <2> QED
    BY <2>3, <2>4, <2>5, <2>6 DEF TurnOK
<1>9. RowsOK'
  <2>1. \A x \in turns : x.at \in Nat /\ x.by \in Turns /\ x.by # t
    BY DEF IInv, RowsOK, Committed, Begin
  <2> QED
    BY <2>1, <1>2, <1>4 DEF IInv, RowsOK, requestVars
<1> QED
  BY <1>2, <1>6, <1>7, <1>8, <1>9 DEF IInv, requestVars, RequestOK, Logged

LEMMA AnswerWithoutAgentInv == ASSUME IInv, NEW t \in Turns, AnswerWithoutAgent(t) PROVE IInv'
<1> DEFINE r(c) == [turn[t] EXCEPT !.pc = IF c = None THEN "commit" ELSE "signal",
                                   !.signal = c, !.open = {}, !.active = None]
<1>1. turn[t] \in TurnRecord /\ TurnOK(turn[t]) /\ turn[t].pc = "gate"
  BY DEF IInv, AnswerWithoutAgent
<1>2. PICK c \in memory \cup {None} : Set(t, r(c))
  BY DEF AnswerWithoutAgent
<1>3. c \in Concepts \cup {None} /\ (IF c = None THEN "commit" ELSE "signal") \in Phase
  BY DEF Phase, IInv, RowsOK
<1>4. r(c) \in TurnRecord
  BY <1>1, <1>3 DEF TurnRecord
<1>5. TurnOK(r(c))
  BY <1>1 DEF TurnOK, ClockOK, GateOK, SpacedOK, ReadableOK, FeedbackOK, TurnRecord
<1> QED
  BY <1>1, <1>2, <1>4, <1>5, SetInv

(* The ranked concepts are a sequence of concepts. *)
LEMMA RankingsTyped ==
  ASSUME memory \subseteq Concepts, NEW seen,
         NEW c \in Rankings(seen)
  PROVE  c \in Seq(Concepts)
<1>1. PICK n \in 0..Cardinality(memory) : c \in [1..n -> memory \ {seen}]
  BY DEF Rankings
<1>2. n \in Nat /\ c \in [1..n -> Concepts]
  BY <1>1
<1> QED
  BY <1>2

LEMMA GateInv == ASSUME IInv, NEW t \in Turns, Gate(t) PROVE IInv'
<1> DEFINE Seen(r, seen) == [r EXCEPT !.seen = seen, !.gated = TRUE, !.known = Logged]
           Suppressed(reason) ==
             [turn[t] EXCEPT !.pc = "agent", !.reason = reason, !.open = {}, !.active = None]
           next == IF Callbacks(turns) = {} THEN "authorize" ELSE "gap"
           Passed(candidates) ==
             [turn[t] EXCEPT !.pc = next, !.candidates = candidates,
                             !.base = Callbacks(turns), !.level = prefs.proactivity]
<1>1. turn[t] \in TurnRecord /\ TurnOK(turn[t]) /\ turn[t].pc = "gate"
  BY DEF IInv, Gate
<1>2. Logged \subseteq Feedbacks
  BY DEF Logged, IInv, RowsOK
<1>3. ASSUME NEW reason \in Suppressions, NEW seen \in Concepts \cup {None},
             Set(t, Seen(Suppressed(reason), seen))
      PROVE  IInv'
  <2> DEFINE r == Seen(Suppressed(reason), seen)
  <2>1. r \in TurnRecord
    BY <1>1, <1>2 DEF TurnRecord, Phase
  <2>2. TurnOK(r)
    BY <1>1, <1>2, ProfileAssumption
       DEF TurnOK, ClockOK, GateOK, SpacedOK, ReadableOK, FeedbackOK, TurnRecord
  <2> QED
    BY <1>1, <1>3, <2>1, <2>2, SetInv
<1>4. ASSUME NEW seen \in Concepts \cup {None}, NEW candidates \in Rankings(seen),
             prefs.proactivity # "off", Set(t, Seen(Passed(candidates), seen))
      PROVE  IInv'
  <2> DEFINE r == Seen(Passed(candidates), seen)
  <2>1. prefs.proactivity \in Level
    BY DEF IInv, RowsOK, Preferences, Level
  <2>2. candidates \in Seq(Concepts)
    BY <1>4, RankingsTyped DEF IInv, RowsOK
  <2>3. Callbacks(turns) \subseteq Committed /\ \A x \in Callbacks(turns) : x.at <= clock
    BY DEF Callbacks, IInv, RowsOK
  <2>4. next \in Phase /\ next \in {"gap", "authorize"}
        /\ (next = "authorize" => Callbacks(turns) = {})
    BY DEF Phase
  <2> HIDE DEF next
  <2>5. r \in TurnRecord
    BY <1>1, <1>2, <2>1, <2>2, <2>3, <2>4 DEF TurnRecord
  <2>6. /\ r.pc = next /\ r.base = Callbacks(turns) /\ r.level = prefs.proactivity
        /\ r.at = turn[t].at /\ r.concept = turn[t].concept /\ r.reason = turn[t].reason
        /\ r.open = turn[t].open /\ r.pending = turn[t].pending /\ r.known = Logged /\ r.gated
    BY <1>1 DEF TurnRecord
  <2> HIDE DEF r
  <2>7. SpacedOK(r)
    BY <1>4, <2>3, <2>4, <2>6 DEF SpacedOK
  <2>8. ClockOK(r) /\ GateOK(r) /\ ReadableOK(r) /\ FeedbackOK(r)
    BY <1>1, <2>4, <2>6 DEF TurnOK, ClockOK, GateOK, ReadableOK, FeedbackOK
  <2> QED
    BY <1>1, <1>4, <2>5, <2>7, <2>8, SetInv DEF TurnOK, r
<1>5. PICK seen \in memory \cup {None} :
      \E candidates \in IF seen = None THEN {<<>>} ELSE Rankings(seen) :
        \/ \E reason \in Suppressions : Set(t, Seen(Suppressed(reason), seen))
        \/ /\ seen # None /\ prefs.proactivity # "off"
           /\ Set(t, Seen(Passed(candidates), seen))
  BY DEF Gate, Logged, Suppressions
<1>6. seen \in Concepts \cup {None}
  BY DEF IInv, RowsOK
<1> QED
  BY <1>3, <1>4, <1>5, <1>6

(* The second statement sees at least what the first one saw. *)
LEMMA CountTurnsInv == ASSUME IInv, NEW t \in Turns, CountTurns(t) PROVE IInv'
<1> DEFINE Allowed == [turn[t] EXCEPT !.pc = "authorize", !.counted = turns]
           Refused == [turn[t] EXCEPT !.pc = "agent", !.reason = "rate_limited", !.open = {},
                                      !.active = None, !.candidates = <<>>, !.base = {}]
<1>1. turn[t] \in TurnRecord /\ TurnOK(turn[t]) /\ turn[t].pc = "gap"
  BY DEF IInv, CountTurns
<1>2. CASE GapSatisfied(t)
  <2> DEFINE found == turn[t].base
             gap == MinimumGap(turn[t].level)
  <2>1. /\ found \in SUBSET Committed /\ \A x \in found : x.at <= clock
        /\ turn[t].level \in DOMAIN PROACTIVITY_GAP_MULTIPLIER
    BY <1>1 DEF TurnOK, SpacedOK, TurnRecord, Level
  <2>2. gap \in Nat
    BY <2>1, GapIsNumber
  <2>3. \A x \in found : (\A y \in found : y.at <= x.at) => Since(turns, x.at) >= gap
    BY <1>2 DEF GapSatisfied
  <2>4. turns \in SUBSET Committed /\ IsFiniteSet(turns) /\ clock \in Nat
    BY DEF IInv, RowsOK
  <2>5. \A a \in found : Since(turns, a.at) >= gap
    <3> HIDE DEF found, gap
    <3> QED
      BY ONLY <2>1, <2>2, <2>3, <2>4, GateSpaces
  <2>6. Allowed \in TurnRecord
    BY <1>1, <2>4 DEF TurnRecord, Phase
  <2>7. SpacedOK(Allowed)
    BY <1>1, <2>5 DEF SpacedOK, TurnRecord
  <2>8. ClockOK(Allowed) /\ GateOK(Allowed) /\ ReadableOK(Allowed) /\ FeedbackOK(Allowed)
    BY <1>1 DEF TurnOK, ClockOK, GateOK, ReadableOK, FeedbackOK, TurnRecord
  <2>9. Set(t, Allowed)
    BY <1>2 DEF CountTurns
  <2> QED
    BY <1>1, <2>6, <2>7, <2>8, <2>9, SetInv DEF TurnOK
<1>3. CASE ~ GapSatisfied(t)
  <2>1. <<>> \in Seq(Concepts) /\ "rate_limited" \in Suppressions
    BY DEF Suppressions
  <2>2. Refused \in TurnRecord
    BY <1>1, <2>1 DEF TurnRecord, Phase
  <2>3. TurnOK(Refused)
    BY <1>1, <2>1, ProfileAssumption
    DEF TurnOK, ClockOK, GateOK, SpacedOK, ReadableOK, FeedbackOK, TurnRecord
  <2>4. Set(t, Refused)
    BY <1>3 DEF CountTurns
  <2> QED
    BY <1>1, <2>2, <2>3, <2>4, SetInv
<1> QED
  BY <1>2, <1>3

LEMMA AuthorizeInv == ASSUME IInv, NEW t \in Turns, Authorize(t) PROVE IInv'
<1> DEFINE ranked == turn[t].candidates
           readable == {i \in DOMAIN ranked : PriorPapers(t, ranked[i]) # {}}
           first == CHOOSE i \in readable : \A j \in readable : i <= j
           c == ranked[first]
           Refused == [turn[t] EXCEPT !.pc = "agent", !.reason = "grant_revoked",
                                      !.candidates = <<>>, !.base = {}, !.counted = {},
                                      !.open = {}, !.active = None]
           Called(p) == [turn[t] EXCEPT !.pc = "agent", !.concept = c, !.prior = p,
                                        !.candidates = <<>>]
<1>1. turn[t] \in TurnRecord /\ TurnOK(turn[t]) /\ turn[t].pc = "authorize"
  BY DEF IInv, Authorize
<1>2. CASE readable = {}
  <2>0. <<>> \in Seq(Concepts) /\ "grant_revoked" \in Suppressions
    BY DEF Suppressions
  <2>1. Refused \in TurnRecord
    BY <1>1, <2>0 DEF TurnRecord, Phase
  <2>2. TurnOK(Refused)
    BY <1>1, ProfileAssumption
    DEF TurnOK, ClockOK, GateOK, SpacedOK, ReadableOK, FeedbackOK, Callbacks, TurnRecord,
        Suppressions
  <2>3. Set(t, Refused)
    BY <1>2 DEF Authorize
  <2> QED
    BY <1>1, <2>1, <2>2, <2>3, SetInv
<1>3. CASE readable # {}
  <2>1. ranked \in Seq(Concepts)
    BY <1>1 DEF TurnRecord
  <2>8. readable \subseteq DOMAIN ranked /\ readable \subseteq Nat
    BY <2>1
  <2>2. \E i \in readable : \A j \in readable : i <= j
    <3> HIDE DEF readable
    <3> QED
      BY <1>3, <2>8, Least
  <2>9. first \in DOMAIN ranked
    <3> HIDE DEF readable
    <3> QED
      BY <2>2, <2>8
  <2>3. c \in Concepts
    <3> HIDE DEF first, ranked
    <3> QED
      BY <2>1, <2>9
  <2>0. <<>> \in Seq(Concepts)
    OBVIOUS
  <2>4. PICK p \in PriorPapers(t, c) : Set(t, Called(p))
    BY <1>3 DEF Authorize
  <2>5. /\ p \in Papers /\ p \in turn[t].open /\ p # turn[t].active
        /\ p \in Sources[c] /\ c # None
    BY <1>1, <2>3, <2>4, ProfileAssumption
    DEF PriorPapers, TurnOK, ReadableOK, IInv, RowsOK
  <2>6. Called(p) \in TurnRecord
    <3> HIDE DEF c
    <3> QED
      BY <1>1, <2>0, <2>3, <2>5 DEF TurnRecord, Phase
  <2>7. TurnOK(Called(p))
    <3> HIDE DEF c
    <3> QED
      BY <1>1, <2>5
      DEF TurnOK, ClockOK, GateOK, SpacedOK, ReadableOK, FeedbackOK, TurnRecord
  <2> QED
    BY <1>1, <2>4, <2>6, <2>7, SetInv
<1> QED
  BY <1>2, <1>3

LEMMA AnswerInv == ASSUME IInv, NEW t \in Turns, Answer(t) PROVE IInv'
<1>1. turn[t] \in TurnRecord /\ TurnOK(turn[t]) /\ turn[t].pc = "agent"
  BY DEF IInv, Answer
<1> DEFINE r(c) == [turn[t] EXCEPT !.pc = IF c = None THEN "pending" ELSE "signal",
                                   !.signal = c]
<1>2. PICK c \in memory \cup {None} : Set(t, r(c))
  BY DEF Answer
<1>5. c \in Concepts \cup {None} /\ (IF c = None THEN "pending" ELSE "signal") \in Phase
  BY DEF Phase, IInv, RowsOK
<1>3. r(c) \in TurnRecord
  BY <1>1, <1>5 DEF TurnRecord
<1>4. TurnOK(r(c))
  BY <1>1 DEF TurnOK, ClockOK, GateOK, SpacedOK, ReadableOK, FeedbackOK, TurnRecord
<1> QED
  BY <1>1, <1>2, <1>3, <1>4, SetInv

LEMMA WriteSignalInv == ASSUME IInv, NEW t \in Turns, WriteSignal(t) PROVE IInv'
<1> DEFINE next == IF turn[t].gated THEN "pending" ELSE "commit"
           r == [turn[t] EXCEPT !.pc = next, !.holds = @ \cup {turn[t].signal}]
<1>1. turn[t] \in TurnRecord /\ TurnOK(turn[t]) /\ turn[t].pc = "signal"
  BY DEF IInv, WriteSignal
<1>4. next \in Phase
  BY DEF Phase
<1>2. r \in TurnRecord
  <2> HIDE DEF next
  <2> QED
    BY <1>1, <1>4 DEF TurnRecord, TurnOK, GateOK
<1>3. TurnOK(r)
  BY <1>1 DEF TurnOK, ClockOK, GateOK, SpacedOK, ReadableOK, FeedbackOK, TurnRecord
<1> QED
  BY <1>1, <1>2, <1>3, SetInv DEF WriteSignal

(* What the turn has not seen stamped it stamps itself. *)
LEMMA ReadPendingInv == ASSUME IInv, NEW t \in Turns, ReadPending(t) PROVE IInv'
<1> DEFINE r == [turn[t] EXCEPT !.pc = "stamp", !.pending = Unapplied]
<1>1. turn[t] \in TurnRecord /\ TurnOK(turn[t]) /\ turn[t].pc = "pending"
  BY DEF IInv, ReadPending
<1>2. r \in TurnRecord
  BY <1>1 DEF TurnRecord, Phase, Unapplied
<1>3. \A f \in turn[t].known : Settled(f, Unapplied)
  BY <1>1 DEF Settled, Unapplied, TurnOK, FeedbackOK, Logged, TurnRecord
<1>4. Unapplied \subseteq Logged
  BY DEF Unapplied, Logged
<1>5. TurnOK(r)
  BY <1>1, <1>3, <1>4
  DEF TurnOK, ClockOK, GateOK, SpacedOK, ReadableOK, FeedbackOK, TurnRecord
<1> QED
  BY <1>1, <1>2, <1>5, SetInv DEF ReadPending

LEMMA StampInv == ASSUME IInv, NEW t \in Turns, Stamp(t) PROVE IInv'
<1> DEFINE r == [turn[t] EXCEPT !.holds = @ \cup turn[t].pending,
       !.pc = IF turn[t].signal = None /\ turn[t].seen # None THEN "backstop"
              ELSE "commit"]
<1>1. turn[t] \in TurnRecord /\ TurnOK(turn[t]) /\ turn[t].pc = "stamp"
  BY DEF IInv, Stamp
<1>2. r \in TurnRecord
  <2> DEFINE next == IF turn[t].signal = None /\ turn[t].seen # None THEN "backstop"
                     ELSE "commit"
             held == turn[t].holds \cup turn[t].pending
  <2>1. next \in Phase
    BY DEF Phase
  <2>2. held \in SUBSET (Concepts \cup Feedbacks)
    BY <1>1 DEF TurnRecord
  <2> HIDE DEF next, held
  <2>3. [turn[t] EXCEPT !.holds = held, !.pc = next] \in TurnRecord
    BY <1>1, <2>1, <2>2 DEF TurnRecord
  <2> QED
    BY <2>3 DEF next, held
<1>3. TurnOK(r)
  BY <1>1 DEF TurnOK, ClockOK, GateOK, SpacedOK, ReadableOK, FeedbackOK, TurnRecord
<1>4. r.pc \in {"backstop", "commit"}
  BY <1>1 DEF TurnRecord
<1> QED
  BY <1>1, <1>2, <1>3, SetInv DEF Stamp

LEMMA BackstopInv == ASSUME IInv, NEW t \in Turns, Backstop(t) PROVE IInv'
<1> DEFINE r == [turn[t] EXCEPT !.pc = "commit", !.holds = @ \cup {turn[t].seen}]
<1>1. turn[t] \in TurnRecord /\ TurnOK(turn[t]) /\ turn[t].pc = "backstop"
  BY DEF IInv, Backstop
<1>2. TurnOK(r)
  BY <1>1 DEF TurnOK, ClockOK, GateOK, SpacedOK, ReadableOK, FeedbackOK, TurnRecord
<1>3. r \in TurnRecord
  BY <1>1 DEF TurnRecord, Phase, TurnOK, GateOK
<1> QED
  BY <1>1, <1>2, <1>3, SetInv DEF Backstop

LEMMA RollBackInv ==
  ASSUME IInv, NEW t \in Turns, RollBack(t), turn[t].pc # "done"
  PROVE  IInv'
<1> DEFINE r == [FreshTurn EXCEPT !.pc = "failed"]
<1>1. r \in TurnRecord
  BY FreshTyped DEF TurnRecord, Phase
<1>2. TurnOK(r)
  BY DEF TurnOK, ClockOK, GateOK, SpacedOK, ReadableOK, FeedbackOK, FreshTurn, Callbacks
<1> QED
  BY <1>1, <1>2, SetInv DEF RollBack

(* The turn's row is committed, with the feedback it stamped. *)
LEMMA CommitInv == ASSUME IInv, NEW t \in Turns, Commit(t) PROVE IInv'
<1> DEFINE row == [by |-> t, at |-> turn[t].at, concept |-> turn[t].concept,
                   reason |-> turn[t].reason]
           r == [turn[t] EXCEPT !.pc = "done", !.holds = {}, !.seen = None,
                                !.pending = {}, !.signal = None]
<1>1. turn[t] \in TurnRecord /\ TurnOK(turn[t]) /\ turn[t].pc = "commit"
  BY DEF IInv, Commit
<1>2. turn' = [turn EXCEPT ![t] = r] /\ turns' = turns \cup {row}
      /\ UNCHANGED <<requestVars, granted, clock, changes>>
  BY DEF Commit
<1>3. turn'[t] = r /\ \A o \in Turns \ {t} : turn'[o] = turn[o]
  BY <1>2 DEF IInv
<1>4. r \in TurnRecord
  BY <1>1 DEF TurnRecord, Phase
<1>5. turn' \in [Turns -> TurnRecord]
  <2> HIDE DEF r
  <2> QED
    BY <1>2, <1>4 DEF IInv
<1>6. \A f \in Feedbacks : applied'[f] = IF f \in turn[t].pending THEN t ELSE applied[f]
  BY DEF Commit
<1>7. \A f \in Feedbacks, s \in SUBSET Feedbacks : Settled(f, s) => Settled(f, s)'
  BY <1>2, <1>6, ProfileAssumption DEF Settled, requestVars
<1>8. TurnOK(turn[t])'
  <2>1. /\ turn'[t].pc = "done" /\ turn'[t].at = turn[t].at /\ turn'[t].base = turn[t].base
        /\ turn'[t].level = turn[t].level /\ turn'[t].concept = turn[t].concept
        /\ turn'[t].prior = turn[t].prior /\ turn'[t].open = turn[t].open
        /\ turn'[t].active = turn[t].active /\ turn'[t].known = turn[t].known
        /\ turn'[t].gated = turn[t].gated /\ turn'[t].pending = {}
    BY <1>1, <1>3 DEF TurnRecord
  <2>2. ClockOK(turn[t])' /\ GateOK(turn[t])' /\ SpacedOK(turn[t])' /\ ReadableOK(turn[t])'
    BY <1>1, <1>2, <2>1 DEF TurnOK, ClockOK, GateOK, SpacedOK, ReadableOK
  <2>3. ASSUME turn[t].gated, NEW f \in turn[t].known
        PROVE  Settled(f, {})'
    BY <1>1, <1>2, <1>6, <2>3, ProfileAssumption
    DEF TurnOK, FeedbackOK, Settled, TurnRecord, requestVars
  <2>4. FeedbackOK(turn[t])'
    BY <1>1, <1>2, <2>1, <2>3 DEF TurnOK, FeedbackOK, Logged, requestVars
  <2> QED
    BY <2>2, <2>4 DEF TurnOK
<1>9. ASSUME NEW o \in Turns, o # t
      PROVE  TurnOK(turn[o])'
  <2>1. turn'[o] = turn[o] /\ turn[o] \in TurnRecord /\ TurnOK(turn[o])
    BY <1>3, <1>9 DEF IInv
  <2>2. ClockOK(turn[o])' /\ GateOK(turn[o])' /\ SpacedOK(turn[o])' /\ ReadableOK(turn[o])'
    BY <1>2, <2>1 DEF TurnOK, ClockOK, GateOK, SpacedOK, ReadableOK
  <2>3. turn[o].known \subseteq Feedbacks /\ turn[o].pending \subseteq Feedbacks
    BY <2>1 DEF TurnRecord
  <2>4. FeedbackOK(turn[o])'
    BY <1>2, <1>7, <2>1, <2>3 DEF TurnOK, FeedbackOK, Logged, requestVars
  <2> QED
    BY <2>2, <2>4 DEF TurnOK
<1>10. RowsOK'
  <2>1. turn[t].at \in 1..clock /\ clock \in Nat
    BY <1>1 DEF TurnOK, ClockOK, IInv, RowsOK
  <2>2. row \in Committed
    BY <1>1, <2>1 DEF Committed, TurnRecord
  <2>3. IsFiniteSet(turns \cup {row})
    <3> HIDE DEF row
    <3> QED
      BY FS_AddElement DEF IInv, RowsOK
  <2>4. applied' \in [Feedbacks -> Turns \cup {None}]
    BY DEF Commit, IInv, RowsOK
  <2>5. turn'[t].pc = "done"
    BY <1>1, <1>3 DEF TurnRecord
  <2>6. \A x \in turns' : x.at <= clock /\ turn'[x.by].pc = "done"
    BY <1>2, <1>3, <2>1, <2>5 DEF IInv, RowsOK, Committed
  <2> QED
    <3> HIDE DEF row
    <3> QED
      BY <1>2, <2>2, <2>3, <2>4, <2>6 DEF IInv, RowsOK, requestVars
<1> QED
  BY <1>2, <1>5, <1>8, <1>9, <1>10 DEF IInv, requestVars, RequestOK, Logged

-----------------------------------------------------------------------------
(* Feedback keeps preferences what they are; it touches what is not logged. *)
LEMMA ShiftTyped ==
  ASSUME NEW depth \in {DEPTH_LEVELS[i] : i \in DOMAIN DEPTH_LEVELS}, NEW direction
  PROVE  ShiftDepth(depth, direction) \in {DEPTH_LEVELS[i] : i \in DOMAIN DEPTH_LEVELS}
  BY DEF ShiftDepth

LEMMA MovedTyped ==
  ASSUME NEW p \in Preferences, NEW kind
  PROVE  Moved(p, kind) \in Preferences
  BY ShiftTyped DEF Moved, Preferences

LEMMA LoadPreferencesInv ==
  ASSUME IInv, NEW f \in Feedbacks, LoadPreferences(f)
  PROVE  IInv'
<1>1. PICK kind \in Kinds :
       request' = [g \in Feedbacks |->
         IF g = f
         THEN [pc |-> "read", kind |-> kind, copy |-> prefs,
               alone |-> ~ \E o \in Feedbacks : Reading(o)]
         ELSE [request[g] EXCEPT !.alone = @ /\ ~ Reading(g)]]
  BY DEF LoadPreferences
<1>2. prefs \in Preferences /\ request[f].pc = "idle"
      /\ UNCHANGED <<prefs, log, memory, applied, turns, granted, clock, changes, turn>>
  BY DEF LoadPreferences, IInv, RowsOK
<1>3. request' \in [Feedbacks -> [pc : {"idle", "read", "done"}, kind : Kinds \cup {"helpful"},
                                copy : Preferences \cup {None}, alone : BOOLEAN]]
  BY <1>1, <1>2 DEF IInv
<1>4. \A g \in Feedbacks \ {f} : /\ request'[g].pc = request[g].pc
                                /\ request'[g].copy = request[g].copy
                                /\ request'[g].kind = request[g].kind
  BY <1>1 DEF IInv
<1>5. request'[f].pc = "read" /\ request'[f].copy = prefs
  BY <1>1
<1>6. f \notin Logged /\ Logged' = Logged /\ Logged \subseteq Feedbacks
  BY <1>2 DEF IInv, RequestOK, Logged, RowsOK
<1>7. \A g \in Feedbacks : RequestOK(g)'
  BY <1>2, <1>4, <1>5, <1>6 DEF IInv, RequestOK
<1>8. \A g \in Logged, s \in SUBSET Feedbacks : Settled(g, s) => Settled(g, s)'
  BY <1>2, <1>4, <1>6 DEF Settled
<1>9. ASSUME NEW o \in Turns
      PROVE  TurnOK(turn[o])'
  <2>1. turn'[o] = turn[o] /\ turn[o] \in TurnRecord /\ TurnOK(turn[o])
    BY <1>2 DEF IInv
  <2>2. ClockOK(turn[o])' /\ GateOK(turn[o])' /\ SpacedOK(turn[o])' /\ ReadableOK(turn[o])'
    BY <1>2, <2>1 DEF TurnOK, ClockOK, GateOK, SpacedOK, ReadableOK
  <2>3. turn[o].known \subseteq Logged /\ turn[o].pending \subseteq Feedbacks
    BY <2>1 DEF TurnRecord, TurnOK, FeedbackOK
  <2>4. FeedbackOK(turn[o])'
    BY <1>6, <1>8, <2>1, <2>3 DEF TurnOK, FeedbackOK
  <2> QED
    BY <2>2, <2>4 DEF TurnOK
<1> QED
  BY <1>2, <1>3, <1>7, <1>9 DEF IInv, RowsOK

LEMMA RecordInv ==
  ASSUME IInv, NEW f \in Feedbacks, Record(f)
  PROVE  IInv'
<1>1. /\ log' = Append(log, f) /\ request' = [request EXCEPT ![f].pc = "done"]
      /\ UNCHANGED <<memory, applied, turns, granted, clock, changes, turn>>
      /\ log \in Seq(Feedbacks) /\ request[f].pc = "read"
  BY DEF Record, Reading, IInv, RowsOK
<1>2. log' \in Seq(Feedbacks) /\ Logged' = Logged \cup {f}
  BY <1>1 DEF Logged
<1>3. prefs' \in Preferences
  BY MovedTyped DEF Record, Reading, IInv, RowsOK, RequestOK
<1>4. request' \in [Feedbacks -> [pc : {"idle", "read", "done"}, kind : Kinds \cup {"helpful"},
                                copy : Preferences \cup {None}, alone : BOOLEAN]]
  BY <1>1 DEF IInv
<1>5. \A g \in Feedbacks : /\ request'[g].pc = IF g = f THEN "done" ELSE request[g].pc
                          /\ request'[g].copy = request[g].copy
                          /\ request'[g].kind = request[g].kind
  BY <1>1 DEF IInv
<1>6. \A g \in Feedbacks : RequestOK(g)'
  BY <1>2, <1>5 DEF IInv, RequestOK
<1>7. \A g \in Feedbacks, s \in SUBSET Feedbacks : Settled(g, s) => Settled(g, s)'
  BY <1>1, <1>5 DEF Settled
<1>8. ASSUME NEW o \in Turns
      PROVE  TurnOK(turn[o])'
  <2>1. turn'[o] = turn[o] /\ turn[o] \in TurnRecord /\ TurnOK(turn[o])
    BY <1>1 DEF IInv
  <2>2. ClockOK(turn[o])' /\ GateOK(turn[o])' /\ SpacedOK(turn[o])' /\ ReadableOK(turn[o])'
    BY <1>1, <2>1 DEF TurnOK, ClockOK, GateOK, SpacedOK, ReadableOK
  <2>3. turn[o].known \subseteq Feedbacks /\ turn[o].pending \subseteq Feedbacks
    BY <2>1 DEF TurnRecord
  <2>4. FeedbackOK(turn[o])'
    BY <1>2, <1>7, <2>1, <2>3 DEF TurnOK, FeedbackOK
  <2> QED
    BY <2>2, <2>4 DEF TurnOK
<1> QED
  BY <1>1, <1>2, <1>3, <1>4, <1>6, <1>8 DEF IInv, RowsOK

(* A paper that is taken away stays one the turn could read at some moment. *)
LEMMA RevokeInv == ASSUME IInv, NEW p \in Papers, Revoke(p) PROVE IInv'
<1>1. /\ granted' \subseteq granted /\ changes' \in Nat
      /\ UNCHANGED <<requestVars, applied, turns, clock, turn>>
  BY DEF Revoke, IInv, RowsOK
<1>2. ASSUME NEW o \in Turns
      PROVE  TurnOK(turn[o])'
  <2>1. TurnOK(turn[o]) /\ turn'[o] = turn[o]
    BY <1>1 DEF IInv
  <2>2. ClockOK(turn[o])' /\ GateOK(turn[o])' /\ SpacedOK(turn[o])' /\ ReadableOK(turn[o])'
    BY <1>1, <2>1 DEF TurnOK, ClockOK, GateOK, SpacedOK, ReadableOK
  <2>3. FeedbackOK(turn[o])'
    BY <1>1, <2>1 DEF TurnOK, FeedbackOK, Settled, Logged, requestVars
  <2> QED
    BY <2>2, <2>3 DEF TurnOK
<1> QED
  BY <1>1, <1>2 DEF IInv, RowsOK, RequestOK, Logged, requestVars

LEMMA GrantInv == ASSUME IInv, NEW p \in Papers, Grant(p) PROVE IInv'
<1>1. /\ granted' = granted \cup {p} /\ changes' \in Nat
      /\ UNCHANGED <<requestVars, applied, turns, clock>>
  BY DEF Grant, IInv, RowsOK
<1> DEFINE r(o) == [turn[o] EXCEPT !.open = @ \cup {p}]
           Open(o) == turn[o].pc \in {"gate", "gap", "authorize"}
<1>2. turn' = [o \in Turns |-> IF Open(o) THEN r(o) ELSE turn[o]]
  BY DEF Grant, Undecided
<1>3. ASSUME NEW o \in Turns
      PROVE  turn'[o] \in TurnRecord /\ turn'[o].pc = turn[o].pc /\ TurnOK(turn[o])'
  <2>1. TurnOK(turn[o]) /\ turn[o] \in TurnRecord
    BY DEF IInv
  <2>2. CASE ~ Open(o)
    <3>1. turn'[o] = turn[o]
      BY <1>2, <2>2
    <3>2. ClockOK(turn[o])' /\ GateOK(turn[o])' /\ SpacedOK(turn[o])' /\ ReadableOK(turn[o])'
      BY <1>1, <2>1, <2>2, <3>1 DEF TurnOK, ClockOK, GateOK, SpacedOK, ReadableOK
    <3>3. FeedbackOK(turn[o])'
      BY <1>1, <2>1, <3>1 DEF TurnOK, FeedbackOK, Settled, Logged, requestVars
    <3> QED
      BY <2>1, <3>1, <3>2, <3>3 DEF TurnOK
  <2>3. CASE Open(o)
    <3>1. turn'[o] = r(o)
      BY <1>2, <2>3
    <3>2. r(o) \in TurnRecord
      BY <2>1 DEF TurnRecord
    <3>3. /\ turn'[o].pc = turn[o].pc /\ turn'[o].at = turn[o].at
          /\ turn'[o].concept = turn[o].concept /\ turn'[o].reason = turn[o].reason
          /\ turn'[o].base = turn[o].base /\ turn'[o].level = turn[o].level
          /\ turn'[o].counted = turn[o].counted
          /\ turn'[o].known = turn[o].known /\ turn'[o].pending = turn[o].pending
          /\ turn'[o].gated = turn[o].gated /\ turn'[o].open = turn[o].open \cup {p}
      BY <2>1, <3>1 DEF TurnRecord
    <3>4. ClockOK(turn[o])' /\ GateOK(turn[o])' /\ SpacedOK(turn[o])' /\ ReadableOK(turn[o])'
      BY <1>1, <2>1, <2>3, <3>3 DEF TurnOK, ClockOK, GateOK, SpacedOK, ReadableOK
    <3>5. FeedbackOK(turn[o])'
      BY <1>1, <2>1, <2>3, <3>3 DEF TurnOK, FeedbackOK, Settled, Logged, requestVars
    <3> QED
      BY <3>1, <3>2, <3>3, <3>4, <3>5 DEF TurnOK
  <2> QED
    BY <2>2, <2>3
<1>4. turn' \in [Turns -> TurnRecord]
  <2> HIDE DEF r, Open
  <2> QED
    BY <1>2, <1>3
<1>5. RowsOK'
  <2>1. \A x \in turns : turn'[x.by].pc = "done"
    BY <1>3 DEF IInv, RowsOK, Committed
  <2> QED
    BY <1>1, <2>1 DEF IInv, RowsOK, requestVars
<1> QED
  BY <1>1, <1>3, <1>4, <1>5 DEF IInv, RequestOK, Logged, requestVars

LEMMA StutterInv == IInv /\ UNCHANGED vars => IInv'
  BY DEF IInv, RowsOK, TurnOK, ClockOK, GateOK, SpacedOK, ReadableOK, FeedbackOK, RequestOK,
     Logged, Settled, requestVars, vars

LEMMA NextInv == IInv /\ [Next]_vars => IInv'
<1> SUFFICES ASSUME IInv, [Next]_vars
             PROVE  IInv'
  OBVIOUS
<1>1. ASSUME NEW t \in Turns, ServerStep(t)
      PROVE  IInv'
  <2>1. CASE DeadlockDetected(t)
    <3>1. RollBack(t) /\ turn[t].pc # "done"
      BY <2>1 DEF DeadlockDetected, Waits, Needs
    <3> QED
      BY <3>1, RollBackInv
  <2> QED
    BY <1>1, <2>1, AnswerWithoutAgentInv, GateInv, CountTurnsInv, AuthorizeInv, AnswerInv,
       WriteSignalInv, ReadPendingInv, StampInv, BackstopInv, CommitInv DEF ServerStep
<1>2. ASSUME NEW t \in Turns, Begin(t) \/ Fail(t)
      PROVE  IInv'
  BY <1>2, BeginInv, RollBackInv DEF Fail, InFlight
<1>3. ASSUME NEW f \in Feedbacks, LoadPreferences(f) \/ Record(f)
      PROVE  IInv'
  BY <1>3, LoadPreferencesInv, RecordInv
<1>4. ASSUME NEW p \in Papers, Revoke(p) \/ Grant(p)
      PROVE  IInv'
  BY <1>4, RevokeInv, GrantInv
<1>5. CASE UNCHANGED vars
  BY <1>5, StutterInv
<1> QED
  BY <1>1, <1>2, <1>3, <1>4, <1>5 DEF Next

LEMMA AlwaysInv == Spec => []IInv
  BY InitInv, NextInv, PTL DEF Spec

-----------------------------------------------------------------------------
(* Every variable keeps its type, and a turn that the gate has seen has a   *)
(* concept or a reason, never both.                                         *)
THEOREM ProfileTypes == Spec => []TypeOK
<1>1. IInv => TypeOK
  <2> SUFFICES ASSUME IInv
               PROVE  TypeOK
    OBVIOUS
  <2>1. turns \subseteq [by : Turns, at : 1..clock, concept : Concepts \cup {None},
                       reason : Suppressions \cup {None}]
    BY DEF IInv, RowsOK, Committed
  <2>2. \A t \in Turns :
       /\ turn[t].holds \subseteq Concepts \cup Feedbacks
       /\ turn[t].prior \in Papers \cup {None}
       /\ turn[t].gated /\ turn[t].pc \in {"pending", "signal", "stamp", "backstop"} =>
            (turn[t].concept = None) # (turn[t].reason = None)
    BY DEF IInv, TurnOK, GateOK, TurnRecord
  <2> QED
    BY <2>1, <2>2 DEF IInv, RowsOK, TypeOK
<1> QED
  BY <1>1, AlwaysInv, PTL

(* Committed callbacks keep the distance the reader asked for, and each led *)
(* into a paper the reader could read at some moment of its turn: for any   *)
(* number of turns in flight, any gap and any removals and uploads.         *)
THEOREM CallbacksDue == Spec => []CallbacksAreDue
<1>1. IInv => CallbacksAreDue
  <2> SUFFICES ASSUME IInv
               PROVE  CallbacksAreSpaced /\ CallbackIsReadable
    BY DEF CallbacksAreDue
  <2>1. ASSUME NEW a \in Callbacks(turns), NEW b \in Callbacks(turns), a \in turn[b.by].base
        PROVE  Since(turn[b.by].counted, a.at) >= MinimumGap(turn[b.by].level)
    <3>1. b.by \in Turns /\ turn[b.by].pc = "done"
      BY DEF Callbacks, IInv, RowsOK, Committed
    <3>2. SpacedOK(turn[b.by])
      BY <3>1 DEF IInv, TurnOK
    <3> QED
      BY <2>1, <3>1, <3>2 DEF SpacedOK
  <2>2. CallbackIsReadable
    BY DEF IInv, TurnOK, ReadableOK, CallbackIsReadable
  <2> QED
    BY <2>1, <2>2 DEF CallbacksAreSpaced
<1> QED
  BY <1>1, AlwaysInv, PTL

(* No feedback that moves a preference, committed before the gate of a turn *)
(* of the agent, is left unstamped when that turn commits.                  *)
THEOREM FeedbackIsStamped == Spec => []NoFeedbackForgotten
<1>1. IInv => NoFeedbackForgotten
  BY DEF IInv, RowsOK, Committed, TurnOK, FeedbackOK, Settled, NoFeedbackForgotten
<1> QED
  BY <1>1, AlwaysInv, PTL

-----------------------------------------------------------------------------
(* What the committed feedback adds up to, as a recursion over any sequence. *)

(* g is that recursion up to the k-th feedback of l, those in S counting. *)
Runs(g, base, req, S, l, k) ==
  g = [n \in 0..k |-> IF n = 0 THEN base ELSE Moved(g[n - 1], Counted(req, S, l[n]))]

Sum(base, req, S, l, k) ==
  LET g == CHOOSE g : Runs(g, base, req, S, l, k) IN g[k]

LEMMA RunStarts ==
  ASSUME NEW base, NEW req, NEW S, NEW l, NEW k \in Nat, NEW g, Runs(g, base, req, S, l, k)
  PROVE  g[0] = base
BY DEF Runs

LEMMA RunGoesOn ==
  ASSUME NEW base, NEW req, NEW S, NEW l, NEW k \in Nat, NEW g, Runs(g, base, req, S, l, k)
  PROVE  \A n \in 1..k : g[n] = Moved(g[n - 1], Counted(req, S, l[n]))
BY DEF Runs

LEMMA RunExists ==
  ASSUME NEW base, NEW req, NEW S, NEW l, NEW k \in Nat
  PROVE  \E g : Runs(g, base, req, S, l, k)
<1> DEFINE Bad == {n \in Nat : ~ \E g : Runs(g, base, req, S, l, n)}
<1>1. ASSUME NEW m \in Bad, \A n \in Bad : m <= n
      PROVE  FALSE
  <2>0. m \in Nat /\ ~ \E g : Runs(g, base, req, S, l, m)
    OBVIOUS
  <2>1. CASE m = 0
    <3> DEFINE g == [n \in 0..m |-> base]
    <3>1. Runs(g, base, req, S, l, m)
      <4>1. \A n \in 0..m : n = 0
        BY <2>1
      <4> QED
        BY <4>1 DEF Runs
    <3> QED
      BY <2>0, <3>1
  <2>2. CASE m # 0
    <3>1. m - 1 \in Nat /\ m - 1 \notin Bad
      <4> HIDE DEF Bad
      <4> QED
        BY <1>1, <2>0, <2>2
    <3>2. PICK g : Runs(g, base, req, S, l, m - 1)
      BY <3>1
    <3>3. /\ g[0] = base
          /\ \A n \in 1..(m - 1) : g[n] = Moved(g[n - 1], Counted(req, S, l[n]))
      <4> DEFINE j == m - 1
      <4>1. j \in Nat /\ Runs(g, base, req, S, l, j)
        BY <3>1, <3>2
      <4> HIDE DEF j
      <4>2. g[0] = base
        BY ONLY <4>1, RunStarts
      <4>3. \A n \in 1..j : g[n] = Moved(g[n - 1], Counted(req, S, l[n]))
        BY ONLY <4>1, RunGoesOn
      <4> QED
        BY <4>2, <4>3 DEF j
    <3> DEFINE h == [n \in 0..m |-> IF n = m THEN Moved(g[m - 1], Counted(req, S, l[m])) ELSE g[n]]
               F(n) == IF n = 0 THEN base ELSE Moved(h[n - 1], Counted(req, S, l[n]))
    <3> HIDE DEF Bad
    <3>4. \A n \in 0..(m - 1) : h[n] = g[n] /\ n \in 0..m
      BY <2>0
    <3>5. h[m] = Moved(g[m - 1], Counted(req, S, l[m])) /\ m \in 0..m
      BY <2>0
    <3>6. \A n \in 0..m : h[n] = F(n)
      <4> SUFFICES ASSUME NEW n \in 0..m
                   PROVE  h[n] = F(n)
        OBVIOUS
      <4> HIDE DEF h
      <4>1. CASE n = 0
        BY <2>0, <2>2, <3>3, <3>4, <4>1
      <4>2. CASE n # 0 /\ n = m
        <5>1. m - 1 \in 0..(m - 1)
          BY <2>0, <2>2
        <5> QED
          BY <2>0, <2>2, <3>4, <3>5, <4>2, <5>1
      <4>3. CASE n # 0 /\ n # m
        <5>1. n \in 1..(m - 1) /\ n - 1 \in 0..(m - 1) /\ n \in 0..(m - 1)
          BY <2>0, <4>3
        <5> QED
          BY <3>3, <3>4, <4>3, <5>1
      <4> QED
        BY <4>1, <4>2, <4>3
    <3>7. h = [n \in 0..m |-> F(n)]
      <4>1. h = [n \in 0..m |-> h[n]]
        OBVIOUS
      <4> HIDE DEF h, F
      <4> QED
        BY <3>6, <4>1
    <3>8. Runs(h, base, req, S, l, m)
      BY <3>7 DEF Runs
    <3> QED
      BY <2>0, <3>8
  <2> QED
    BY <2>1, <2>2
<1>2. Bad \subseteq Nat
  OBVIOUS
<1>3. Bad = {}
  <2> HIDE DEF Bad
  <2> QED
    BY <1>1, <1>2, Least
<1> QED
  BY <1>3

SameKinds(req, S, l, req2, T, l2, k) ==
  \A n \in 1..k : Counted(req, S, l[n]) = Counted(req2, T, l2[n])

(* Two runs over the same kinds agree as far as both go. *)
LEMMA RunsAgree ==
  ASSUME NEW base, NEW req, NEW S, NEW l, NEW k \in Nat,
         NEW req2, NEW T, NEW l2, NEW k2 \in Nat, k <= k2,
         SameKinds(req, S, l, req2, T, l2, k),
         NEW g, Runs(g, base, req, S, l, k), NEW h, Runs(h, base, req2, T, l2, k2)
  PROVE  \A n \in 0..k : g[n] = h[n]
<1> DEFINE Bad == {n \in 0..k : g[n] # h[n]}
<1>0. g[0] = base /\ h[0] = base
  BY RunStarts
<1>5. \A n \in 1..k : g[n] = Moved(g[n - 1], Counted(req, S, l[n]))
  BY ONLY Runs(g, base, req, S, l, k), k \in Nat DEF Runs
<1>6. \A n \in 1..k2 : h[n] = Moved(h[n - 1], Counted(req2, T, l2[n]))
  BY ONLY Runs(h, base, req2, T, l2, k2), k2 \in Nat DEF Runs
<1>1. /\ g[0] = base /\ \A n \in 1..k : g[n] = Moved(g[n - 1], Counted(req, S, l[n]))
      /\ h[0] = base /\ \A n \in 1..k2 : h[n] = Moved(h[n - 1], Counted(req2, T, l2[n]))
  BY <1>0, <1>5, <1>6
<1>2. ASSUME NEW m \in Bad, \A n \in Bad : m <= n
      PROVE  FALSE
  <2>1. m \in 0..k /\ g[m] # h[m]
    OBVIOUS
  <2>2. m # 0
    BY <1>1, <2>1
  <2>3. m \in 1..k /\ m \in 1..k2 /\ m - 1 \in 0..k
    BY <2>1, <2>2
  <2>4. m - 1 \notin Bad
    <3> HIDE DEF Bad
    <3> QED
      BY <1>2, <2>3
  <2>5. g[m - 1] = h[m - 1]
    BY <2>3, <2>4
  <2>6. Counted(req, S, l[m]) = Counted(req2, T, l2[m])
    BY <2>3 DEF SameKinds
  <2> QED
    BY <1>1, <2>1, <2>3, <2>5, <2>6
<1>3. Bad \subseteq Nat
  OBVIOUS
<1>4. Bad = {}
  <2> HIDE DEF Bad
  <2> QED
    BY <1>2, <1>3, Least
<1> QED
  BY <1>4

LEMMA SumRuns ==
  ASSUME NEW base, NEW req, NEW S, NEW l, NEW k \in Nat
  PROVE  \E g : Runs(g, base, req, S, l, k) /\ Sum(base, req, S, l, k) = g[k]
<1> DEFINE g == CHOOSE g : Runs(g, base, req, S, l, k)
<1>1. Runs(g, base, req, S, l, k)
  BY RunExists
<1>2. Sum(base, req, S, l, k) = g[k]
  BY DEF Sum
<1> QED
  BY <1>1, <1>2

(* Nothing has been added to the base yet. *)
LEMMA SumOfNone ==
  ASSUME NEW base, NEW req, NEW S, NEW l
  PROVE  Sum(base, req, S, l, 0) = base
<1>1. PICK g : Runs(g, base, req, S, l, 0) /\ Sum(base, req, S, l, 0) = g[0]
  BY SumRuns
<1>2. 0 \in Nat
  OBVIOUS
<1>3. g[0] = base
  BY ONLY <1>1, <1>2, RunStarts
<1> QED
  BY <1>1, <1>3

(* The same feedback adds up to the same. *)
LEMMA SumSame ==
  ASSUME NEW base, NEW req, NEW S, NEW req2, NEW T, NEW l, NEW k \in Nat,
         \A n \in 1..k : Counted(req, S, l[n]) = Counted(req2, T, l[n])
  PROVE  Sum(base, req, S, l, k) = Sum(base, req2, T, l, k)
<1>1. PICK g : Runs(g, base, req, S, l, k) /\ Sum(base, req, S, l, k) = g[k]
  BY SumRuns
<1>2. PICK h : Runs(h, base, req2, T, l, k) /\ Sum(base, req2, T, l, k) = h[k]
  BY SumRuns
<1>3. \A n \in 0..k : g[n] = h[n]
  BY <1>1, <1>2, RunsAgree DEF SameKinds
<1> QED
  BY <1>1, <1>2, <1>3

(* One feedback more moves the sum once. *)
LEMMA SumAppend ==
  ASSUME NEW base, NEW req, NEW S, NEW req2, NEW T, NEW l \in Seq(Feedbacks), NEW f \in Feedbacks,
         \A n \in 1..Len(l) : Counted(req, S, l[n]) = Counted(req2, T, l[n])
  PROVE  Sum(base, req2, T, Append(l, f), Len(l) + 1)
           = Moved(Sum(base, req, S, l, Len(l)), Counted(req2, T, f))
<1> DEFINE k == Len(l)
           m == Append(l, f)
<1>1. k \in Nat /\ k + 1 \in Nat /\ k <= k + 1 /\ k + 1 - 1 = k
  OBVIOUS
<1>2. /\ \A n \in 1..k : m[n] = l[n] /\ Counted(req, S, l[n]) = Counted(req2, T, l[n])
      /\ m[k + 1] = f
  OBVIOUS
<1> HIDE DEF k, m
<1>3. PICK g : Runs(g, base, req, S, l, k) /\ Sum(base, req, S, l, k) = g[k]
  BY <1>1, SumRuns
<1>4. PICK h : Runs(h, base, req2, T, m, k + 1) /\ Sum(base, req2, T, m, k + 1) = h[k + 1]
  BY <1>1, SumRuns
<1>5. SameKinds(req, S, l, req2, T, m, k)
  BY <1>2 DEF SameKinds
<1>6. \A n \in 0..k : g[n] = h[n]
  <2> DEFINE k2 == k + 1
  <2>1. k2 \in Nat /\ k <= k2 /\ Runs(h, base, req2, T, m, k2)
    BY <1>1, <1>4
  <2> HIDE DEF k2
  <2> QED
    BY ONLY <1>1, <1>3, <1>5, <2>1, RunsAgree
<1>7. h[k + 1] = Moved(h[k], Counted(req2, T, m[k + 1]))
  <2> DEFINE k2 == k + 1
  <2>3. k2 \in Nat /\ Runs(h, base, req2, T, m, k2)
    BY <1>1, <1>4
  <2> HIDE DEF k2
  <2>4. \A n \in 1..k2 : h[n] = Moved(h[n - 1], Counted(req2, T, m[n]))
    BY ONLY <2>3, RunGoesOn
  <2>1. \A n \in 1..(k + 1) : h[n] = Moved(h[n - 1], Counted(req2, T, m[n]))
    BY <2>4 DEF k2
  <2>2. k + 1 \in 1..(k + 1)
    BY <1>1
  <2> QED
    BY <1>1, <2>1, <2>2
<1>8. g[k] = h[k]
  BY <1>1, <1>6
<1> QED
  BY <1>2, <1>3, <1>4, <1>7, <1>8 DEF k, m

Base(p) == [p EXCEPT !.depth = DEFAULT_DEPTH, !.style = None]

(* The preferences are such a sum for some S that has every feedback that   *)
(* overlapped no other.                                                     *)
Of(l) == {l[i] : i \in DOMAIN l}

SumsTo(p, req, l) ==
  \E S \in SUBSET Of(l) : /\ \A g \in Of(l) \ S : ~ req[g].alone
                         /\ p = Sum(Base(p), req, S, l, Len(l))

LEMMA TotalIsSum == ASSUME NEW S PROVE Total(S) = Sum(Base(prefs), request, S, log, Len(log))
BY DEF Total, Sum, Runs, Base

LEMMA FollowsIfSums == SumsTo(prefs, request, log) => PreferencesFollowFeedback
BY TotalIsSum DEF SumsTo, PreferencesFollowFeedback, Logged, Of

(* A feedback changes neither of the two switches. *)
LEMMA MovedKeepsBase ==
  ASSUME NEW p \in Preferences, NEW kind
  PROVE  Base(Moved(p, kind)) = Base(p)
<1> DEFINE q == Moved(p, kind)
<1>1. q \in Preferences
  BY MovedTyped
<1>2. q.proactivity = p.proactivity /\ q.personalization_enabled = p.personalization_enabled
  BY DEF Moved, Preferences
<1> HIDE DEF q
<1>3. ASSUME NEW r \in Preferences
      PROVE  Base(r) = [depth |-> DEFAULT_DEPTH, style |-> None, proactivity |-> r.proactivity,
                        personalization_enabled |-> r.personalization_enabled]
  <2> DEFINE depth == DEFAULT_DEPTH
             depths == {DEPTH_LEVELS[i] : i \in DOMAIN DEPTH_LEVELS}
             level == {"off"} \cup DOMAIN PROACTIVITY_GAP_MULTIPLIER
  <2>1. r \in [depth : depths, style : {None, Style}, proactivity : level,
               personalization_enabled : BOOLEAN]
    BY <1>3 DEF Preferences
  <2> HIDE DEF depth, depths, level
  <2> DEFINE b == [r EXCEPT !.depth = depth, !.style = None]
             c == [depth |-> depth, style |-> None, proactivity |-> r.proactivity,
                   personalization_enabled |-> r.personalization_enabled]
             names == {"depth", "style", "proactivity", "personalization_enabled"}
  <2>2. DOMAIN r = names
    BY ONLY <2>1
  <2>3. DOMAIN b = names /\ DOMAIN c = names
    BY ONLY <2>2
  <2>4. b.depth = c.depth /\ b.style = c.style /\ b.proactivity = c.proactivity
        /\ b.personalization_enabled = c.personalization_enabled
    BY ONLY <2>2
  <2>5. b = [x \in names |-> b[x]] /\ c = [x \in names |-> c[x]]
    BY ONLY <2>3
  <2>6. \A x \in names : b[x] = c[x]
    BY ONLY <2>4
  <2> HIDE DEF b, c
  <2>7. b = c
    BY ONLY <2>5, <2>6
  <2> QED
    BY <2>7 DEF Base, depth, b, c
<1> QED
  BY <1>1, <1>2, <1>3 DEF q

-----------------------------------------------------------------------------
(* The requests of what is committed already keep their kinds. *)
SameCommitted(req, req2, l) ==
  \A g \in Of(l) : req[g].kind = req2[g].kind /\ req[g].alone = req2[g].alone

LEMMA OfAppend ==
  ASSUME NEW l \in Seq(Feedbacks), NEW f \in Feedbacks
  PROVE  Of(Append(l, f)) = Of(l) \cup {f} /\ Len(Append(l, f)) = Len(l) + 1
<1> DEFINE m == Append(l, f)
           k == Len(l)
<1>1. k \in Nat /\ Len(m) = k + 1 /\ m[k + 1] = f /\ \A i \in 1..k : m[i] = l[i]
  OBVIOUS
<1>2. DOMAIN l = 1..k /\ DOMAIN m = 1..(k + 1)
  OBVIOUS
<1> HIDE DEF k, m
<1>3. Of(m) = Of(l) \cup {f}
  <2>1. \A i \in 1..(k + 1) : i \in 1..k \/ i = k + 1
    BY <1>1
  <2>2. \A i \in 1..k : i \in 1..(k + 1)
    BY <1>1
  <2>3. k + 1 \in 1..(k + 1)
    BY <1>1
  <2> QED
    BY <1>1, <1>2, <2>1, <2>2, <2>3 DEF Of
<1> QED
  BY <1>1, <1>3 DEF k, m

LEMMA SumsSame ==
  ASSUME NEW p, NEW req, NEW req2, NEW l \in Seq(Feedbacks), SumsTo(p, req, l),
         SameCommitted(req, req2, l)
  PROVE  SumsTo(p, req2, l)
<1>1. PICK S \in SUBSET Of(l) : /\ \A g \in Of(l) \ S : ~ req[g].alone
                               /\ p = Sum(Base(p), req, S, l, Len(l))
  BY DEF SumsTo
<1>2. \A n \in 1..Len(l) : Counted(req, S, l[n]) = Counted(req2, S, l[n])
  BY DEF Counted, SameCommitted, Of
<1>3. Sum(Base(p), req, S, l, Len(l)) = Sum(Base(p), req2, S, l, Len(l))
  <2> DEFINE base == Base(p)
             k == Len(l)
  <2>1. k \in Nat /\ \A n \in 1..k : Counted(req, S, l[n]) = Counted(req2, S, l[n])
    BY <1>2
  <2> HIDE DEF base, k
  <2>2. Sum(base, req, S, l, k) = Sum(base, req2, S, l, k)
    BY ONLY <2>1, SumSame
  <2> QED
    BY <2>2 DEF base, k
<1>4. \A g \in Of(l) \ S : ~ req2[g].alone
  BY <1>1 DEF SameCommitted
<1> QED
  BY <1>1, <1>3, <1>4 DEF SumsTo

(* A feedback whose change is lost leaves the sum as it was. *)
LEMMA SumsSkip ==
  ASSUME NEW p, NEW req, NEW req2, NEW l \in Seq(Feedbacks), SumsTo(p, req, l),
         SameCommitted(req, req2, l), NEW f \in Feedbacks, f \notin Of(l), ~ req2[f].alone
  PROVE  SumsTo(p, req2, Append(l, f))
<1>1. PICK S \in SUBSET Of(l) : /\ \A g \in Of(l) \ S : ~ req[g].alone
                               /\ p = Sum(Base(p), req, S, l, Len(l))
  BY DEF SumsTo
<1>2. \A n \in 1..Len(l) : Counted(req, S, l[n]) = Counted(req2, S, l[n])
  BY DEF Counted, SameCommitted, Of
<1>3. Sum(Base(p), req2, S, Append(l, f), Len(l) + 1)
        = Moved(Sum(Base(p), req, S, l, Len(l)), Counted(req2, S, f))
  <2> DEFINE base == Base(p)
  <2> HIDE DEF base
  <2>1. Sum(base, req2, S, Append(l, f), Len(l) + 1)
          = Moved(Sum(base, req, S, l, Len(l)), Counted(req2, S, f))
    BY ONLY l \in Seq(Feedbacks), f \in Feedbacks, <1>2, SumAppend
  <2> QED
    BY <2>1 DEF base
<1>4. Counted(req2, S, f) = "helpful"
  BY <1>1 DEF Counted
<1>5. p = Sum(Base(p), req2, S, Append(l, f), Len(l) + 1)
  BY <1>1, <1>3, <1>4 DEF Moved
<1>6. Of(Append(l, f)) = Of(l) \cup {f} /\ Len(Append(l, f)) = Len(l) + 1
  BY OfAppend
<1>7. \A g \in (Of(l) \cup {f}) \ S : ~ req2[g].alone
  BY <1>1 DEF SameCommitted
<1> QED
  BY <1>1, <1>5, <1>6, <1>7 DEF SumsTo

(* A feedback that is written adds its change to what its request loaded. *)
LEMMA SumsAdd ==
  ASSUME NEW p \in Preferences, NEW req, NEW req2, NEW l \in Seq(Feedbacks),
         SumsTo(p, req, l), SameCommitted(req, req2, l),
         NEW f \in Feedbacks, f \notin Of(l)
  PROVE  SumsTo(Moved(p, req2[f].kind), req2, Append(l, f))
<1>1. PICK S \in SUBSET Of(l) : /\ \A g \in Of(l) \ S : ~ req[g].alone
                               /\ p = Sum(Base(p), req, S, l, Len(l))
  BY DEF SumsTo
<1> DEFINE T == S \cup {f}
           q == Moved(p, req2[f].kind)
<1>2. \A n \in 1..Len(l) : Counted(req, S, l[n]) = Counted(req2, T, l[n])
  BY DEF Counted, SameCommitted, Of
<1>3. Sum(Base(p), req2, T, Append(l, f), Len(l) + 1)
        = Moved(Sum(Base(p), req, S, l, Len(l)), Counted(req2, T, f))
  <2> DEFINE base == Base(p)
  <2> HIDE DEF base, T
  <2>1. Sum(base, req2, T, Append(l, f), Len(l) + 1)
          = Moved(Sum(base, req, S, l, Len(l)), Counted(req2, T, f))
    BY ONLY l \in Seq(Feedbacks), f \in Feedbacks, <1>2, SumAppend
  <2> QED
    BY <2>1 DEF base
<1>4. Counted(req2, T, f) = req2[f].kind
  BY DEF Counted
<1>5. Base(q) = Base(p)
  BY MovedKeepsBase
<1>6. Of(Append(l, f)) = Of(l) \cup {f} /\ Len(Append(l, f)) = Len(l) + 1
  BY OfAppend
<1>7. /\ T \in SUBSET (Of(l) \cup {f})
      /\ \A g \in (Of(l) \cup {f}) \ T : ~ req2[g].alone
  BY <1>1 DEF SameCommitted
<1>8. q = Sum(Base(q), req2, T, Append(l, f), Len(l) + 1)
  BY <1>1, <1>3, <1>4, <1>5
<1> HIDE DEF T, q
<1>9. SumsTo(q, req2, Append(l, f))
  BY <1>6, <1>7, <1>8 DEF SumsTo
<1> QED
  BY <1>9 DEF q

-----------------------------------------------------------------------------
(* What is committed and what each request has loaded is a sum that has     *)
(* every lone feedback; a lone reader is the only one and has it as it is.  *)
FollowInv ==
  /\ \A f \in Feedbacks : request[f].pc = "idle" => request[f].alone
  /\ SumsTo(prefs, request, log)
  /\ \A f \in Feedbacks : Reading(f) => SumsTo(request[f].copy, request, log)
  /\ \A f \in Feedbacks : Reading(f) /\ request[f].alone =>
       request[f].copy = prefs /\ \A g \in Feedbacks : Reading(g) => g = f

LEMMA InitFollow == Init => FollowInv
<1> SUFFICES ASSUME Init
             PROVE  FollowInv
  OBVIOUS
<1>1. log = <<>> /\ Len(log) = 0 /\ Of(log) = {}
  BY DEF Init, Of
<1>2. Base(prefs) = prefs
  BY DEF Init, Base
<1>3. SumsTo(prefs, request, log)
  BY <1>1, <1>2, SumOfNone DEF SumsTo
<1>4. \A f \in Feedbacks : ~ Reading(f) /\ request[f].alone
  BY DEF Init, Reading, FreshRequest
<1> QED
  BY <1>3, <1>4 DEF FollowInv

LEMMA KeepFollow ==
  ASSUME FollowInv, UNCHANGED requestVars
  PROVE  FollowInv'
BY DEF FollowInv, Reading, requestVars

LEMMA LoadFollow ==
  ASSUME IInv, FollowInv, NEW f \in Feedbacks, LoadPreferences(f)
  PROVE  FollowInv'
<1>1. PICK kind \in Kinds :
       request' = [g \in Feedbacks |->
         IF g = f
         THEN [pc |-> "read", kind |-> kind, copy |-> prefs,
               alone |-> ~ \E o \in Feedbacks : Reading(o)]
         ELSE [request[g] EXCEPT !.alone = @ /\ ~ Reading(g)]]
  BY DEF LoadPreferences
<1>2. request[f].pc = "idle" /\ prefs' = prefs /\ log' = log /\ log \in Seq(Feedbacks)
  BY DEF LoadPreferences, IInv, RowsOK
<1>3. \A g \in Feedbacks \ {f} : /\ request'[g].pc = request[g].pc
                                /\ request'[g].kind = request[g].kind
                                /\ request'[g].copy = request[g].copy
                                /\ request'[g].alone = (request[g].alone /\ ~ Reading(g))
  BY <1>1 DEF IInv
<1>4. request'[f].pc = "read" /\ request'[f].copy = prefs
      /\ request'[f].alone = ~ \E o \in Feedbacks : Reading(o)
  BY <1>1
<1>5. \A g \in Feedbacks : request'[g].pc = "idle" => request'[g].alone
  BY <1>3, <1>4 DEF FollowInv, Reading
<1>6. SameCommitted(request, request', log)
  <2>1. \A g \in Of(log) : g \in Feedbacks /\ request[g].pc = "done"
    BY <1>2 DEF Of, Logged, IInv, RequestOK
  <2>2. \A g \in Of(log) : g # f /\ ~ Reading(g) /\ request[g].alone \in BOOLEAN
    BY <1>2, <2>1 DEF Reading, IInv
  <2> QED
    BY <1>3, <2>1, <2>2 DEF SameCommitted
<1>7. SumsTo(prefs, request', log)
  <2> DEFINE req2 == request'
  <2> HIDE DEF req2
  <2>1. SumsTo(prefs, req2, log)
    BY <1>2, <1>6, SumsSame DEF FollowInv, req2
  <2> QED
    BY <2>1 DEF req2
<1>8. ASSUME NEW g \in Feedbacks, request'[g].pc = "read"
      PROVE  SumsTo(request'[g].copy, request', log)
  <2>1. CASE g = f
    BY <1>4, <1>7, <2>1
  <2>2. CASE g # f
    <3> DEFINE req2 == request'
               p == request[g].copy
    <3>1. SumsTo(p, request, log) /\ request'[g].copy = p
      BY <1>3, <1>8, <2>2 DEF FollowInv, Reading
    <3> HIDE DEF req2, p
    <3>2. SumsTo(p, req2, log)
      BY <1>2, <1>6, <3>1, SumsSame DEF req2
    <3> QED
      BY <3>1, <3>2 DEF req2
  <2> QED
    BY <2>1, <2>2
<1>9. ASSUME NEW g \in Feedbacks, request'[g].pc = "read", request'[g].alone
      PROVE  request'[g].copy = prefs /\ \A o \in Feedbacks : request'[o].pc = "read" => o = g
  BY <1>3, <1>4, <1>9 DEF Reading
<1> QED
  BY <1>2, <1>5, <1>7, <1>8, <1>9 DEF FollowInv, Reading

LEMMA RecordFollow ==
  ASSUME IInv, FollowInv, NEW f \in Feedbacks, Record(f)
  PROVE  FollowInv'
<1> DEFINE copy == request[f].copy
           new == Moved(copy, request[f].kind)
<1>1. /\ log' = Append(log, f) /\ request' = [request EXCEPT ![f].pc = "done"]
      /\ log \in Seq(Feedbacks) /\ request[f].pc = "read"
      /\ prefs' = IF new = copy THEN prefs ELSE new
  BY DEF Record, Reading, IInv, RowsOK
<1>2. \A g \in Feedbacks : /\ request'[g].pc = IF g = f THEN "done" ELSE request[g].pc
                          /\ request'[g].copy = request[g].copy
                          /\ request'[g].kind = request[g].kind
                          /\ request'[g].alone = request[g].alone
  BY <1>1 DEF IInv
<1>3. \A g \in Feedbacks : request'[g].pc = "idle" => request'[g].alone
  BY <1>2 DEF FollowInv
<1>4. f \notin Of(log) /\ SameCommitted(request, request', log)
  <2>1. \A g \in Of(log) : g \in Feedbacks /\ request[g].pc = "done"
    BY <1>1 DEF Of, Logged, IInv, RequestOK
  <2> QED
    BY <1>1, <1>2, <2>1 DEF SameCommitted
<1>5. copy \in Preferences /\ SumsTo(copy, request, log)
  BY <1>1 DEF IInv, RequestOK, FollowInv, Reading
<1>6. ASSUME NEW p, SumsTo(p, request, log), ~ request[f].alone
      PROVE  SumsTo(p, request', log')
  <2> DEFINE req2 == request'
  <2>1. ~ req2[f].alone /\ SameCommitted(request, req2, log)
    BY <1>2, <1>4, <1>6
  <2> HIDE DEF req2
  <2>2. SumsTo(p, req2, Append(log, f))
    BY <1>1, <1>4, <1>6, <2>1, SumsSkip
  <2> QED
    BY <1>1, <2>2 DEF req2
<1>7. SumsTo(new, request', log')
  <2> DEFINE req2 == request'
             p == copy
  <2>1. req2[f].kind = request[f].kind /\ SameCommitted(request, req2, log)
        /\ p \in Preferences /\ SumsTo(p, request, log)
    BY <1>2, <1>4, <1>5
  <2> HIDE DEF req2, p
  <2>2. SumsTo(Moved(p, req2[f].kind), req2, Append(log, f))
    BY <1>1, <1>4, <2>1, SumsAdd
  <2> QED
    BY <1>1, <2>1, <2>2 DEF req2, p
<1>8. SumsTo(prefs', request', log')
  <2>1. CASE request[f].alone
    <3>1. copy = prefs
      BY <1>1, <2>1 DEF FollowInv, Reading
    <3> QED
      BY <1>1, <1>7, <3>1
  <2>2. CASE ~ request[f].alone
    <3>1. SumsTo(prefs, request', log')
      BY <1>6, <2>2 DEF FollowInv
    <3> QED
      BY <1>1, <1>7, <3>1
  <2> QED
    BY <2>1, <2>2
<1>9. ASSUME NEW g \in Feedbacks, request'[g].pc = "read"
      PROVE  SumsTo(request'[g].copy, request', log') /\ ~ request'[g].alone
  <2>1. g # f /\ Reading(g) /\ Reading(f)
    BY <1>1, <1>2, <1>9 DEF Reading
  <2>2. ~ request[f].alone /\ ~ request[g].alone
    BY <2>1 DEF FollowInv
  <2>3. SumsTo(request[g].copy, request, log)
    BY <2>1 DEF FollowInv
  <2> DEFINE p == request[g].copy
  <2> HIDE DEF p
  <2>4. SumsTo(p, request', log')
    BY <1>6, <2>2, <2>3 DEF p
  <2> QED
    BY <1>2, <2>2, <2>4 DEF p
<1> QED
  BY <1>3, <1>8, <1>9 DEF FollowInv, Reading

LEMMA NextFollow == IInv /\ FollowInv /\ [Next]_vars => FollowInv'
<1> SUFFICES ASSUME IInv, FollowInv, [Next]_vars
             PROVE  FollowInv'
  OBVIOUS
<1>1. ASSUME NEW t \in Turns, Begin(t) \/ ServerStep(t) \/ Fail(t)
      PROVE  UNCHANGED requestVars
  <2>1. CASE Begin(t) \/ Commit(t)
    BY <2>1 DEF Begin, Commit
  <2>2. CASE AnswerWithoutAgent(t) \/ Gate(t) \/ CountTurns(t) \/ Authorize(t) \/ Answer(t)
    BY <2>2 DEF AnswerWithoutAgent, Gate, CountTurns, Authorize, Answer, Set
  <2>3. CASE WriteSignal(t) \/ ReadPending(t) \/ Stamp(t) \/ Backstop(t)
    BY <2>3 DEF WriteSignal, ReadPending, Stamp, Backstop, Set
  <2>4. CASE DeadlockDetected(t) \/ Fail(t)
    BY <2>4 DEF DeadlockDetected, Fail, RollBack, Set
  <2> QED
    BY <1>1, <2>1, <2>2, <2>3, <2>4 DEF ServerStep
<1>2. ASSUME NEW f \in Feedbacks, LoadPreferences(f)
      PROVE  FollowInv'
  BY <1>2, LoadFollow
<1>3. ASSUME NEW f \in Feedbacks, Record(f)
      PROVE  FollowInv'
  BY <1>3, RecordFollow
<1>4. ASSUME NEW p \in Papers, Revoke(p) \/ Grant(p)
      PROVE  UNCHANGED requestVars
  BY <1>4 DEF Revoke, Grant
<1>5. CASE UNCHANGED vars
  BY <1>5, KeepFollow DEF vars
<1> QED
  BY <1>1, <1>2, <1>3, <1>4, <1>5, KeepFollow DEF Next

(* Feedback counts: what the gate of a committed turn knew is stamped, and  *)
(* the preferences are what the committed feedback adds up to, but for      *)
(* whole changes of requests that overlapped another one: for any number of *)
(* requests and turns.                                                      *)
THEOREM FeedbackCounted == Spec => []FeedbackCounts
<1>1. FollowInv => PreferencesFollowFeedback
  BY FollowsIfSums DEF FollowInv
<1>2. Spec => []FollowInv
  BY InitFollow, NextFollow, AlwaysInv, PTL DEF Spec
<1> QED
  BY <1>1, <1>2, FeedbackIsStamped, PTL DEF FeedbackCounts
=============================================================================
