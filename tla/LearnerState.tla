----------------------------- MODULE LearnerState -----------------------------
(***************************************************************************)
(* What an evidence trail says about a reader: the weights, the targets    *)
(* and the derivation of app/services/learner_state.py, and the closed     *)
(* vocabulary of app/services/signals.py.  Weights are in hundredths.      *)
(*                                                                         *)
(* An observation here has a `signal`, a `resolves` (None when it resolves *)
(* nothing), a `style` (None when none was in play) and an `at`.           *)
(***************************************************************************)
EXTENDS Integers, FiniteSets, FiniteSetsExt

CONSTANT None

SOURCE_FOR_SIGNAL ==
  [explicit_confusion |-> "explicit", explicit_understanding |-> "explicit",
   implicit_confusion |-> "implicit", applied_correctly |-> "implicit",
   quiz_correct |-> "quiz", quiz_partial |-> "quiz", quiz_incorrect |-> "quiz",
   user_stated_known |-> "user_stated", user_stated_unknown |-> "user_stated",
   reinforcement |-> "system"]

SignalType == DOMAIN SOURCE_FOR_SIGNAL

ResolvingSignals == {"explicit_understanding", "user_stated_known",
                     "quiz_correct", "applied_correctly"}
StruggleSignals == {"explicit_confusion", "implicit_confusion",
                    "user_stated_unknown", "quiz_incorrect", "quiz_partial"}

SOURCE_WEIGHT == [quiz |-> 100, user_stated |-> 90, explicit |-> 80,
                  implicit |-> 40, system |-> 0]

(* weight_for, with the one pair of SIGNAL_WEIGHTS. *)
Weight(signal) == IF signal = "applied_correctly" THEN 75
                  ELSE SOURCE_WEIGHT[SOURCE_FOR_SIGNAL[signal]]

SIGNAL_TARGETS ==
  [explicit_confusion |-> 0, implicit_confusion |-> 15,
   explicit_understanding |-> 100, quiz_correct |-> 100, quiz_partial |-> 50,
   quiz_incorrect |-> 0, applied_correctly |-> 100, user_stated_known |-> 100,
   user_stated_unknown |-> 0, reinforcement |-> 60]

ASSISTED_UNDERSTANDING_TARGET == 70

Target(o) ==
  IF o.resolves # None
     /\ o.signal \in {"explicit_understanding", "user_stated_known"}
  THEN ASSISTED_UNDERSTANDING_TARGET
  ELSE SIGNAL_TARGETS[o.signal]

-----------------------------------------------------------------------------
TotalWeight(obs) == LET weight(o) == Weight(o.signal) IN MapThenSumSet(weight, obs)
WeightedTarget(obs) ==
  LET term(o) == Weight(o.signal) * Target(o) IN MapThenSumSet(term, obs)

(* The observations that resolved a struggle with a known style in play, the *)
(* styles they used, and which of these come out on top: most resolutions,   *)
(* then the latest.  Two resolutions of one transaction carry the same time, *)
(* and then the order in which the rows are read decides.                    *)
Taught(obs) == {o \in obs : o.resolves # None /\ o.style # None}
With(obs, style) == {o \in Taught(obs) : o.style = style}
LastUse(obs, style) == Max({o.at : o \in With(obs, style)})
Beats(obs, a, b) ==
  \/ Cardinality(With(obs, a)) > Cardinality(With(obs, b))
  \/ /\ Cardinality(With(obs, a)) = Cardinality(With(obs, b))
     /\ LastUse(obs, a) > LastUse(obs, b)
EffectiveStyles(obs) ==
  LET styles == {o.style : o \in Taught(obs)}
  IN  IF styles = {} THEN {None}
      ELSE {a \in styles : \A b \in styles : ~Beats(obs, b, a)}

(* The raw score is the quotient points / weight, NULL when weight is zero.  *)
(* The confidence, W / (W + 0.70), is told apart exactly by the weight.      *)
Column == {"score", "confidence", "count", "style", "last"}

(* derive: every result the reading order leaves open. *)
Derive(obs) ==
  {[score |-> [points |-> WeightedTarget(obs), weight |-> TotalWeight(obs)],
    confidence |-> TotalWeight(obs),
    count |-> Cardinality(obs),
    style |-> style,
    last |-> Max({0} \cup {o.at : o \in obs})] : style \in EffectiveStyles(obs)}

SameScore(a, b) ==
  IF a.weight = 0 \/ b.weight = 0 THEN a.weight = b.weight
  ELSE a.points * b.weight = b.points * a.weight

(* The columns in which two views of a concept differ. *)
Differing(a, b) ==
  {col \in Column : IF col = "score" THEN ~SameScore(a.score, b.score)
                    ELSE a[col] # b[col]}

Agrees(view, obs) == \E d \in Derive(obs) : Differing(view, d) = {}
=============================================================================
