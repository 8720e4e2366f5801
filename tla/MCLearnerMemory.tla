--------------------------- MODULE MCLearnerMemory ---------------------------
(* Instances of LearnerMemory for TLC: the states from which few writers race. *)
EXTENDS LearnerMemory

CONSTANTS t1, t2, k1, k2, c1, c2, p1

Said(t, at, signal) ==
  [by |-> t, no |-> 1, at |-> at, concept |-> c1, signal |-> signal,
   style |-> IF t \in Turns THEN CHOOSE style \in Styles : TRUE ELSE None,
   resolves |-> None, attempt |-> IF t \in Turns THEN 1 ELSE 0]

ViewOf(obs) == CHOOSE d \in Derive(obs) : TRUE

(* The state after `obs` were committed by `over` and c1 was last written with *)
(* what `derived` says; `over` are done and `still` have failed.               *)
StateAfter(over, still, obs, derived, override) ==
  /\ observations = obs
  /\ concepts = [c \in Concepts |->
       IF c = c1 THEN [view |-> ViewOf(derived), sources |-> {p1}, override |-> override]
       ELSE None]
  /\ rowLock = [c \in Concepts |-> None]
  /\ clock = Cardinality(over \cup still)
  /\ pc = [t \in Writers |-> IF t \in over THEN "done"
                             ELSE IF t \in still THEN "failed" ELSE "idle"]
  /\ w = [t \in Writers |->
            [Fresh EXCEPT !.kind = IF t \in over \cap Corrections THEN "correction"
                                   ELSE "agent"]]

(* Two turns meet a concept of another paper, and one not known yet. *)
TwoTurns ==
  /\ observations = {}
  /\ concepts = [c \in Concepts |-> IF c = c1 THEN NewConcept({}) ELSE None]
  /\ rowLock = [c \in Concepts |-> None]
  /\ clock = Cardinality(Corrections)
  /\ pc = [t \in Writers |-> IF t \in Turns THEN "idle" ELSE "failed"]
  /\ w = [t \in Writers |-> Fresh]

(* A correction is over: a turn and a second correction race. *)
AfterCorrection ==
  LET o == Said(k1, 1, "user_stated_known")
  IN  StateAfter({k1}, {t2}, {o}, {o}, "user_stated_known")

(* Two turns raced, and the row says only what the second one saw: the *)
(* corrections find it so.                                             *)
AfterLostEvidence ==
  LET a == Said(t1, 1, "explicit_understanding")
      b == Said(t2, 2, "explicit_confusion")
  IN  StateAfter({t1, t2}, {}, {a, b}, {b}, None)

RaceInit == TwoTurns \/ AfterCorrection \/ AfterLostEvidence

RaceSpec ==
  /\ RaceInit
  /\ [][Next]_vars
  /\ \A t \in Writers : WF_vars(ServerStep(t))
=============================================================================
