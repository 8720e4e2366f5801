---------------------------- MODULE MCTurnSession ----------------------------
(* Instances of TurnSession for TLC. *)
EXTENDS TurnSession, TLC

CONSTANT Asker   \* a request that has already ended when the instance starts

Interchangeable == Permutations(Requests \ {Asker})

(* The state after Asker ran alone, with or without asking a quiz: reachable *)
(* states from which the others race with one request less to explore.       *)
BegunInit(asked) ==
  LET quiz == IF asked THEN Asker ELSE None
  IN  /\ session = [activity |-> IF asked THEN "QUIZ_PENDING" ELSE "FREE",
                    pending |-> quiz, concept |-> quiz, turnCount |-> 1]
      /\ turns = {[by |-> Asker, ordinal |-> 0, kind |-> "answer"]}
      /\ messages = {[by |-> Asker, role |-> "user", ordinal |-> 0],
                     [by |-> Asker, role |-> "assistant", ordinal |-> 1]}
      /\ quizzes = {quiz} \ {None}
      /\ attempts = {}
      /\ rowLock = None
      /\ clock = 1
      /\ started = [r \in Requests |-> IF r = Asker THEN 1 ELSE 0]
      /\ pc = [r \in Requests |-> IF r = Asker THEN "done" ELSE "idle"]
      /\ req = [r \in Requests |-> Fresh]

BegunFairSpec ==
  /\ BegunInit(TRUE) \/ BegunInit(FALSE)
  /\ [][Next]_vars
  /\ \A r \in Requests : WF_vars(ServerStep(r))
=============================================================================
