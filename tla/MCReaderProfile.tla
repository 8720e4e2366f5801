--------------------------- MODULE MCReaderProfile ---------------------------
(* Instances of ReaderProfile for TLC. *)
EXTENDS ReaderProfile, TLC

CONSTANTS t1, t2, t3, p1, p2, c1, c2, f1, f2

(* One concept is known from one paper, the other from both. *)
SourcesOf == (c1 :> {p1}) @@ (c2 :> {p1, p2})

Account(level, personal) ==
  [depth |-> DEFAULT_DEPTH, style |-> None, proactivity |-> level,
   personalization_enabled |-> personal]

Past == [FreshTurn EXCEPT !.pc = "done", !.at = 1, !.concept = c2, !.prior = p1,
                          !.open = {p1}, !.gated = TRUE]

Waiting(live) == [t \in Turns |-> IF t \in live THEN FreshTurn
                                  ELSE [FreshTurn EXCEPT !.pc = "failed"]]

Requests(given) == [f \in Feedbacks |-> IF f \in given THEN FreshRequest
                                        ELSE [FreshRequest EXCEPT !.pc = "done"]]

(* Turns and feedbacks, three in all, on an empty shelf with callbacks off. *)
TurnsAndFeedback ==
  /\ prefs = Account("off", TRUE)
  /\ turns = {} /\ memory = {c1} /\ granted = {} /\ clock = 0 /\ changes = 0
  /\ \E live \in {{}, {t1}, {t1, t2}}, given \in {{f1}, {f1, f2}, Feedbacks} :
       /\ Cardinality(live) + Cardinality(given) = 3
       /\ turn = Waiting(live)
       /\ request = Requests(given)

(* Two turns after one that made a callback, on a shelf that may lose a     *)
(* paper; one turn on a shelf that may get one back, and one of a reader    *)
(* without personalisation.  There is no feedback.                          *)
AfterACallback ==
  /\ turns = {[by |-> t3, at |-> 1, concept |-> c2, reason |-> None]}
  /\ memory = Concepts /\ clock = 1 /\ changes = MaxChanges
  /\ \/ /\ prefs = Account("normal", TRUE) /\ granted = Papers
        /\ turn = [Waiting({t1, t2}) EXCEPT ![t3] = Past]
     \/ /\ prefs = Account("high", TRUE) /\ granted = {p2}
        /\ turn = [Waiting({t1}) EXCEPT ![t3] = Past]
     \/ /\ prefs = Account("normal", FALSE) /\ granted = Papers
        /\ turn = [Waiting({t1}) EXCEPT ![t3] = Past]
  /\ request = Requests({})

ProfileInit ==
  /\ log = <<>> /\ applied = [f \in Feedbacks |-> None]
  /\ AfterACallback \/ TurnsAndFeedback

ProfileSpec ==
  /\ ProfileInit
  /\ [][Next]_vars
  /\ \A t \in Turns : WF_vars(ServerStep(t))
=============================================================================
