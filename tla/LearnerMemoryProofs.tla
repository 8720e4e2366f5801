------------------------ MODULE LearnerMemoryProofs ------------------------
(***************************************************************************)
(* LearnerMemory for any number of turns, corrections, concepts, papers    *)
(* and signals: what the observations that are left rest on, which does    *)
(* not depend on what is derived from them; and then what is derived: the  *)
(* columns, who settles them, and the reader's override.                   *)
(***************************************************************************)
EXTENDS LearnerMemory, TLAPS, FiniteSetTheorems, SequenceTheorems

(* A committed struggle about the concept, named by its key. *)
Resolvable(resolves, concept) ==
  \E p \in observations : /\ Id(p) = resolves
                          /\ p.concept = concept
                          /\ p.signal \in StruggleSignals

Signals ==
  [concept : Concepts \cup {None}, signal : SignalType, style : Styles \cup {None},
   resolves : {None} \cup {Id(p) : p \in observations}, attempt : 0..MAX_TRANSIENT_ATTEMPTS]

(* A writer's record; the fields the proof does not need are as they are. *)
Shape(r) ==
  r \in [kind : {"agent", "graded", "correction"}, at : {r.at}, paper : {r.paper},
         seen : Concepts \cup {None}, attempt : 1..MAX_TRANSIENT_ATTEMPTS, now : Signals,
         writing : BOOLEAN, buffer : Seq(Signals), own : {r.own}, rows : {r.rows},
         copy : {r.copy}, saw : {r.saw}, derived : {r.derived}, again : {r.again}]

-----------------------------------------------------------------------------
(* The inductive invariant. *)

Before == {"idle", "agent", "recall", "grow", "create", "pair", "override"}

(* Nothing is written before the agent is done; what is reached by writing *)
(* has something written.                                                  *)
ProgressOK(l, r) ==
  /\ l \in Before => r.own = {}
  /\ l \in {"load", "update", "recompute"} => r.own # {}
  /\ l = "ready" /\ r.kind = "agent" /\ r.seen # None => r.own # {}
  /\ l = "write" => r.buffer # <<>>
  /\ l = "override" => r.kind # "agent"

(* What is noticed, buffered or written is of the present attempt. *)
AttemptOK(l, r) ==
  r.kind = "agent" =>
    /\ l \in {"recall", "grow", "create", "pair"} => r.now.attempt = r.attempt
    /\ \A i \in DOMAIN r.buffer : r.buffer[i].attempt = r.attempt
    /\ \A o \in r.own : o.attempt = r.attempt

(* What is buffered or written resolves committed struggles. *)
ResolutionOK(t, r) ==
  /\ \A i \in DOMAIN r.buffer :
       r.buffer[i].resolves # None => Resolvable(r.buffer[i].resolves, r.buffer[i].concept)
  /\ \A o \in r.own :
       o.by = t /\ (o.resolves # None => Resolvable(o.resolves, o.concept))

LocalOK(t, l, r) == Shape(r) /\ ProgressOK(l, r) /\ AttemptOK(l, r) /\ ResolutionOK(t, r)

(* A committed observation is of a writer that is done. *)
CommittedOK(o) ==
  /\ o.by \in Writers /\ pc[o.by] = "done"
  /\ o.by \in Turns /\ w[o.by].kind = "agent" => o.attempt = w[o.by].attempt
  /\ o.resolves # None =>
       \E p \in observations : /\ Id(p) = o.resolves /\ p.by # o.by
                               /\ p.concept = o.concept /\ p.signal \in StruggleSignals

IInv ==
  /\ DOMAIN pc = Writers /\ pc = [t \in Writers |-> pc[t]]
  /\ DOMAIN w = Writers /\ w = [t \in Writers |-> w[t]]
  /\ \A t \in Writers : LocalOK(t, pc[t], w[t])
  /\ \A o \in observations : CommittedOK(o)
  /\ MemoryAccumulates

LEMMA NoSignalTyped == NoSignal \in Signals
  BY DEF NoSignal, Signals, SignalType, SOURCE_FOR_SIGNAL, MAX_TRANSIENT_ATTEMPTS

LEMMA FreshOK ==
  ASSUME NEW t, NEW l \in {"idle", "failed"}
  PROVE  LocalOK(t, l, Fresh)
<1>1. /\ Fresh.own = {} /\ Fresh.buffer = <<>> /\ Fresh.kind = "agent"
      /\ Fresh.attempt = 1 /\ Fresh.now = NoSignal /\ Fresh.writing = FALSE
  BY DEF Fresh
<1>2. NoSignal \in Signals
  BY NoSignalTyped
<1>3. Shape(Fresh)
  <2>1. <<>> \in Seq(Signals) /\ 1 \in 1..MAX_TRANSIENT_ATTEMPTS
    BY DEF MAX_TRANSIENT_ATTEMPTS
  <2> QED
    BY <1>2, <2>1 DEF Fresh, Shape
<1> QED
  BY <1>1, <1>3 DEF LocalOK, ProgressOK, AttemptOK, ResolutionOK, Before

LEMMA InitInv == Init => IInv
<1> SUFFICES ASSUME Init
             PROVE  IInv
  OBVIOUS
<1>1. \A t \in Writers : LocalOK(t, pc[t], w[t])
  BY FreshOK DEF Init
<1>2. MemoryAccumulates
  BY DEF Init, MemoryAccumulates, Writers
<1> QED
  BY <1>1, <1>2 DEF Init, IInv

(* A step of one writer that commits nothing. *)
LEMMA SetInv ==
  ASSUME IInv, NEW t \in Writers, NEW l, NEW r, Set(t, r), Goto(t, l),
         UNCHANGED observations, pc[t] # "done", l # "done", LocalOK(t, l, r)
  PROVE  IInv'
<1>1. /\ w' = [o \in Writers |-> IF o = t THEN r ELSE w[o]]
      /\ pc' = [o \in Writers |-> IF o = t THEN l ELSE pc[o]]
  BY DEF Set, Goto, IInv
<1>2. /\ w'[t] = r /\ pc'[t] = l
      /\ \A o \in Writers \ {t} : w'[o] = w[o] /\ pc'[o] = pc[o]
  BY <1>1
<1>3. ASSUME NEW o \in Writers
      PROVE  LocalOK(o, pc[o], w[o])'
  <2>1. LocalOK(o, pc'[o], w'[o])
    BY <1>2 DEF IInv
  <2>2. Shape(w[o])'
    BY <2>1 DEF LocalOK, Shape, Signals
  <2>3. ResolutionOK(o, w[o])'
    BY <2>1 DEF LocalOK, ResolutionOK, Resolvable
  <2> QED
    BY <2>1, <2>2, <2>3 DEF LocalOK, ProgressOK, AttemptOK
<1>4. ASSUME NEW o \in observations
      PROVE  CommittedOK(o)'
  <2>1. CommittedOK(o) /\ o.by # t
    BY DEF IInv, CommittedOK
  <2> QED
    BY <1>2, <2>1 DEF CommittedOK
<1>5. MemoryAccumulates'
  BY <1>2 DEF IInv, MemoryAccumulates, Writers
<1> QED
  BY <1>1, <1>3, <1>4, <1>5 DEF IInv

-----------------------------------------------------------------------------
(* The beginnings. *)

LEMMA BeginInv ==
  ASSUME IInv, NEW t \in Writers, BeginTurn(t) \/ BeginGrading(t) \/ BeginCorrection(t)
  PROVE  IInv'
<1>1. pc[t] = "idle" /\ UNCHANGED observations
  BY DEF BeginTurn, BeginGrading, BeginCorrection
<1>2. ASSUME NEW r, NEW l, Set(t, r), Goto(t, l), Shape(r),
             r.own = {}, r.buffer = <<>>,
             l \in Before, r.kind = "agent" => l = "agent"
      PROVE  IInv'
  <2>1. LocalOK(t, l, r)
    BY <1>2 DEF LocalOK, ProgressOK, AttemptOK, ResolutionOK, Before
  <2> QED
    BY <1>1, <1>2, <2>1, SetInv DEF Before
<1>3. /\ Fresh.own = {} /\ Fresh.buffer = <<>> /\ Fresh.kind = "agent"
      /\ Shape(Fresh)
  BY FreshOK DEF Fresh, LocalOK
<1>4. ASSUME NEW c \in Concepts, NEW signal \in SignalType
      PROVE  [NoSignal EXCEPT !.concept = c, !.signal = signal] \in Signals
  BY NoSignalTyped DEF Signals
<1>5. CASE BeginTurn(t)
  <2>1. PICK paper \in Papers, seen \in {x \in Concepts : concepts[x] # None} \cup {None} :
          Set(t, [Fresh EXCEPT !.at = clock + 1, !.paper = paper, !.seen = seen])
    BY <1>5 DEF BeginTurn
  <2> DEFINE r == [Fresh EXCEPT !.at = clock + 1, !.paper = paper, !.seen = seen]
  <2>2. Shape(r) /\ r.own = {} /\ r.buffer = <<>>
    BY <1>3 DEF Fresh, Shape
  <2> HIDE DEF r
  <2>3. Set(t, r) /\ Goto(t, "agent")
    BY <1>5, <2>1 DEF r, BeginTurn
  <2> QED
    BY <1>2, <2>2, <2>3 DEF Before
<1>6. CASE BeginGrading(t)
  <2>1. PICK paper \in Papers, signal \in Graded, c \in Concepts :
          Set(t, [Fresh EXCEPT !.kind = "graded", !.at = clock + 1, !.paper = paper,
                    !.now = [NoSignal EXCEPT !.concept = c, !.signal = signal],
                    !.writing = TRUE])
    BY <1>6 DEF BeginGrading
  <2> DEFINE now == [NoSignal EXCEPT !.concept = c, !.signal = signal]
             r == [Fresh EXCEPT !.kind = "graded", !.at = clock + 1, !.paper = paper,
                                !.now = now, !.writing = TRUE]
  <2>2. now \in Signals
    BY <1>4, SignalsAssumption DEF SignalType, SOURCE_FOR_SIGNAL
  <2> HIDE DEF now
  <2>3. Shape(r) /\ r.own = {} /\ r.buffer = <<>> /\ r.kind = "graded"
    BY <1>3, <2>2 DEF Fresh, Shape
  <2> HIDE DEF r
  <2>4. Set(t, r) /\ Goto(t, "recall")
    BY <1>6, <2>1 DEF r, now, BeginGrading
  <2> QED
    BY <1>2, <2>3, <2>4 DEF Before
<1>7. CASE BeginCorrection(t)
  <2>1. PICK c \in Concepts, signal \in {"user_stated_known", "user_stated_unknown"} :
          Set(t, [Fresh EXCEPT !.kind = "correction", !.at = clock + 1,
                    !.now = [NoSignal EXCEPT !.concept = c, !.signal = signal],
                    !.writing = TRUE, !.copy = concepts[c],
                    !.saw = About(c, observations)])
    BY <1>7 DEF BeginCorrection
  <2> DEFINE now == [NoSignal EXCEPT !.concept = c, !.signal = signal]
             r == [Fresh EXCEPT !.kind = "correction", !.at = clock + 1,
                                !.now = now, !.writing = TRUE, !.copy = concepts[c],
                                !.saw = About(c, observations)]
  <2>2. now \in Signals
    BY <1>4 DEF SignalType, SOURCE_FOR_SIGNAL
  <2> HIDE DEF now
  <2>3. Shape(r) /\ r.own = {} /\ r.buffer = <<>> /\ r.kind = "correction"
    BY <1>3, <2>2 DEF Fresh, Shape
  <2> HIDE DEF r
  <2>4. Set(t, r) /\ Goto(t, "override")
    BY <1>7, <2>1 DEF r, now, BeginCorrection
  <2> QED
    BY <1>2, <2>3, <2>4 DEF Before
<1> QED
  BY <1>5, <1>6, <1>7

-----------------------------------------------------------------------------
(* Steps that touch nothing the invariant is about. *)

Kept(r, q) ==
  /\ r.kind = q.kind /\ r.seen = q.seen /\ r.attempt = q.attempt
  /\ r.now = q.now /\ r.buffer = q.buffer /\ r.own = q.own

LEMMA KeptInv ==
  ASSUME IInv, NEW t \in Writers, NEW l, NEW r, Set(t, r), Goto(t, l),
         UNCHANGED observations, pc[t] # "done", l # "done",
         Shape(r), Kept(r, w[t]), ProgressOK(l, w[t]), AttemptOK(l, w[t])
  PROVE  IInv'
<1>1. LocalOK(t, l, r)
  BY DEF IInv, LocalOK, ProgressOK, AttemptOK, ResolutionOK, Kept
<1> QED
  BY <1>1, SetInv

(* A writer whose record or place stays the same. *)
LEMMA Unmoved ==
  ASSUME IInv, NEW t \in Writers
  PROVE  (w' = w => Set(t, w[t])) /\ (pc' = pc => Goto(t, pc[t]))
  BY DEF IInv, Set, Goto

LEMMA OverrideInv == ASSUME IInv, NEW t \in Writers, Override(t) PROVE IInv'
<1> DEFINE c == w[t].now.concept
           r == [w[t] EXCEPT !.copy.override = w[t].now.signal,
                   !.rows[c] = [concepts[c] EXCEPT !.override = w[t].now.signal]]
<1>1. /\ pc[t] = "override" /\ UNCHANGED observations /\ Goto(t, "pair")
      /\ Set(t, r) \/ Set(t, w[t])
  BY Unmoved DEF Override
<1>2. LocalOK(t, "override", w[t])
  BY <1>1 DEF IInv
<1>3. ProgressOK("pair", w[t]) /\ AttemptOK("pair", w[t])
  BY <1>2 DEF LocalOK, ProgressOK, AttemptOK, Before
<1>4. Shape(r) /\ Kept(r, w[t]) /\ Shape(w[t]) /\ Kept(w[t], w[t])
  BY <1>2 DEF LocalOK, Shape, Kept
<1> HIDE DEF r
<1> QED
  BY <1>1, <1>3, <1>4, KeptInv

LEMMA RecallInv == ASSUME IInv, NEW t \in Writers, Recall(t) PROVE IInv'
<1> DEFINE r == [w[t] EXCEPT !.copy = Row(t, w[t].now.concept)]
<1>1. /\ pc[t] = "recall" /\ UNCHANGED observations
      /\ Goto(t, "create") \/ Goto(t, "pair") \/ Goto(t, "grow")
      /\ Set(t, r) \/ Set(t, w[t])
  BY Unmoved DEF Recall
<1>2. LocalOK(t, "recall", w[t])
  BY <1>1 DEF IInv
<1>3. \A l \in {"create", "pair", "grow"} : ProgressOK(l, w[t]) /\ AttemptOK(l, w[t])
  BY <1>2 DEF LocalOK, ProgressOK, AttemptOK, Before
<1>4. Shape(r) /\ Kept(r, w[t]) /\ Shape(w[t]) /\ Kept(w[t], w[t])
  BY <1>2 DEF LocalOK, Shape, Kept
<1> HIDE DEF r
<1> QED
  BY <1>1, <1>3, <1>4, KeptInv

LEMMA GrowInv == ASSUME IInv, NEW t \in Writers, Grow(t) PROVE IInv'
<1> DEFINE c == w[t].now.concept
           r == [w[t] EXCEPT !.copy = Fresh.copy, !.rows[c] =
                   [Row(t, c) EXCEPT !.sources = w[t].copy.sources \cup {w[t].paper}]]
<1>1. pc[t] = "grow" /\ UNCHANGED observations /\ Goto(t, "pair") /\ Set(t, r)
  BY DEF Grow
<1>2. LocalOK(t, "grow", w[t])
  BY <1>1 DEF IInv
<1>3. ProgressOK("pair", w[t]) /\ AttemptOK("pair", w[t])
  BY <1>2 DEF LocalOK, ProgressOK, AttemptOK, Before
<1>4. Shape(r) /\ Kept(r, w[t])
  BY <1>2 DEF LocalOK, Shape, Kept
<1> HIDE DEF r
<1> QED
  BY <1>1, <1>3, <1>4, KeptInv

LEMMA CreateConceptInv == ASSUME IInv, NEW t \in Writers, CreateConcept(t) PROVE IInv'
<1> DEFINE c == w[t].now.concept
           r == [w[t] EXCEPT !.rows[c] = NewConcept({w[t].paper})]
<1>1. pc[t] = "create" /\ UNCHANGED observations /\ Goto(t, "pair") /\ Set(t, r)
  BY DEF CreateConcept
<1>2. LocalOK(t, "create", w[t])
  BY <1>1 DEF IInv
<1>3. ProgressOK("pair", w[t]) /\ AttemptOK("pair", w[t])
  BY <1>2 DEF LocalOK, ProgressOK, AttemptOK, Before
<1>4. Shape(r) /\ Kept(r, w[t])
  BY <1>2 DEF LocalOK, Shape, Kept
<1> HIDE DEF r
<1> QED
  BY <1>1, <1>3, <1>4, KeptInv

LEMMA LoadConceptInv == ASSUME IInv, NEW t \in Writers, LoadConcept(t) PROVE IInv'
<1> DEFINE r == [w[t] EXCEPT !.copy = Row(t, w[t].now.concept)]
<1>1. pc[t] = "load" /\ UNCHANGED observations /\ Goto(t, "update") /\ Set(t, r)
  BY DEF LoadConcept
<1>2. LocalOK(t, "load", w[t])
  BY <1>1 DEF IInv
<1>3. ProgressOK("update", w[t]) /\ AttemptOK("update", w[t])
  BY <1>2 DEF LocalOK, ProgressOK, AttemptOK, Before
<1>4. Shape(r) /\ Kept(r, w[t])
  BY <1>2 DEF LocalOK, Shape, Kept
<1> HIDE DEF r
<1> QED
  BY <1>1, <1>3, <1>4, KeptInv

LEMMA UpdateConceptInv == ASSUME IInv, NEW t \in Writers, UpdateConcept(t) PROVE IInv'
<1> DEFINE c == w[t].now.concept
           clean == [w[t] EXCEPT !.copy = CopyAfter(t), !.derived = Unknown]
           dirty == [w[t] EXCEPT !.copy = CopyAfter(t), !.derived = Unknown,
                                 !.rows[c] = Flushed(t)]
           l == AfterUpdate(t)
<1>1. /\ pc[t] = "update" /\ UNCHANGED observations /\ Goto(t, l)
      /\ Set(t, clean) \/ Set(t, dirty)
  BY DEF UpdateConcept
<1>2. LocalOK(t, "update", w[t])
  BY <1>1 DEF IInv
<1>3. /\ l \in {"write", "recompute", "ready"}
      /\ l = "write" => w[t].buffer # <<>>
  BY DEF AfterUpdate
<1> HIDE DEF l
<1>4. ProgressOK(l, w[t]) /\ AttemptOK(l, w[t])
  BY <1>2, <1>3 DEF LocalOK, ProgressOK, AttemptOK, Before
<1>5. Shape(clean) /\ Kept(clean, w[t]) /\ Shape(dirty) /\ Kept(dirty, w[t])
  BY <1>2 DEF LocalOK, Shape, Kept
<1> HIDE DEF clean, dirty
<1> QED
  BY <1>1, <1>3, <1>4, <1>5, KeptInv

LEMMA RecomputeInv == ASSUME IInv, NEW t \in Writers, Recompute(t) PROVE IInv'
<1>1. PICK d : Set(t, [w[t] EXCEPT !.derived = d, !.again = TRUE])
  BY DEF Recompute
<1> DEFINE r == [w[t] EXCEPT !.derived = d, !.again = TRUE]
<1>2. pc[t] = "recompute" /\ UNCHANGED observations /\ Goto(t, "update") /\ Set(t, r)
  BY <1>1 DEF Recompute
<1>3. LocalOK(t, "recompute", w[t])
  BY <1>2 DEF IInv
<1>4. ProgressOK("update", w[t]) /\ AttemptOK("update", w[t])
  BY <1>3 DEF LocalOK, ProgressOK, AttemptOK, Before
<1>5. Shape(r) /\ Kept(r, w[t])
  BY <1>3 DEF LocalOK, Shape, Kept
<1> HIDE DEF r
<1> QED
  BY <1>2, <1>4, <1>5, KeptInv

-----------------------------------------------------------------------------
(* What the agent notices, and the pairing of a resolution. *)

LEMMA NoticeInv == ASSUME IInv, NEW t \in Writers, Notice(t) PROVE IInv'
<1>1. PICK c \in Concepts, signal \in Noticed, style \in Styles :
        Set(t, [w[t] EXCEPT !.now = [NoSignal EXCEPT !.concept = c, !.signal = signal,
                              !.style = style, !.attempt = w[t].attempt]])
  BY DEF Notice
<1> DEFINE now == [NoSignal EXCEPT !.concept = c, !.signal = signal,
                                   !.style = style, !.attempt = w[t].attempt]
           r == [w[t] EXCEPT !.now = now]
<1>2. pc[t] = "agent" /\ UNCHANGED observations /\ Goto(t, "recall") /\ Set(t, r)
  BY <1>1 DEF Notice
<1>3. LocalOK(t, "agent", w[t])
  BY <1>2 DEF IInv
<1>4. now \in Signals /\ now.attempt = w[t].attempt
  <2>1. w[t].attempt \in 0..MAX_TRANSIENT_ATTEMPTS
    BY <1>3 DEF LocalOK, Shape, MAX_TRANSIENT_ATTEMPTS
  <2> QED
    BY <2>1, NoSignalTyped, SignalsAssumption DEF Signals
<1> HIDE DEF now
<1>5. /\ Shape(r) /\ r.kind = w[t].kind /\ r.seen = w[t].seen /\ r.attempt = w[t].attempt
      /\ r.now = now /\ r.buffer = w[t].buffer /\ r.own = w[t].own
  BY <1>3, <1>4 DEF LocalOK, Shape
<1> HIDE DEF r
<1>6. LocalOK(t, "recall", r)
  BY <1>3, <1>4, <1>5 DEF LocalOK, ProgressOK, AttemptOK, ResolutionOK, Before
<1> QED
  BY <1>2, <1>6, SetInv

(* Nothing of the writer's own is visible when a resolution is paired. *)
LEMMA OpenIsCommitted ==
  ASSUME IInv, NEW t \in Writers, pc[t] = "pair", NEW c
  PROVE  \A o \in OpenStruggles(t, c) : o \in observations /\ Resolvable(Id(o), c)
<1>1. w[t].own = {}
  BY DEF IInv, LocalOK, ProgressOK, Before
<1>2. Visible(t) = observations
  BY <1>1 DEF Visible
<1>3. ASSUME NEW o \in OpenStruggles(t, c)
      PROVE  o \in observations /\ o.concept = c /\ o.signal \in StruggleSignals
  BY <1>2 DEF OpenStruggles, About
<1> QED
  BY <1>3 DEF Resolvable

LEMMA PairInv == ASSUME IInv, NEW t \in Writers, Pair(t) PROVE IInv'
<1> DEFINE signal == w[t].now
           open == OpenStruggles(t, signal.concept)
           l == IF w[t].writing THEN "write" ELSE "agent"
<1>1. pc[t] = "pair" /\ UNCHANGED observations /\ Goto(t, l)
  BY DEF Pair
<1>2. PICK resolves \in {None} \cup {Id(o) : o \in open} :
        Set(t, [w[t] EXCEPT !.buffer = Append(@, [signal EXCEPT !.resolves = resolves]),
                            !.now = NoSignal])
  BY DEF Pair
<1>3. LocalOK(t, "pair", w[t])
  BY <1>1 DEF IInv
<1>4. /\ resolves \in {None} \cup {Id(p) : p \in observations}
      /\ resolves # None => Resolvable(resolves, signal.concept)
  BY <1>1, <1>2, OpenIsCommitted
<1> DEFINE done == [signal EXCEPT !.resolves = resolves]
           buffer == Append(w[t].buffer, done)
           r == [w[t] EXCEPT !.buffer = buffer, !.now = NoSignal]
<1>5. signal \in Signals /\ w[t].buffer \in Seq(Signals)
  BY <1>3 DEF LocalOK, Shape
<1>6. /\ done \in Signals /\ done.attempt = signal.attempt
      /\ done.concept = signal.concept /\ done.resolves = resolves
  BY <1>4, <1>5 DEF Signals
<1>7. Set(t, r)
  BY <1>2, <1>3 DEF LocalOK, Shape
<1> HIDE DEF done, open, l, signal
<1>8. /\ buffer \in Seq(Signals) /\ buffer # <<>>
      /\ \A i \in DOMAIN buffer : buffer[i] = done \/ \E j \in DOMAIN w[t].buffer :
                                                     buffer[i] = w[t].buffer[j]
  BY <1>5, <1>6
<1> HIDE DEF buffer
<1>9. /\ Shape(r) /\ r.kind = w[t].kind /\ r.seen = w[t].seen /\ r.attempt = w[t].attempt
      /\ r.buffer = buffer /\ r.own = w[t].own
  BY <1>3, <1>8, NoSignalTyped DEF LocalOK, Shape
<1> HIDE DEF r
<1>10. l \in {"write", "agent"}
  BY DEF l
<1>11. ProgressOK(l, r)
  BY <1>3, <1>8, <1>9, <1>10 DEF LocalOK, ProgressOK, Before
<1>12. AttemptOK(l, r)
  BY <1>3, <1>6, <1>8, <1>9, <1>10 DEF LocalOK, AttemptOK, signal
<1>13. ResolutionOK(t, r)
  BY <1>3, <1>4, <1>6, <1>8, <1>9 DEF LocalOK, ResolutionOK
<1>14. LocalOK(t, l, r)
  BY <1>9, <1>11, <1>12, <1>13 DEF LocalOK
<1> QED
  BY <1>1, <1>7, <1>10, <1>14, SetInv

LEMMA RetryInv == ASSUME IInv, NEW t \in Writers, Retry(t) PROVE IInv'
<1> DEFINE r == [w[t] EXCEPT !.attempt = @ + 1, !.buffer = <<>>]
<1>1. /\ pc[t] = "agent" /\ UNCHANGED observations /\ Goto(t, "agent") /\ Set(t, r)
      /\ w[t].attempt < MAX_TRANSIENT_ATTEMPTS
  BY Unmoved DEF Retry
<1>2. LocalOK(t, "agent", w[t])
  BY <1>1 DEF IInv
<1>3. w[t].attempt + 1 \in 1..MAX_TRANSIENT_ATTEMPTS /\ <<>> \in Seq(Signals)
  BY <1>1, <1>2 DEF LocalOK, Shape, MAX_TRANSIENT_ATTEMPTS
<1>4. /\ Shape(r) /\ r.kind = w[t].kind /\ r.seen = w[t].seen
      /\ r.buffer = <<>> /\ r.own = w[t].own
  BY <1>2, <1>3 DEF LocalOK, Shape
<1> HIDE DEF r
<1>5. LocalOK(t, "agent", r)
  BY <1>2, <1>4 DEF LocalOK, ProgressOK, AttemptOK, ResolutionOK, Before
<1> QED
  BY <1>1, <1>5, SetInv

LEMMA PersistInv == ASSUME IInv, NEW t \in Writers, Persist(t) PROVE IInv'
<1> DEFINE now == [NoSignal EXCEPT !.concept = w[t].seen, !.attempt = w[t].attempt]
           r == [w[t] EXCEPT !.writing = TRUE, !.now = now]
<1>1. pc[t] = "agent" /\ UNCHANGED observations
  BY DEF Persist
<1>2. LocalOK(t, "agent", w[t])
  BY <1>1 DEF IInv
<1>3. CASE w[t].buffer # <<>> /\ Goto(t, "write") /\ UNCHANGED w
  <2>1. ProgressOK("write", w[t]) /\ AttemptOK("write", w[t]) /\ Shape(w[t])
    BY <1>2, <1>3 DEF LocalOK, ProgressOK, AttemptOK, Before
  <2> QED
    BY <1>1, <1>3, <2>1, Unmoved, KeptInv DEF Kept
<1>4. CASE w[t].seen = None /\ Goto(t, "ready") /\ UNCHANGED w
  <2>1. ProgressOK("ready", w[t]) /\ AttemptOK("ready", w[t]) /\ Shape(w[t])
    BY <1>2, <1>4 DEF LocalOK, ProgressOK, AttemptOK, Before
  <2> QED
    BY <1>1, <1>4, <2>1, Unmoved, KeptInv DEF Kept
<1>5. CASE Set(t, r) /\ Goto(t, "recall")
  <2>1. now \in Signals /\ now.attempt = w[t].attempt
    <3>1. /\ w[t].attempt \in 0..MAX_TRANSIENT_ATTEMPTS
          /\ w[t].seen \in Concepts \cup {None}
      BY <1>2 DEF LocalOK, Shape, MAX_TRANSIENT_ATTEMPTS
    <3> QED
      BY <3>1, NoSignalTyped DEF Signals
  <2> HIDE DEF now
  <2>2. /\ Shape(r) /\ r.kind = w[t].kind /\ r.seen = w[t].seen
        /\ r.attempt = w[t].attempt /\ r.now = now /\ r.buffer = w[t].buffer
        /\ r.own = w[t].own
    BY <1>2, <2>1 DEF LocalOK, Shape
  <2> HIDE DEF r
  <2>3. LocalOK(t, "recall", r)
    BY <1>2, <2>1, <2>2 DEF LocalOK, ProgressOK, AttemptOK, ResolutionOK, Before
  <2> QED
    BY <1>1, <1>5, <2>3, SetInv
<1> QED
  BY <1>3, <1>4, <1>5 DEF Persist

-----------------------------------------------------------------------------
(* Writing, committing, rolling back. *)

LEMMA WriteSignalInv == ASSUME IInv, NEW t \in Writers, WriteSignal(t) PROVE IInv'
<1> DEFINE signal == Head(w[t].buffer)
           row == [by |-> t, no |-> Cardinality(w[t].own) + 1, at |-> w[t].at,
                   concept |-> signal.concept, signal |-> signal.signal,
                   style |-> signal.style, resolves |-> signal.resolves,
                   attempt |-> signal.attempt]
           l == IF w[t].kind = "correction" THEN "update" ELSE "load"
           own == w[t].own \cup {row}
           buffer == Tail(w[t].buffer)
<1>1. PICK d, saw : Set(t, [w[t] EXCEPT !.own = @ \cup {row}, !.now = signal,
                              !.buffer = Tail(@), !.derived = d, !.saw = saw])
  BY DEF WriteSignal
<1> DEFINE r == [w[t] EXCEPT !.own = own, !.now = signal, !.buffer = buffer,
                             !.derived = d, !.saw = saw]
<1>2. pc[t] = "write" /\ UNCHANGED observations /\ Goto(t, l)
  BY DEF WriteSignal
<1>3. LocalOK(t, "write", w[t])
  BY <1>2 DEF IInv
<1>4. Set(t, r)
  BY <1>1, <1>3 DEF LocalOK, Shape
<1>5. /\ w[t].buffer \in Seq(Signals) /\ w[t].buffer # <<>>
  BY <1>3 DEF LocalOK, Shape, ProgressOK
<1>6. /\ signal \in Signals /\ 1 \in DOMAIN w[t].buffer /\ signal = w[t].buffer[1]
      /\ buffer \in Seq(Signals)
      /\ \A i \in DOMAIN buffer : i + 1 \in DOMAIN w[t].buffer
                                 /\ buffer[i] = w[t].buffer[i + 1]
  <2> HIDE DEF signal
  <2>1. DOMAIN w[t].buffer = 1..Len(w[t].buffer) /\ Len(w[t].buffer) \in Nat \ {0}
    BY <1>5
  <2>2. Head(w[t].buffer) = w[t].buffer[1] /\ w[t].buffer[1] \in Signals
    BY <1>5, <2>1
  <2>3. buffer \in Seq(Signals) /\ Len(buffer) = Len(w[t].buffer) - 1
    BY <1>5
  <2>4. \A i \in 1..(Len(w[t].buffer) - 1) : buffer[i] = w[t].buffer[i + 1]
    BY <1>5
  <2> QED
    BY <2>1, <2>2, <2>3, <2>4 DEF signal
<1>7. /\ row.by = t /\ row.resolves = signal.resolves /\ row.concept = signal.concept
      /\ row.attempt = signal.attempt
  OBVIOUS
<1>8. own # {} /\ \A o \in own : o \in w[t].own \/ o = row
  OBVIOUS
<1>9. l \in {"update", "load"}
  OBVIOUS
<1> HIDE DEF row, own, buffer, signal, l
<1>10. /\ Shape(r) /\ r.kind = w[t].kind /\ r.seen = w[t].seen /\ r.attempt = w[t].attempt
       /\ r.buffer = buffer /\ r.own = own
  BY <1>3, <1>6 DEF LocalOK, Shape
<1> HIDE DEF r
<1>11. ProgressOK(l, r)
  BY <1>8, <1>9, <1>10 DEF ProgressOK, Before
<1>12. AttemptOK(l, r)
  BY <1>3, <1>6, <1>7, <1>8, <1>9, <1>10 DEF LocalOK, AttemptOK
<1>13. ResolutionOK(t, r)
  BY <1>3, <1>6, <1>7, <1>8, <1>10 DEF LocalOK, ResolutionOK
<1>14. LocalOK(t, l, r)
  BY <1>10, <1>11, <1>12, <1>13 DEF LocalOK
<1> QED
  BY <1>2, <1>4, <1>9, <1>14, SetInv

LEMMA RollbackInv ==
  ASSUME IInv, NEW t \in Writers, pc[t] # "done", Rollback(t) PROVE IInv'
  BY FreshOK, SetInv DEF Rollback

(* The rows of a writer become committed, and it is done. *)
LEMMA CommitInv == ASSUME IInv, NEW t \in Writers, Commit(t) PROVE IInv'
<1> DEFINE r == [Fresh EXCEPT !.kind = w[t].kind, !.seen = w[t].seen,
                              !.attempt = w[t].attempt]
<1>1. /\ pc[t] = "ready" /\ observations' = observations \cup w[t].own
      /\ Set(t, r) /\ Goto(t, "done")
  BY DEF Commit
<1>2. LocalOK(t, "ready", w[t])
  BY <1>1 DEF IInv
<1>3. /\ Shape(r) /\ r.kind = w[t].kind /\ r.seen = w[t].seen /\ r.attempt = w[t].attempt
      /\ r.buffer = <<>> /\ r.own = {}
  <2>1. Shape(Fresh) /\ Fresh.buffer = <<>> /\ Fresh.own = {}
    BY FreshOK DEF Fresh, LocalOK
  <2> QED
    BY <1>2, <2>1 DEF Fresh, LocalOK, Shape
<1> HIDE DEF r
<1>4. /\ w' = [o \in Writers |-> IF o = t THEN r ELSE w[o]]
      /\ pc' = [o \in Writers |-> IF o = t THEN "done" ELSE pc[o]]
  BY <1>1 DEF Set, Goto, IInv
<1>5. /\ w'[t] = r /\ pc'[t] = "done"
      /\ \A o \in Writers \ {t} : w'[o] = w[o] /\ pc'[o] = pc[o]
  BY <1>4
<1>6. LocalOK(t, "done", r)
  BY <1>3 DEF LocalOK, ProgressOK, AttemptOK, ResolutionOK, Before
<1>7. \A resolves, concept : Resolvable(resolves, concept) => Resolvable(resolves, concept)'
  BY <1>1 DEF Resolvable
<1>8. Signals \subseteq Signals'
  <2>1. {None} \cup {Id(p) : p \in observations}
          \subseteq {None} \cup {Id(p) : p \in observations'}
    BY <1>1
  <2> QED
    BY <2>1 DEF Signals
<1>9. ASSUME NEW o \in Writers
      PROVE  LocalOK(o, pc[o], w[o])'
  <2>1. LocalOK(o, pc'[o], w'[o])
    BY <1>5, <1>6 DEF IInv
  <2>2. Shape(w[o])'
    <3>1. Shape(w'[o])
      BY <2>1 DEF LocalOK
    <3>2. Seq(Signals) \subseteq Seq(Signals')
      BY <1>8
    <3> QED
      BY <1>8, <3>1, <3>2 DEF Shape
  <2>3. ResolutionOK(o, w[o])'
    BY <1>7, <2>1 DEF LocalOK, ResolutionOK
  <2> QED
    BY <2>1, <2>2, <2>3 DEF LocalOK, ProgressOK, AttemptOK
<1>10. ASSUME NEW o \in observations
       PROVE  CommittedOK(o)'
  <2>1. CommittedOK(o) /\ o.by # t
    BY <1>1 DEF IInv, CommittedOK
  <2> QED
    BY <1>1, <1>5, <2>1 DEF CommittedOK
<1>11. ASSUME NEW o \in w[t].own
       PROVE  CommittedOK(o)'
  <2>1. o.by = t /\ (o.resolves # None => Resolvable(o.resolves, o.concept))
    BY <1>2 DEF LocalOK, ResolutionOK
  <2>2. w[t].kind = "agent" => o.attempt = w[t].attempt
    BY <1>2 DEF LocalOK, AttemptOK
  <2>3. \A p \in observations : p.by # t
    BY <1>1 DEF IInv, CommittedOK
  <2> QED
    BY <1>1, <1>3, <1>5, <2>1, <2>2, <2>3 DEF CommittedOK, Resolvable
<1>12. MemoryAccumulates'
  <2>1. ASSUME w[t].kind = "agent", w[t].seen # None
        PROVE  \E o \in observations' : o.by = t
    BY <1>1, <1>2, <2>1 DEF LocalOK, ProgressOK, ResolutionOK
  <2> QED
    BY <1>1, <1>3, <1>5, <2>1 DEF IInv, MemoryAccumulates, Writers
<1> QED
  BY <1>1, <1>4, <1>9, <1>10, <1>11, <1>12 DEF IInv

LEMMA NextInv == IInv /\ [Next]_vars => IInv'
<1> SUFFICES ASSUME IInv, [Next]_vars
             PROVE  IInv'
  OBVIOUS
<1>1. ASSUME NEW t \in Writers, Fail(t) \/ NameConflict(t) \/ DeadlockDetected(t)
      PROVE  IInv'
  <2>1. Rollback(t) /\ pc[t] # "done"
    BY <1>1 DEF Fail, NameConflict, DeadlockDetected, InCircle, Waits, WaitsFor, Ended
  <2> QED
    BY <2>1, RollbackInv
<1>2. ASSUME NEW t \in Writers, ServerStep(t)
      PROVE  IInv'
  BY <1>1, <1>2, OverrideInv, RecallInv, GrowInv, CreateConceptInv, PairInv, PersistInv,
     WriteSignalInv, LoadConceptInv, UpdateConceptInv, RecomputeInv, CommitInv
     DEF ServerStep, Prepare, Write
<1>3. ASSUME NEW t \in Writers, Step(t)
      PROVE  IInv'
  BY <1>1, <1>2, <1>3, BeginInv, NoticeInv, RetryInv DEF Step
<1>4. CASE UNCHANGED vars
  <2>1. w' = w /\ pc' = pc /\ observations' = observations
    BY <1>4 DEF vars
  <2>2. ASSUME NEW t \in Writers
        PROVE  LocalOK(t, pc[t], w[t])'
    <3>1. LocalOK(t, pc'[t], w'[t])
      BY <2>1 DEF IInv
    <3>2. Shape(w[t])'
      BY <2>1, <3>1 DEF LocalOK, Shape, Signals
    <3>3. ResolutionOK(t, w[t])'
      BY <2>1, <3>1 DEF LocalOK, ResolutionOK, Resolvable
    <3> QED
      BY <3>1, <3>2, <3>3 DEF LocalOK, ProgressOK, AttemptOK
  <2>3. \A o \in observations : CommittedOK(o)'
    BY <2>1 DEF IInv, CommittedOK
  <2>4. MemoryAccumulates'
    BY <2>1 DEF IInv, MemoryAccumulates
  <2> QED
    BY <2>1, <2>2, <2>3, <2>4 DEF IInv
<1> QED
  BY <1>3, <1>4 DEF Next

LEMMA AlwaysInv == Spec => []IInv
  BY InitInv, NextInv, PTL DEF Spec

(* The observations that are left: none of a failed attempt, some of every   *)
(* turn about a known concept, and resolutions only of struggles with that   *)
(* concept which an earlier transaction committed; for any number of turns   *)
(* and corrections at once, and any signals the model reports.               *)
THEOREM EvidenceSound == Spec => []EvidenceIsSound
<1>1. IInv => EvidenceIsSound
  BY DEF IInv, CommittedOK, EvidenceIsSound, EvidenceOfTheAnswer, ResolutionsFollowStruggles
<1> QED
  BY <1>1, AlwaysInv, PTL

-----------------------------------------------------------------------------
(* Sums over finite sets. *)

(* A non-empty set of naturals has its least element. *)
LEMMA LeastExists ==
  ASSUME NEW N \in SUBSET Nat, N # {}
  PROVE  \E m \in N : \A k \in N : m <= k
<1> DEFINE R == OpToRel(<, Nat)
<1>1. \A x, y \in Nat : x < y => <<x, y>> \in R
  BY DEF OpToRel
<1>2. IsWellFoundedOn(R, Nat)
  BY NatLessThanWellFounded
<1>3. PICK m \in N : \A k \in N : ~ (<<k, m>> \in R)
  <2> HIDE DEF R
  <2> QED
    BY <1>2, WFMin
<1>4. \A k \in N : m <= k
  <2> HIDE DEF R
  <2> TAKE k \in N
  <2>1. ~ (k < m)
    BY <1>1, <1>3
  <2> QED
    BY <2>1
<1> QED
  BY <1>4

(* The element a sum over a set takes first, and those it leaves. *)
Any(s) == CHOOSE x \in s : TRUE
Rest(s) == s \ {Any(s)}

LEMMA RestSmaller ==
  ASSUME NEW s, IsFiniteSet(s), s # {}
  PROVE  /\ Any(s) \in s /\ Rest(s) \subseteq s /\ IsFiniteSet(Rest(s))
         /\ Cardinality(Rest(s)) = Cardinality(s) - 1 /\ Cardinality(s) \in Nat \ {0}
<1>1. Any(s) \in s
  BY DEF Any
<1>2. Cardinality(s) \in Nat /\ Cardinality(s) # 0
  BY FS_CardinalityType, FS_EmptySet
<1> QED
  BY <1>1, <1>2, FS_RemoveElement DEF Rest

(* The recursion that MapThenSumSet unfolds to. *)
Plus(f, g, s) == IF s = {} THEN 0 ELSE f[Any(s)] + g[Rest(s)]
SumOver(f, S, g) == g = [s \in SUBSET S |-> Plus(f, g, s)]
SumOf(f, S) == (CHOOSE g : SumOver(f, S, g))[S]

(* The recursion has a solution on the subsets of a finite set. *)
LEMMA SumExists ==
  ASSUME NEW S, IsFiniteSet(S), NEW D, S \subseteq D, NEW f \in [D -> Nat]
  PROVE  \E g : SumOver(f, S, g)
<1> DEFINE UpTo(n, g) == \A s \in SUBSET S : Cardinality(s) <= n => g[s] = Plus(f, g, s)
           Bad == {n \in Nat : ~ \E g \in [SUBSET S -> Nat] : UpTo(n, g)}
<1>1. \A s \in SUBSET S :
        IsFiniteSet(s) /\ Cardinality(s) \in Nat /\ Cardinality(s) <= Cardinality(S)
  BY FS_Subset, FS_CardinalityType
<1>2. \A s \in SUBSET S : s # {} => /\ Rest(s) \in SUBSET S /\ Any(s) \in D
                                   /\ Cardinality(Rest(s)) = Cardinality(s) - 1
  BY <1>1, RestSmaller
<1>3. \A s \in SUBSET S : Cardinality(s) = 0 => s = {}
  BY <1>1, FS_EmptySet
<1>4. ASSUME NEW m \in Bad, \A k \in Bad : m <= k PROVE FALSE
  <2>1. CASE m = 0
    <3> DEFINE g == [s \in SUBSET S |-> 0]
    <3>1. UpTo(m, g)
      BY <1>1, <1>3, <2>1 DEF Plus
    <3>2. g \in [SUBSET S -> Nat]
      OBVIOUS
    <3> QED
      BY <3>1, <3>2
  <2>2. CASE m # 0
    <3>0. m \in Nat
      OBVIOUS
    <3>1. m - 1 \in Nat /\ m - 1 \notin Bad
      <4> HIDE DEF Bad
      <4> QED
        BY <1>4, <2>2, <3>0
    <3>2. PICK g \in [SUBSET S -> Nat] : UpTo(m - 1, g)
      BY <3>1
    <3> DEFINE h == [s \in SUBSET S |-> Plus(f, g, s)]
    <3>3. h \in [SUBSET S -> Nat]
      BY <1>2 DEF Plus
    <3>4. \A s \in SUBSET S : s # {} /\ Cardinality(s) <= m => h[Rest(s)] = g[Rest(s)]
      <4> SUFFICES ASSUME NEW s \in SUBSET S, s # {}, Cardinality(s) <= m
                   PROVE  h[Rest(s)] = g[Rest(s)]
        OBVIOUS
      <4>1. Rest(s) \in SUBSET S /\ Cardinality(Rest(s)) <= m - 1
        BY <1>1, <1>2
      <4>2. g[Rest(s)] = Plus(f, g, Rest(s))
        BY <3>2, <4>1
      <4> QED
        BY <4>1, <4>2
    <3>5. UpTo(m, h)
      BY <3>4 DEF Plus
    <3> QED
      BY <3>3, <3>5
  <2> QED
    BY <2>1, <2>2
<1>5. Bad = {}
  <2> HIDE DEF Bad
  <2>1. Bad \in SUBSET Nat
    BY DEF Bad
  <2> QED
    BY <1>4, <2>1, LeastExists
<1>6. PICK g \in [SUBSET S -> Nat] : UpTo(Cardinality(S), g)
  BY <1>1, <1>5
<1>7. g = [s \in SUBSET S |-> Plus(f, g, s)]
  BY <1>1, <1>6
<1> QED
  BY <1>7 DEF SumOver

(* Two sums agree where both are defined. *)
LEMMA SumUnique ==
  ASSUME NEW S, NEW T, IsFiniteSet(S), T \subseteq S,
         NEW f, NEW g, NEW h, SumOver(f, S, g), SumOver(f, T, h)
  PROVE  g[T] = h[T]
<1> DEFINE Bad == {n \in Nat : \E s \in SUBSET T : Cardinality(s) = n /\ g[s] # h[s]}
<1>1. \A s \in SUBSET T : /\ s \in SUBSET S /\ IsFiniteSet(s) /\ Cardinality(s) \in Nat
                          /\ s # {} => /\ Rest(s) \in SUBSET T
                                       /\ Cardinality(Rest(s)) = Cardinality(s) - 1
  BY FS_Subset, FS_CardinalityType, RestSmaller
<1>2. \A s \in SUBSET T : g[s] = Plus(f, g, s) /\ h[s] = Plus(f, h, s)
  BY <1>1 DEF SumOver
<1>3. ASSUME NEW m \in Bad, \A k \in Bad : m <= k PROVE FALSE
  <2>1. PICK s \in SUBSET T : Cardinality(s) = m /\ g[s] # h[s]
    OBVIOUS
  <2>2. s # {} /\ g[Rest(s)] # h[Rest(s)]
    BY <1>2, <2>1 DEF Plus
  <2>3. m - 1 \in Nat /\ m - 1 \in Bad
    <3>1. /\ Cardinality(Rest(s)) = m - 1 /\ Cardinality(Rest(s)) \in Nat
          /\ Rest(s) \in SUBSET T
      BY <1>1, <2>1, <2>2
    <3> QED
      BY <2>2, <3>1
  <2> QED
    BY <1>3, <2>3
<1>4. Bad = {}
  <2> HIDE DEF Bad
  <2>1. Bad \in SUBSET Nat
    BY DEF Bad
  <2> QED
    BY <1>3, <2>1, LeastExists
<1> QED
  BY <1>1, <1>4

(* The sum over a set, by any one element of it and the sum over the others. *)
LEMMA SumStep ==
  ASSUME NEW S, IsFiniteSet(S), NEW D, S \subseteq D, NEW f \in [D -> Nat]
  PROVE  SumOf(f, S) = IF S = {} THEN 0 ELSE f[Any(S)] + SumOf(f, Rest(S))
<1> DEFINE g == CHOOSE g : SumOver(f, S, g)
<1>1. SumOver(f, S, g)
  BY SumExists
<1>2. g[S] = Plus(f, g, S)
  <2> HIDE DEF g
  <2> QED
    BY <1>1 DEF SumOver
<1>3. SumOf(f, S) = g[S]
  BY DEF SumOf
<1>4. CASE S # {}
  <2> DEFINE h == CHOOSE h : SumOver(f, Rest(S), h)
  <2>1. IsFiniteSet(Rest(S)) /\ Rest(S) \subseteq S
    BY <1>4, RestSmaller
  <2>2. SumOver(f, Rest(S), h)
    BY <2>1, SumExists
  <2>3. SumOf(f, Rest(S)) = h[Rest(S)]
    BY DEF SumOf
  <2> HIDE DEF g, h
  <2>4. g[Rest(S)] = h[Rest(S)]
    BY <1>1, <2>1, <2>2, SumUnique
  <2> QED
    BY <1>2, <1>3, <1>4, <2>3, <2>4 DEF Plus
<1> QED
  BY <1>2, <1>3, <1>4 DEF Plus

(* A sum of naturals is one. *)
LEMMA SumNat ==
  ASSUME NEW S, IsFiniteSet(S), NEW D, S \subseteq D, NEW f \in [D -> Nat]
  PROVE  SumOf(f, S) \in Nat
<1> DEFINE Bad == {n \in Nat : \E s \in SUBSET S :
                     Cardinality(s) = n /\ SumOf(f, s) \notin Nat}
<1>1. ASSUME NEW m \in Bad, \A k \in Bad : m <= k PROVE FALSE
  <2>1. PICK s \in SUBSET S : Cardinality(s) = m /\ SumOf(f, s) \notin Nat
    OBVIOUS
  <2>2. IsFiniteSet(s) /\ s \subseteq D
    BY FS_Subset
  <2>3. SumOf(f, s) = IF s = {} THEN 0 ELSE f[Any(s)] + SumOf(f, Rest(s))
    BY <2>2, SumStep
  <2>4. s # {}
    BY <2>1, <2>3
  <2>5. /\ f[Any(s)] \in Nat /\ Rest(s) \in SUBSET S
        /\ Cardinality(Rest(s)) = m - 1 /\ m - 1 \in Nat
    BY <2>1, <2>2, <2>4, RestSmaller
  <2>6. SumOf(f, Rest(s)) \notin Nat
    BY <2>1, <2>3, <2>4, <2>5
  <2>7. m - 1 \in Bad
    BY <2>5, <2>6
  <2> QED
    BY <1>1, <2>5, <2>7
<1>2. Bad = {}
  <2> HIDE DEF Bad
  <2>1. Bad \in SUBSET Nat
    BY DEF Bad
  <2> QED
    BY <1>1, <2>1, LeastExists
<1> QED
  BY <1>2, FS_CardinalityType

(* Whatever element is taken out first. *)
LEMMA SumAdd ==
  ASSUME NEW D, NEW f \in [D -> Nat], NEW S \in SUBSET D, IsFiniteSet(S), NEW x \in S
  PROVE  SumOf(f, S) = f[x] + SumOf(f, S \ {x})
<1> DEFINE Bad == {n \in Nat : \E s \in SUBSET S : \E y \in s :
                     Cardinality(s) = n /\ SumOf(f, s) # f[y] + SumOf(f, s \ {y})}
<1>0. \A s \in SUBSET S : IsFiniteSet(s) /\ s \in SUBSET D /\ SumOf(f, s) \in Nat
  BY FS_Subset, SumNat
<1>1. ASSUME NEW m \in Bad, \A k \in Bad : m <= k PROVE FALSE
  <2>0. PICK s \in SUBSET S :
          \E y \in s : Cardinality(s) = m /\ SumOf(f, s) # f[y] + SumOf(f, s \ {y})
    OBVIOUS
  <2>1. PICK y \in s : Cardinality(s) = m /\ SumOf(f, s) # f[y] + SumOf(f, s \ {y})
    BY <2>0
  <2> DEFINE a == Any(s)
  <2>2. s # {} /\ IsFiniteSet(s) /\ s \subseteq D
    BY <1>0
  <2>3. SumOf(f, s) = f[a] + SumOf(f, s \ {a}) /\ a \in s
    BY <2>2, SumStep, RestSmaller DEF Rest
  <2> HIDE DEF a
  <2>4. a # y
    BY <2>1, <2>3
  <2>5. /\ Cardinality(s \ {a}) = m - 1 /\ Cardinality(s \ {y}) = m - 1 /\ m - 1 \in Nat
        /\ s \ {a} \in SUBSET S /\ s \ {y} \in SUBSET S
    <3>1. Cardinality(s \ {a}) = m - 1 /\ Cardinality(s \ {y}) = m - 1
      BY <2>1, <2>2, <2>3, FS_RemoveElement
    <3>2. IsFiniteSet(s \ {a})
      BY <2>2, FS_RemoveElement
    <3> QED
      BY <3>1, <3>2, FS_CardinalityType
  <2>6. m - 1 \notin Bad
    <3>1. m \in Nat
      OBVIOUS
    <3> HIDE DEF Bad
    <3> QED
      BY <1>1, <2>5, <3>1
  <2>7. /\ SumOf(f, s \ {a}) = f[y] + SumOf(f, (s \ {a}) \ {y})
        /\ SumOf(f, s \ {y}) = f[a] + SumOf(f, (s \ {y}) \ {a})
    BY <2>3, <2>4, <2>5, <2>6
  <2>8. (s \ {a}) \ {y} = (s \ {y}) \ {a} /\ (s \ {a}) \ {y} \in SUBSET S
    OBVIOUS
  <2>9. f[a] \in Nat /\ f[y] \in Nat /\ SumOf(f, (s \ {a}) \ {y}) \in Nat
    BY <1>0, <2>2, <2>3, <2>8
  <2> QED
    BY <2>1, <2>3, <2>7, <2>8, <2>9
<1>2. Bad = {}
  <2> HIDE DEF Bad
  <2>1. Bad \in SUBSET Nat
    BY DEF Bad
  <2> QED
    BY <1>1, <2>1, LeastExists
<1> QED
  BY <1>2, FS_CardinalityType

(* A sum grows with its set; what weighs nothing does not count. *)
LEMMA SumMonotone ==
  ASSUME NEW D, NEW f \in [D -> Nat], NEW S \in SUBSET D, NEW T \in SUBSET D,
         IsFiniteSet(S), IsFiniteSet(T), \A x \in S \ T : f[x] = 0
  PROVE  SumOf(f, S) <= SumOf(f, T)
<1> DEFINE Bad == {n \in Nat : \E s \in SUBSET S, t \in SUBSET T :
                     /\ Cardinality(s) = n /\ \A x \in s \ t : f[x] = 0
                     /\ ~ (SumOf(f, s) <= SumOf(f, t))}
<1>0. /\ \A s \in SUBSET S : IsFiniteSet(s) /\ s \in SUBSET D /\ SumOf(f, s) \in Nat
      /\ \A s \in SUBSET T : IsFiniteSet(s) /\ s \in SUBSET D /\ SumOf(f, s) \in Nat
  BY FS_Subset, SumNat
<1>1. ASSUME NEW m \in Bad, \A k \in Bad : m <= k PROVE FALSE
  <2>1. PICK s \in SUBSET S, t \in SUBSET T :
          /\ Cardinality(s) = m /\ \A x \in s \ t : f[x] = 0
          /\ ~ (SumOf(f, s) <= SumOf(f, t))
    OBVIOUS
  <2>2. s # {}
    <3>1. SumOf(f, {}) = 0
      BY FS_EmptySet, SumStep
    <3> QED
      BY <1>0, <2>1, <3>1
  <2>3. PICK a \in s : TRUE
    BY <2>2
  <2>4. /\ Cardinality(s \ {a}) = m - 1 /\ m - 1 \in Nat /\ s \ {a} \in SUBSET S
    <3>1. Cardinality(s \ {a}) = m - 1 /\ IsFiniteSet(s \ {a})
      BY <1>0, <2>1, <2>3, FS_RemoveElement
    <3> QED
      BY <3>1, FS_CardinalityType
  <2>5. m - 1 \notin Bad
    BY <1>1, <2>4
  <2>6. /\ SumOf(f, s) = f[a] + SumOf(f, s \ {a})
        /\ f[a] \in Nat /\ SumOf(f, s \ {a}) \in Nat
    BY <1>0, <2>3, <2>4, SumAdd
  <2>7. CASE a \in t
    <3>1. /\ SumOf(f, t) = f[a] + SumOf(f, t \ {a}) /\ SumOf(f, t \ {a}) \in Nat
          /\ t \ {a} \in SUBSET T
      BY <1>0, <2>7, SumAdd
    <3>2. \A x \in (s \ {a}) \ (t \ {a}) : f[x] = 0
      BY <2>1
    <3>3. SumOf(f, s \ {a}) <= SumOf(f, t \ {a})
      BY <2>4, <2>5, <3>1, <3>2
    <3> QED
      BY <2>1, <2>6, <3>1, <3>3
  <2>8. CASE a \notin t
    <3>1. f[a] = 0 /\ \A x \in (s \ {a}) \ t : f[x] = 0
      BY <2>1, <2>3, <2>8
    <3>2. SumOf(f, s \ {a}) <= SumOf(f, t)
      BY <2>4, <2>5, <3>1
    <3> QED
      BY <2>1, <2>6, <3>1, <3>2
  <2> QED
    BY <2>7, <2>8
<1>2. Bad = {}
  <2> HIDE DEF Bad
  <2>1. Bad \in SUBSET Nat
    BY DEF Bad
  <2> QED
    BY <1>1, <2>1, LeastExists
<1> QED
  BY <1>2, FS_CardinalityType

(* A finite set of naturals has its maximum in it. *)
LEMMA MaxIn ==
  ASSUME NEW S \in SUBSET Nat, IsFiniteSet(S), S # {}
  PROVE  Max(S) \in S
<1> DEFINE HasMax(s) == \E m \in s : \A x \in s : m >= x
           Bad == {n \in Nat : \E s \in SUBSET S : Cardinality(s) = n /\ s # {} /\ ~ HasMax(s)}
<1>1. ASSUME NEW m \in Bad, \A k \in Bad : m <= k
      PROVE  FALSE
  <2>1. PICK s \in SUBSET S : Cardinality(s) = m /\ s # {} /\ ~ HasMax(s)
    OBVIOUS
  <2>2. IsFiniteSet(s)
    BY FS_Subset
  <2>3. /\ Any(s) \in s /\ Rest(s) \in SUBSET S
        /\ Cardinality(Rest(s)) = m - 1 /\ m - 1 \in Nat
    <3>1. /\ Any(s) \in s /\ Rest(s) \subseteq s
          /\ Cardinality(Rest(s)) = Cardinality(s) - 1 /\ Cardinality(s) \in Nat \ {0}
      <4> HIDE DEF HasMax, Bad
      <4> QED
        BY <2>1, <2>2, RestSmaller
    <3>2. Rest(s) \in SUBSET S
      BY <3>1
    <3> HIDE DEF HasMax, Bad
    <3> QED
      BY <2>1, <3>1, <3>2
  <2>4. \A x \in s : x = Any(s) \/ x \in Rest(s)
    BY DEF Rest
  <2>5. Rest(s) \subseteq s
    BY DEF Rest
  <2>6. ~ HasMax(Rest(s))
    <3> SUFFICES ASSUME NEW a \in Rest(s), \A x \in Rest(s) : a >= x
                 PROVE  FALSE
      OBVIOUS
    <3>1. a \in Nat /\ Any(s) \in Nat /\ a \in s /\ Any(s) \in s
      BY <2>3, <2>5
    <3>2. CASE a >= Any(s)
      <4>1. \A x \in s : a >= x
        BY <2>4, <3>2
      <4> QED
        BY <2>1, <3>1, <4>1
    <3>3. CASE Any(s) >= a
      <4>1. \A x \in s : x \in Nat
        OBVIOUS
      <4>2. \A x \in s : Any(s) >= x
        BY <2>4, <3>1, <3>3, <4>1
      <4> QED
        BY <2>1, <3>1, <4>2
    <3> QED
      BY <3>1, <3>2, <3>3
  <2>7. Rest(s) # {}
    <3>1. Any(s) \in Nat
      BY <2>3
    <3>2. ASSUME Rest(s) = {} PROVE \A x \in s : Any(s) >= x
      BY <2>4, <3>1, <3>2
    <3> QED
      BY <2>1, <2>3, <3>2
  <2>8. m - 1 \in Bad
    BY <2>3, <2>6, <2>7
  <2>9. m \in Nat
    OBVIOUS
  <2> HIDE DEF Bad
  <2> QED
    BY <1>1, <2>3, <2>8, <2>9
<1>2. Bad = {}
  <2> HIDE DEF Bad
  <2>1. Bad \in SUBSET Nat
    BY DEF Bad
  <2> QED
    BY <1>1, <2>1, LeastExists
<1>3. HasMax(S)
  BY <1>2, FS_CardinalityType
<1> QED
  BY <1>3 DEF Max

-----------------------------------------------------------------------------
(* What is derived. *)

Weights == [o \in Observation |-> Weight(o.signal)]
Points == [o \in Observation |-> Weight(o.signal) * Target(o)]

LEMMA WeightsTyped == Weights \in [Observation -> Nat] /\ Points \in [Observation -> Nat]
<1>1. SignalType = {"explicit_confusion", "explicit_understanding", "implicit_confusion",
        "applied_correctly", "quiz_correct", "quiz_partial", "quiz_incorrect",
        "user_stated_known", "user_stated_unknown", "reinforcement"}
  BY DEF SignalType, SOURCE_FOR_SIGNAL
<1>2. \A s \in SignalType : Weight(s) \in Nat /\ SIGNAL_TARGETS[s] \in Nat
  BY <1>1 DEF Weight, SOURCE_WEIGHT, SOURCE_FOR_SIGNAL, SIGNAL_TARGETS
<1>3. \A o \in Observation : Weight(o.signal) \in Nat /\ Target(o) \in Nat
  BY <1>2 DEF Observation, Target, ASSISTED_UNDERSTANDING_TARGET
<1>4. \A o \in Observation : Weight(o.signal) * Target(o) \in Nat
  BY <1>3
<1> QED
  BY <1>3, <1>4 DEF Weights, Points

(* The totals of derive are sums over the observations. *)
LEMMA TotalsAreSums ==
  ASSUME NEW obs \in SUBSET Observation
  PROVE  TotalWeight(obs) = SumOf(Weights, obs) /\ WeightedTarget(obs) = SumOf(Points, obs)
<1>1. \A s \in SUBSET obs : s # {} => Any(s) \in Observation
  BY DEF Any
<1>2. /\ \A s \in SUBSET obs : s # {} => Weights[Any(s)] = Weight(Any(s).signal)
      /\ \A s \in SUBSET obs :
           s # {} => Points[Any(s)] = Weight(Any(s).signal) * Target(Any(s))
  BY <1>1 DEF Weights, Points
<1>3. \A g : SumOver(Weights, obs, g) <=> g = [s \in SUBSET obs |->
                 IF s = {} THEN 0 ELSE Weight(Any(s).signal) + g[Rest(s)]]
  <2> TAKE g
  <2>1. [s \in SUBSET obs |-> Plus(Weights, g, s)] = [s \in SUBSET obs |->
          IF s = {} THEN 0 ELSE Weight(Any(s).signal) + g[Rest(s)]]
    BY <1>2 DEF Plus
  <2> QED
    BY <2>1 DEF SumOver
<1>4. \A g : SumOver(Points, obs, g) <=> g = [s \in SUBSET obs |->
                 IF s = {} THEN 0
                 ELSE Weight(Any(s).signal) * Target(Any(s)) + g[Rest(s)]]
  <2> TAKE g
  <2>1. [s \in SUBSET obs |-> Plus(Points, g, s)] = [s \in SUBSET obs |->
          IF s = {} THEN 0 ELSE Weight(Any(s).signal) * Target(Any(s)) + g[Rest(s)]]
    BY <1>2 DEF Plus
  <2> QED
    BY <2>1 DEF SumOver
<1>5. TotalWeight(obs) = (CHOOSE g : g = [s \in SUBSET obs |->
        IF s = {} THEN 0 ELSE Weight(Any(s).signal) + g[Rest(s)]])[obs]
  BY DEF TotalWeight, MapThenSumSet, MapThenFoldSet, Any, Rest
<1>6. WeightedTarget(obs) = (CHOOSE g : g = [s \in SUBSET obs |->
        IF s = {} THEN 0 ELSE Weight(Any(s).signal) * Target(Any(s)) + g[Rest(s)]])[obs]
  BY DEF WeightedTarget, MapThenSumSet, MapThenFoldSet, Any, Rest
<1>7. (CHOOSE g : SumOver(Weights, obs, g)) = (CHOOSE g : g = [s \in SUBSET obs |->
        IF s = {} THEN 0 ELSE Weight(Any(s).signal) + g[Rest(s)]])
  BY <1>3
<1>8. (CHOOSE g : SumOver(Points, obs, g)) = (CHOOSE g : g = [s \in SUBSET obs |->
        IF s = {} THEN 0 ELSE Weight(Any(s).signal) * Target(Any(s)) + g[Rest(s)]])
  BY <1>4
<1> QED
  BY <1>5, <1>6, <1>7, <1>8 DEF SumOf

(* What is derived from finitely many observations is a view. *)
LEMMA DeriveTyped ==
  ASSUME NEW obs \in SUBSET Observation, IsFiniteSet(obs)
  PROVE  Derive(obs) \subseteq View
<1>1. TotalWeight(obs) \in Nat /\ WeightedTarget(obs) \in Nat
  BY TotalsAreSums, WeightsTyped, SumNat
<1>2. EffectiveStyles(obs) \subseteq Styles \cup {None}
  BY DEF EffectiveStyles, Taught, Observation
<1>3. Max({0} \cup {o.at : o \in obs}) \in Nat
  <2> DEFINE at == [o \in obs |-> o.at]
             times == {o.at : o \in obs}
  <2>1. at \in Surjection(obs, times)
    BY DEF Surjection
  <2>2. IsFiniteSet(times)
    BY <2>1, FS_Surjection
  <2>3. IsFiniteSet({0} \cup times)
    BY <2>2, FS_Union, FS_Singleton
  <2>4. {0} \cup times \in SUBSET Nat
    BY DEF Observation
  <2> HIDE DEF times
  <2>5. Max({0} \cup times) \in {0} \cup times
    BY <2>3, <2>4, MaxIn
  <2> QED
    BY <2>4, <2>5 DEF times
<1>4. Cardinality(obs) \in Nat
  BY FS_CardinalityType
<1> QED
  BY <1>1, <1>2, <1>3, <1>4 DEF Derive, View

(* Of nothing, nothing is known. *)
LEMMA DeriveNothing == Unknown \in Derive({})
<1>1. TotalWeight({}) = 0 /\ WeightedTarget({}) = 0
  BY TotalsAreSums, WeightsTyped, SumStep, FS_EmptySet
<1>2. None \in EffectiveStyles({})
  BY DEF EffectiveStyles, Taught
<1>3. Max({0} \cup {o.at : o \in {}}) = 0
  <2>1. {0} \cup {o.at : o \in {}} = {0}
    OBVIOUS
  <2>2. {0} \in SUBSET Nat /\ IsFiniteSet({0}) /\ {0} # {}
    BY FS_Singleton
  <2>3. Max({0}) \in {0}
    BY <2>2, MaxIn
  <2> QED
    BY <2>1, <2>3
<1>4. Cardinality({}) = 0
  BY FS_EmptySet
<1> QED
  BY <1>1, <1>2, <1>3, <1>4 DEF Derive, Unknown

(* Two views alike in a column. *)

LEMMA AlikeItself == ASSUME NEW a \in View PROVE Differing(a, a) = {}
  BY DEF Differing, SameScore, View, Column

LEMMA AlikeColumn ==
  ASSUME NEW a \in View, NEW b \in View, NEW d \in View, NEW col \in Column,
         a[col] = b[col], col \notin Differing(b, d)
  PROVE  col \notin Differing(a, d)
  BY DEF Differing, SameScore, View, Column

Score == [points : Nat, weight : Nat]

LEMMA Proportional ==
  ASSUME NEW a \in Score, NEW b \in Score, NEW d \in Score, b.weight # 0,
         a.points * b.weight = b.points * a.weight, b.points * d.weight = d.points * b.weight
  PROVE  a.points * d.weight = d.points * a.weight
<1> DEFINE ap == a.points  aw == a.weight
           bp == b.points  bw == b.weight
           dp == d.points  dw == d.weight
<1>1. ap \in Nat /\ bp \in Nat /\ dp \in Nat /\ aw \in Nat /\ bw \in Nat /\ dw \in Nat
  BY DEF Score
<1>2. bw # 0 /\ ap * bw = bp * aw /\ bp * dw = dp * bw
  OBVIOUS
<1> HIDE DEF ap, bp, dp, aw, bw, dw
<1>3. (ap * dw) * bw = (dp * aw) * bw
  BY <1>1, <1>2
<1>4. ap * dw = dp * aw
  BY <1>1, <1>2, <1>3
<1> QED
  BY <1>4 DEF ap, dw, dp, aw

LEMMA SameScoreTransitive ==
  ASSUME NEW a \in Score, NEW b \in Score, NEW d \in Score, SameScore(a, b), SameScore(b, d)
  PROVE  SameScore(a, d)
<1>1. CASE a.weight = 0 \/ b.weight = 0 \/ d.weight = 0
  BY <1>1 DEF SameScore, Score
<1>2. CASE a.weight # 0 /\ b.weight # 0 /\ d.weight # 0
  <2>1. a.points * b.weight = b.points * a.weight
    BY <1>2 DEF SameScore
  <2>2. b.points * d.weight = d.points * b.weight
    BY <1>2 DEF SameScore
  <2>3. a.points * d.weight = d.points * a.weight
    BY <1>2, <2>1, <2>2, Proportional
  <2> QED
    BY <1>2, <2>3 DEF SameScore
<1> QED
  BY <1>1, <1>2

LEMMA AlikeTransitive ==
  ASSUME NEW a \in View, NEW b \in View, NEW d \in View, NEW col \in Column,
         col \notin Differing(a, b), col \notin Differing(b, d)
  PROVE  col \notin Differing(a, d)
<1>1. CASE col # "score"
  BY <1>1 DEF Differing
<1>2. CASE col = "score"
  <2>1. a.score \in Score /\ b.score \in Score /\ d.score \in Score
    BY DEF View, Score
  <2>2. SameScore(a.score, b.score) /\ SameScore(b.score, d.score)
    BY <1>2 DEF Differing
  <2>3. SameScore(a.score, d.score)
    BY <2>1, <2>2, SameScoreTransitive
  <2> QED
    BY <1>2, <2>3 DEF Differing
<1> QED
  BY <1>1, <1>2

(* The columns an UPDATE writes are those of what was derived, and the row's *)
(* others stay; they agree with it too when the row is what the copy says.   *)
Merged(row, copy, derived) ==
  [col \in Column |-> IF col \in Differing(copy, derived) THEN derived[col] ELSE row[col]]

LEMMA MergedTyped ==
  ASSUME NEW row \in View, NEW copy \in View, NEW derived \in View
  PROVE  Merged(row, copy, derived) \in View
  BY DEF Merged, Column, View

LEMMA MergedSettles ==
  ASSUME NEW row \in View, NEW copy \in View, NEW derived \in View,
         Differing(row, copy) = {}
  PROVE  Differing(Merged(row, copy, derived), derived) = {}
<1> SUFFICES ASSUME NEW col \in Column
             PROVE  col \notin Differing(Merged(row, copy, derived), derived)
  BY DEF Differing
<1> DEFINE merged == Merged(row, copy, derived)
<1>1. merged \in View
  BY MergedTyped
<1>2. merged[col] = IF col \in Differing(copy, derived) THEN derived[col] ELSE row[col]
  BY DEF Merged
<1>3. derived \in View /\ Differing(derived, derived) = {}
  BY AlikeItself
<1> HIDE DEF merged
<1>4. CASE col \in Differing(copy, derived)
  BY <1>1, <1>2, <1>3, <1>4, AlikeColumn DEF merged
<1>5. CASE col \notin Differing(copy, derived)
  <2>1. col \notin Differing(row, derived)
    BY <1>5, AlikeTransitive
  <2> QED
    BY <1>1, <1>2, <1>5, <2>1, AlikeColumn DEF merged
<1> QED
  BY <1>4, <1>5

-----------------------------------------------------------------------------
(* The invariant of the data. *)

(* A row as the queries of a writer see it, and what it can see about a     *)
(* concept.                                                                 *)
RowAt(r, c) == IF r.rows[c] # None THEN r.rows[c] ELSE concepts[c]
SeenBy(r, c) == About(c, observations \cup r.own)

(* The signal a writer is about: the one it writes next, or wrote last. *)
Subject(l, r) == IF l = "write" THEN r.buffer[1] ELSE r.now

(* Each column is what some of the evidence gives. *)
Derivable(view, obs) ==
  \A col \in Column : \E S \in SUBSET obs : \E d \in Derive(S) : col \notin Differing(view, d)

(* What a writer's place says of it: which concept it is about, that this   *)
(* one has a row, and how far a correction has come.                        *)
PlaceOK(t, l, r) ==
  /\ l \notin Ended => /\ r.kind = "correction" <=> t \in Corrections
                       /\ t \notin Corrections => r.paper \in Papers
  /\ l \in {"override", "recompute"} => t \in Corrections
  /\ l \in {"recall", "grow", "create", "pair", "override", "load", "update", "recompute"}
       => r.now.concept \in Concepts
  /\ l \in {"grow", "pair", "override", "load", "update", "recompute"}
       => RowAt(r, r.now.concept) # None
  /\ \A i \in DOMAIN r.buffer :
       r.buffer[i].concept \in Concepts /\ RowAt(r, r.buffer[i].concept) # None
  /\ l \in {"load", "update", "recompute"} => About(r.now.concept, r.own) # {}
  /\ l = "ready" /\ r.own # {} =>
       r.now.concept \in Concepts /\ RowAt(r, r.now.concept) # None

CorrectionOK(t, l, r) ==
  t \in Corrections =>
    /\ l \in Ended \cup {"override", "pair", "write", "update", "recompute", "ready"}
    /\ l \in {"override", "pair"} => r.writing
    /\ IF l = "write" THEN Len(r.buffer) = 1 ELSE r.buffer = <<>>
    /\ l = "override" => \A c \in Concepts : r.rows[c] = None
    /\ l \notin Ended => Subject(l, r).signal \in {"user_stated_known", "user_stated_unknown"}

(* What a row is to a writer that sees it: each column is derived from what *)
(* the writer sees, and it differs from the committed one only where the    *)
(* writer had a reason to change it.                                        *)
RowOK(t, l, r, c, row) ==
  /\ Derivable(row.view, SeenBy(r, c))
  /\ concepts[c] # None =>
       /\ About(c, r.own) = {} => row.view = concepts[c].view
       /\ row.override # concepts[c].override =>
            /\ t \in Corrections /\ Subject(l, r).concept = c
            /\ row.override = Subject(l, r).signal

RowsOK(t, l, r) == \A c \in Concepts : r.rows[c] # None => RowOK(t, l, r, c, r.rows[c])

(* A writer that has flushed a committed concept's row holds its lock. *)
HoldsOK(t, r, lock) ==
  \A c \in Concepts : r.rows[c] # None /\ concepts[c] # None => lock[c] = t

(* What is derived is derived from evidence the writer sees; from all of    *)
(* it, and the row in step with the copy, as long as nobody else commits    *)
(* about the concept.                                                       *)
DerivedOK(l, r) ==
  l \in {"load", "update"} => \E S \in SUBSET SeenBy(r, r.now.concept) : r.derived \in Derive(S)

SettleOK(t, l, r) ==
  LET c == Subject(l, r).concept
  IN  c \in Concepts /\ r.saw = About(c, observations) =>
        /\ l \in {"load", "update"} => r.derived \in Derive(SeenBy(r, c))
        /\ l = "update" \/ (t \in Corrections /\ l \in {"override", "pair", "write", "recompute"})
             => Differing(RowAt(r, c).view, r.copy.view) = {}
        /\ l = "ready" /\ r.own # {} => Agrees(RowAt(r, c).view, SeenBy(r, c))

DataOK(t, l, r) ==
  /\ r.saw \subseteq observations /\ IsFiniteSet(r.own)
  /\ PlaceOK(t, l, r) /\ CorrectionOK(t, l, r) /\ RowsOK(t, l, r)
  /\ DerivedOK(l, r) /\ SettleOK(t, l, r)

(* No two writers create one concept. *)
Sole == \A t, o \in Writers, c \in Concepts : Creates(t, c) /\ Creates(o, c) => t = o

DataInv ==
  /\ TypeOK /\ IsFiniteSet(observations)
  /\ \A t \in Writers : DataOK(t, pc[t], w[t]) /\ HoldsOK(t, w[t], rowLock)
  /\ \A c \in Concepts : concepts[c] # None =>
       Derivable(concepts[c].view, About(c, observations))
  /\ Sole

LEMMA DerivableMore ==
  ASSUME NEW view, NEW obs, NEW more, Derivable(view, obs), obs \subseteq more
  PROVE  Derivable(view, more)
  BY DEF Derivable

LEMMA DerivedTyped ==
  ASSUME NEW obs \in SUBSET Observation, IsFiniteSet(obs), NEW S \in SUBSET obs, NEW d \in Derive(S)
  PROVE  d \in View
  BY DeriveTyped, FS_Subset

(* A merged row is derivable when the row and what was derived are. *)
LEMMA MergedDerivable ==
  ASSUME NEW obs \in SUBSET Observation, IsFiniteSet(obs),
         NEW row \in View, NEW copy \in View, Derivable(row, obs),
         NEW S \in SUBSET obs, NEW derived \in Derive(S)
  PROVE  Derivable(Merged(row, copy, derived), obs)
<1> DEFINE merged == Merged(row, copy, derived)
<1>1. derived \in View /\ merged \in View /\ Differing(derived, derived) = {}
  BY DerivedTyped, MergedTyped, AlikeItself
<1>2. ASSUME NEW col \in Column
      PROVE  \E T \in SUBSET obs : \E d \in Derive(T) : col \notin Differing(merged, d)
  <2>1. merged[col] = IF col \in Differing(copy, derived) THEN derived[col] ELSE row[col]
    BY DEF Merged
  <2> HIDE DEF merged
  <2>2. CASE merged[col] = derived[col]
    <3>1. col \notin Differing(merged, derived)
      BY <1>1, <2>2, AlikeColumn
    <3> QED
      BY <3>1
  <2>3. CASE merged[col] = row[col]
    <3>1. PICK T \in SUBSET obs : \E d \in Derive(T) : col \notin Differing(row, d)
      BY DEF Derivable
    <3>2. PICK d \in Derive(T) : col \notin Differing(row, d)
      BY <3>1
    <3>3. d \in View
      BY <3>1, DerivedTyped
    <3>4. col \notin Differing(merged, d)
      BY <1>1, <2>3, <3>2, <3>3, AlikeColumn
    <3> QED
      BY <3>1, <3>2, <3>4
  <2> QED
    BY <2>1, <2>2, <2>3
<1> QED
  BY <1>2 DEF Derivable

(* What a writer sees is a finite set of observations. *)
LEMMA SeenTyped ==
  ASSUME DataInv, NEW t \in Writers, NEW c
  PROVE  /\ SeenBy(w[t], c) \in SUBSET Observation /\ IsFiniteSet(SeenBy(w[t], c))
         /\ w[t] \in Local /\ w[t].own \in SUBSET Observation /\ observations \in SUBSET Observation
<1>1. w[t] \in Local /\ observations \in SUBSET Observation
  BY DEF DataInv, TypeOK
<1>2. w[t].own \in SUBSET Observation
  BY <1>1 DEF Local
<1>3. IsFiniteSet(observations \cup w[t].own)
  BY FS_Union DEF DataInv, DataOK
<1>4. SeenBy(w[t], c) \subseteq observations \cup w[t].own
  BY DEF SeenBy, About
<1> QED
  BY <1>1, <1>2, <1>3, <1>4, FS_Subset

(* The row that a writer's queries see, flushed or not. *)
LEMMA RowAtOK ==
  ASSUME DataInv, NEW t \in Writers, NEW c \in Concepts, RowAt(w[t], c) # None
  PROVE  /\ RowOK(t, pc[t], w[t], c, RowAt(w[t], c))
         /\ RowAt(w[t], c) \in ConceptRow
<1>1. RowAt(w[t], c) \in ConceptRow
  <2>1. concepts[c] \in ConceptRow \cup {None} /\ w[t] \in Local
    BY DEF DataInv, TypeOK
  <2>2. w[t].rows[c] \in ConceptRow \cup {None}
    BY <2>1 DEF Local
  <2> QED
    BY <2>1, <2>2 DEF RowAt
<1>2. CASE w[t].rows[c] # None
  BY <1>1, <1>2 DEF DataInv, DataOK, RowsOK, RowAt
<1>3. CASE w[t].rows[c] = None
  <2>1. RowAt(w[t], c) = concepts[c] /\ concepts[c] # None
    BY <1>3 DEF RowAt
  <2>2. Derivable(concepts[c].view, About(c, observations))
    BY <2>1 DEF DataInv
  <2>3. About(c, observations) \subseteq SeenBy(w[t], c)
    BY DEF About, SeenBy
  <2>4. Derivable(concepts[c].view, SeenBy(w[t], c))
    BY <2>2, <2>3, DerivableMore
  <2> QED
    BY <1>1, <2>1, <2>4 DEF RowOK
<1> QED
  BY <1>2, <1>3

(* A step of one writer that commits nothing. *)
LEMMA StepData ==
  ASSUME DataInv, NEW t \in Writers, NEW l \in Label, NEW r \in Local,
         Set(t, r), Goto(t, l), UNCHANGED <<concepts, observations>>, clock' \in Nat,
         rowLock' \in [Concepts -> Writers \cup {None}],
         \A c \in Concepts : rowLock[c] \notin {None, t} => rowLock'[c] = rowLock[c],
         \A c \in Concepts : r.rows[c] # None /\ concepts[c] = None =>
                               w[t].rows[c] # None \/ ~ NameAwaited(t, c),
         DataOK(t, l, r), HoldsOK(t, r, rowLock')
  PROVE  DataInv'
<1>1. /\ w' = [o \in Writers |-> IF o = t THEN r ELSE w[o]]
      /\ pc' = [o \in Writers |-> IF o = t THEN l ELSE pc[o]]
  BY DEF Set, Goto, DataInv, TypeOK
<1>2. /\ w'[t] = r /\ pc'[t] = l
      /\ \A o \in Writers \ {t} : w'[o] = w[o] /\ pc'[o] = pc[o]
  BY <1>1
<1>3. TypeOK'
  <2>1. w' \in [Writers -> Local] /\ pc' \in [Writers -> Label]
    BY <1>1 DEF DataInv, TypeOK
  <2> QED
    BY <2>1 DEF DataInv, TypeOK
<1>4. ASSUME NEW o \in Writers
      PROVE  DataOK(o, pc[o], w[o])'
  <2>1. DataOK(o, pc'[o], w'[o])
    BY <1>2 DEF DataInv
  <2>2. PlaceOK(o, pc[o], w[o])' /\ DerivedOK(pc[o], w[o])'
    BY <2>1 DEF DataOK, PlaceOK, RowAt, DerivedOK, SeenBy
  <2>3. RowsOK(o, pc[o], w[o])'
    BY <2>1 DEF DataOK, RowsOK, RowOK, SeenBy, Subject
  <2>4. CorrectionOK(o, pc[o], w[o])'
    BY <2>1 DEF DataOK, CorrectionOK, Subject
  <2>5. SettleOK(o, pc[o], w[o])'
    BY <2>1 DEF DataOK, SettleOK, Subject, RowAt, SeenBy
  <2> QED
    BY <2>1, <2>2, <2>3, <2>4, <2>5 DEF DataOK
<1>5. ASSUME NEW o \in Writers
      PROVE  HoldsOK(o, w[o], rowLock)'
  <2>1. CASE o = t
    BY <1>2, <2>1 DEF HoldsOK
  <2>2. CASE o # t
    BY <1>2, <2>2, WritersAssumption DEF DataInv, HoldsOK
  <2> QED
    BY <2>1, <2>2
<1>6. Sole'
  <2> SUFFICES ASSUME NEW a \in Writers, NEW o \in Writers, NEW c \in Concepts,
                      concepts[c] = None, w'[a].rows[c] # None, w'[o].rows[c] # None, a # o
               PROVE  FALSE
    BY DEF Sole, Creates
  <2>1. \A x \in Writers \ {t} : w'[x].rows[c] # None => Creates(x, c)
    BY <1>2 DEF Creates
  <2>2. w'[t].rows[c] # None => Creates(t, c) \/ ~ NameAwaited(t, c)
    BY <1>2 DEF Creates
  <2> QED
    BY <2>1, <2>2 DEF DataInv, Sole, NameAwaited
<1> QED
  BY <1>3, <1>4, <1>5, <1>6 DEF DataInv, About

(* A step that flushes no row. *)
LEMMA QuietData ==
  ASSUME DataInv, NEW t \in Writers, NEW l \in Label, NEW r \in Local,
         Set(t, r), Goto(t, l), UNCHANGED <<concepts, observations, rowLock>>, clock' \in Nat,
         \A c \in Concepts : r.rows[c] \in {None, w[t].rows[c]},
         DataOK(t, l, r)
  PROVE  DataInv'
<1>1. HoldsOK(t, r, rowLock')
  BY DEF DataInv, HoldsOK
<1>2. rowLock' \in [Concepts -> Writers \cup {None}]
  BY DEF DataInv, TypeOK
<1> QED
  BY <1>1, <1>2, StepData

(* The rows a writer leaves as they are stay justified by what it sees. *)
LEMMA RowsKept ==
  ASSUME DataInv, NEW t \in Writers, NEW l, NEW r,
         \A c \in Concepts : r.rows[c] \in {None, w[t].rows[c]},
         w[t].own \subseteq r.own,
         t \in Corrections => /\ Subject(l, r).concept = Subject(pc[t], w[t]).concept
                              /\ Subject(l, r).signal = Subject(pc[t], w[t]).signal
  PROVE  RowsOK(t, l, r)
<1> SUFFICES ASSUME NEW c \in Concepts, r.rows[c] # None
             PROVE  RowOK(t, l, r, c, r.rows[c])
  BY DEF RowsOK
<1>1. RowOK(t, pc[t], w[t], c, r.rows[c])
  BY DEF DataInv, DataOK, RowsOK
<1>2. SeenBy(w[t], c) \subseteq SeenBy(r, c) /\ About(c, w[t].own) \subseteq About(c, r.own)
  BY DEF SeenBy, About
<1> QED
  BY <1>1, <1>2, DerivableMore DEF RowOK

(* The initial values have their types. *)

LEMMA NoSignalIsSignal == NoSignal \in Signal
  BY DEF NoSignal, Signal, SignalType, SOURCE_FOR_SIGNAL, MAX_TRANSIENT_ATTEMPTS

LEMMA SignalOf ==
  ASSUME NEW c \in Concepts, NEW s \in SignalType, NEW x,
         x = [NoSignal EXCEPT !.concept = c, !.signal = s]
  PROVE  x \in Signal /\ x.concept = c /\ x.signal = s
  BY NoSignalIsSignal DEF Signal

LEMMA UnknownTyped == Unknown \in View /\ \A p \in SUBSET Papers : NewConcept(p) \in ConceptRow
<1>1. Unknown \in View
  BY DEF Unknown, View
<1> QED
  BY <1>1 DEF NewConcept, ConceptRow

LEMMA FreshTyped ==
  /\ Fresh \in Local /\ Fresh.buffer = <<>> /\ Fresh.own = {} /\ Fresh.saw = {}
  /\ Fresh.now = NoSignal /\ Fresh.kind = "agent" /\ Fresh.writing = FALSE
  /\ Fresh.copy = NewConcept({}) /\ \A c \in Concepts : Fresh.rows[c] = None
<1>1. /\ 1 \in 1..MAX_TRANSIENT_ATTEMPTS /\ <<>> \in Seq(Signal)
      /\ NewConcept({}) \in ConceptRow /\ Unknown \in View /\ NoSignal \in Signal
  <2>1. {} \in SUBSET Papers /\ 1 \in 1..MAX_TRANSIENT_ATTEMPTS /\ <<>> \in Seq(Signal)
    BY DEF MAX_TRANSIENT_ATTEMPTS
  <2> QED
    BY <2>1, UnknownTyped, NoSignalIsSignal
<1> QED
  BY <1>1 DEF Fresh, Local

(* A writer that has nothing yet, or nothing any more. *)
LEMMA EmptyHanded ==
  ASSUME NEW t, NEW l \in Label, NEW r \in Local,
         r.buffer = <<>>, r.own = {}, r.saw \subseteq observations,
         \A c \in Concepts : r.rows[c] = None,
         PlaceOK(t, l, r), CorrectionOK(t, l, r), SettleOK(t, l, r),
         l \in Before \cup Ended
  PROVE  DataOK(t, l, r)
<1>1. IsFiniteSet({})
  BY FS_EmptySet
<1> QED
  BY <1>1 DEF DataOK, RowsOK, DerivedOK, Before, Ended

LEMMA InitData == Init => DataInv
<1> SUFFICES ASSUME Init
             PROVE  DataInv
  OBVIOUS
<1>1. IsFiniteSet({})
  BY FS_EmptySet
<1>2. TypeOK
  BY FreshTyped, UnknownTyped DEF Init, TypeOK, Label, Ended
<1>3. ASSUME NEW t \in Writers
      PROVE  DataOK(t, pc[t], w[t]) /\ HoldsOK(t, w[t], rowLock)
  <2>1. pc[t] = "idle" /\ w[t] = Fresh
    BY <1>3 DEF Init
  <2>2. PlaceOK(t, "idle", Fresh) /\ CorrectionOK(t, "idle", Fresh) /\ SettleOK(t, "idle", Fresh)
    BY FreshTyped DEF PlaceOK, CorrectionOK, SettleOK, Ended
  <2>3. DataOK(t, "idle", Fresh)
    BY <2>2, FreshTyped, EmptyHanded DEF Label, Ended
  <2> QED
    BY <2>1, <2>3, FreshTyped DEF HoldsOK
<1>4. ASSUME NEW c \in Concepts, concepts[c] # None
      PROVE  Derivable(concepts[c].view, About(c, observations))
  <2>1. concepts[c].view = Unknown
    BY <1>4 DEF Init, NewConcept
  <2>2. Differing(Unknown, Unknown) = {} /\ Unknown \in Derive({})
    BY UnknownTyped, AlikeItself, DeriveNothing
  <2> QED
    BY <2>1, <2>2 DEF Derivable
<1>5. Sole
  BY FreshTyped DEF Init, Sole, Creates
<1> QED
  BY <1>1, <1>2, <1>3, <1>4, <1>5 DEF DataInv, Init

-----------------------------------------------------------------------------
(* The beginnings, and what the agent notices. *)

LEMMA BeginTurnData ==
  ASSUME DataInv, NEW t \in Turns, BeginTurn(t) PROVE DataInv'
<1>1. PICK paper \in Papers, seen \in {x \in Concepts : concepts[x] # None} \cup {None} :
        Set(t, [Fresh EXCEPT !.at = clock + 1, !.paper = paper, !.seen = seen])
  BY DEF BeginTurn
<1> DEFINE r == [Fresh EXCEPT !.at = clock + 1, !.paper = paper, !.seen = seen]
<1>2. /\ Set(t, r) /\ Goto(t, "agent") /\ UNCHANGED <<concepts, observations, rowLock>>
      /\ clock' = clock + 1 /\ clock + 1 \in Nat /\ t \in Writers /\ t \notin Corrections
  BY <1>1, WritersAssumption DEF BeginTurn, DataInv, TypeOK, Writers
<1>3. /\ r \in Local /\ r.buffer = <<>> /\ r.own = {} /\ r.saw = {} /\ r.kind = "agent"
      /\ r.paper \in Papers /\ \A c \in Concepts : r.rows[c] = None
  BY <1>2, FreshTyped DEF Local
<1> HIDE DEF r
<1>4. DataOK(t, "agent", r)
  <2>1. PlaceOK(t, "agent", r) /\ CorrectionOK(t, "agent", r) /\ SettleOK(t, "agent", r)
    BY <1>2, <1>3 DEF PlaceOK, CorrectionOK, SettleOK, Ended
  <2> QED
    BY <1>3, <2>1, EmptyHanded DEF Before, Label
<1> QED
  BY <1>2, <1>3, <1>4, QuietData DEF Label

LEMMA BeginGradingData ==
  ASSUME DataInv, NEW t \in Turns, BeginGrading(t) PROVE DataInv'
<1>1. PICK paper \in Papers, signal \in Graded, c \in Concepts :
        Set(t, [Fresh EXCEPT !.kind = "graded", !.at = clock + 1, !.paper = paper,
                  !.now = [NoSignal EXCEPT !.concept = c, !.signal = signal],
                  !.writing = TRUE])
  BY DEF BeginGrading
<1> DEFINE now == [NoSignal EXCEPT !.concept = c, !.signal = signal]
           r == [Fresh EXCEPT !.kind = "graded", !.at = clock + 1, !.paper = paper,
                              !.now = now, !.writing = TRUE]
<1>2. /\ Goto(t, "recall") /\ UNCHANGED <<concepts, observations, rowLock>>
      /\ clock' = clock + 1 /\ clock + 1 \in Nat /\ t \in Writers /\ t \notin Corrections
  BY WritersAssumption DEF BeginGrading, DataInv, TypeOK, Writers
<1>3. now \in Signal /\ now.concept = c
  <2>1. signal \in SignalType
    BY SignalsAssumption DEF SignalType, SOURCE_FOR_SIGNAL
  <2> QED
    BY <2>1, SignalOf
<1>4. Set(t, r)
  BY <1>1
<1> HIDE DEF now
<1>5. /\ r \in Local /\ r.buffer = <<>> /\ r.own = {} /\ r.saw = {} /\ r.kind = "graded"
      /\ r.paper \in Papers /\ r.now.concept = c /\ \A x \in Concepts : r.rows[x] = None
  BY <1>2, <1>3, FreshTyped DEF Local
<1> HIDE DEF r
<1>6. DataOK(t, "recall", r)
  <2>1. PlaceOK(t, "recall", r) /\ CorrectionOK(t, "recall", r) /\ SettleOK(t, "recall", r)
    BY <1>2, <1>5 DEF PlaceOK, CorrectionOK, SettleOK, Ended
  <2> QED
    BY <1>5, <2>1, EmptyHanded DEF Before, Label
<1> QED
  BY <1>2, <1>4, <1>5, <1>6, QuietData DEF Label

LEMMA BeginCorrectionData ==
  ASSUME DataInv, NEW t \in Corrections, BeginCorrection(t) PROVE DataInv'
<1>1. PICK c \in Concepts, signal \in {"user_stated_known", "user_stated_unknown"} :
        /\ concepts[c] # None
        /\ Set(t, [Fresh EXCEPT !.kind = "correction", !.at = clock + 1,
                     !.now = [NoSignal EXCEPT !.concept = c, !.signal = signal],
                     !.writing = TRUE, !.copy = concepts[c],
                     !.saw = About(c, observations)])
  BY DEF BeginCorrection
<1> DEFINE now == [NoSignal EXCEPT !.concept = c, !.signal = signal]
           saw == About(c, observations)
           r == [Fresh EXCEPT !.kind = "correction", !.at = clock + 1, !.now = now,
                              !.writing = TRUE, !.copy = concepts[c], !.saw = saw]
<1>2. /\ Goto(t, "override") /\ UNCHANGED <<concepts, observations, rowLock>>
      /\ clock' = clock + 1 /\ clock + 1 \in Nat /\ t \in Writers
  BY DEF BeginCorrection, DataInv, TypeOK, Writers
<1>3. now \in Signal /\ now.concept = c /\ now.signal = signal
  <2>1. signal \in SignalType
    BY DEF SignalType, SOURCE_FOR_SIGNAL
  <2>2. now \in Signal
    BY <2>1, SignalOf
  <2>3. now.concept = c /\ now.signal = signal
    BY <2>1, NoSignalIsSignal DEF Signal
  <2> QED
    BY <2>2, <2>3
<1>4. concepts[c] \in ConceptRow /\ concepts[c].view \in View
  BY <1>1 DEF DataInv, TypeOK, ConceptRow
<1>5. saw \subseteq observations /\ saw \in SUBSET Observation
  BY DEF About, DataInv, TypeOK
<1>6. Set(t, r)
  BY <1>1
<1> HIDE DEF now, saw
<1>7. /\ r \in Local /\ r.buffer = <<>> /\ r.own = {} /\ r.saw = saw /\ r.kind = "correction"
      /\ r.now = now /\ r.writing /\ r.copy = concepts[c]
      /\ \A x \in Concepts : r.rows[x] = None
  BY <1>2, <1>3, <1>4, <1>5, FreshTyped DEF Local
<1> HIDE DEF r
<1>8. DataOK(t, "override", r)
  <2>1. RowAt(r, c) = concepts[c]
    BY <1>7 DEF RowAt
  <2>2. PlaceOK(t, "override", r)
    BY <1>1, <1>3, <1>7, <2>1 DEF PlaceOK, Ended
  <2>3. CorrectionOK(t, "override", r)
    BY <1>3, <1>7 DEF CorrectionOK, Ended, Subject
  <2>4. SettleOK(t, "override", r)
    BY <1>3, <1>4, <1>7, <2>1, AlikeItself DEF SettleOK, Subject
  <2> QED
    BY <1>5, <1>7, <2>2, <2>3, <2>4, EmptyHanded DEF Before, Label
<1> QED
  BY <1>2, <1>6, <1>7, <1>8, QuietData DEF Label

(* At the agent's loop and where a name is recalled there are only turns. *)
LEMMA OnlyTurns ==
  ASSUME DataInv, NEW t \in Writers,
         pc[t] \in {"agent", "recall", "grow", "create", "load"}
  PROVE  t \notin Corrections
  BY DEF DataInv, DataOK, CorrectionOK, Ended

LEMMA NoticeData == ASSUME DataInv, NEW t \in Writers, Notice(t) PROVE DataInv'
<1>1. PICK c \in Concepts, signal \in Noticed, style \in Styles :
        Set(t, [w[t] EXCEPT !.now = [NoSignal EXCEPT !.concept = c, !.signal = signal,
                              !.style = style, !.attempt = w[t].attempt]])
  BY DEF Notice
<1> DEFINE now == [NoSignal EXCEPT !.concept = c, !.signal = signal,
                                   !.style = style, !.attempt = w[t].attempt]
           r == [w[t] EXCEPT !.now = now]
<1>2. /\ pc[t] = "agent" /\ Goto(t, "recall") /\ Set(t, r)
      /\ UNCHANGED <<concepts, observations, rowLock, clock>>
      /\ w[t] \in Local /\ clock \in Nat /\ DataOK(t, "agent", w[t])
  BY <1>1 DEF Notice, DataInv, TypeOK
<1>3. now \in Signal /\ now.concept = c
  <2>1. w[t].attempt \in 0..MAX_TRANSIENT_ATTEMPTS
    BY <1>2 DEF Local, MAX_TRANSIENT_ATTEMPTS
  <2> QED
    BY <2>1, NoSignalIsSignal, SignalsAssumption DEF Signal
<1> HIDE DEF now
<1>4. /\ r \in Local /\ r.now = now /\ r.buffer = w[t].buffer /\ r.own = w[t].own
      /\ r.saw = w[t].saw /\ r.kind = w[t].kind /\ r.paper = w[t].paper
      /\ r.rows = w[t].rows
  BY <1>2, <1>3 DEF Local
<1> HIDE DEF r
<1>5. t \notin Corrections
  BY <1>2, OnlyTurns
<1>6. DataOK(t, "recall", r)
  <2>1. PlaceOK(t, "recall", r)
    BY <1>2, <1>3, <1>4, <1>5 DEF DataOK, PlaceOK, Ended, RowAt
  <2>2. RowsOK(t, "recall", r)
    BY <1>4, <1>5, RowsKept
  <2> QED
    BY <1>2, <1>4, <1>5, <2>1, <2>2 DEF DataOK, CorrectionOK, DerivedOK, SettleOK
<1> QED
  BY <1>2, <1>4, <1>6, QuietData DEF Label

-----------------------------------------------------------------------------
(* Steps that flush nothing. *)

(* What the invariant says of the writer that moves. *)
LEMMA Here ==
  ASSUME DataInv, NEW t \in Writers
  PROVE  /\ w[t] \in Local /\ clock \in Nat /\ DataOK(t, pc[t], w[t])
         /\ HoldsOK(t, w[t], rowLock)
         /\ Set(t, w[t]) <=> w' = w
         /\ Goto(t, pc[t]) <=> pc' = pc
         /\ rowLock \in [Concepts -> Writers \cup {None}]
  BY DEF DataInv, TypeOK, Set, Goto

LEMMA RetryData == ASSUME DataInv, NEW t \in Writers, Retry(t) PROVE DataInv'
<1> DEFINE r == [w[t] EXCEPT !.attempt = @ + 1, !.buffer = <<>>]
<1>1. /\ pc[t] = "agent" /\ Goto(t, "agent") /\ Set(t, r)
      /\ UNCHANGED <<concepts, observations, rowLock, clock>>
      /\ w[t].attempt < MAX_TRANSIENT_ATTEMPTS
      /\ w[t] \in Local /\ clock \in Nat /\ DataOK(t, "agent", w[t])
  BY Here DEF Retry
<1>2. w[t].attempt + 1 \in 1..MAX_TRANSIENT_ATTEMPTS /\ <<>> \in Seq(Signal)
  BY <1>1 DEF Local, MAX_TRANSIENT_ATTEMPTS
<1>3. /\ r \in Local /\ r.buffer = <<>> /\ r.own = w[t].own
      /\ r.saw = w[t].saw /\ r.kind = w[t].kind /\ r.paper = w[t].paper
      /\ r.rows = w[t].rows
  BY <1>1, <1>2 DEF Local
<1> HIDE DEF r
<1>4. t \notin Corrections
  BY <1>1, OnlyTurns
<1>5. DataOK(t, "agent", r)
  <2>1. PlaceOK(t, "agent", r)
    BY <1>1, <1>3 DEF DataOK, PlaceOK
  <2>2. RowsOK(t, "agent", r)
    BY <1>3, <1>4, RowsKept
  <2> QED
    BY <1>1, <1>3, <1>4, <2>1, <2>2 DEF DataOK, CorrectionOK, DerivedOK, SettleOK
<1> QED
  BY <1>1, <1>3, <1>5, QuietData DEF Label

LEMMA PersistData == ASSUME DataInv, IInv, NEW t \in Writers, Persist(t) PROVE DataInv'
<1> DEFINE now == [NoSignal EXCEPT !.concept = w[t].seen, !.attempt = w[t].attempt]
           r == [w[t] EXCEPT !.writing = TRUE, !.now = now]
<1>1. /\ pc[t] = "agent" /\ UNCHANGED <<concepts, observations, rowLock, clock>>
      /\ w[t] \in Local /\ clock \in Nat /\ DataOK(t, "agent", w[t])
  BY Here DEF Persist
<1>2. t \notin Corrections
  BY <1>1, OnlyTurns
<1>3. w[t].own = {}
  BY <1>1 DEF IInv, LocalOK, ProgressOK, Before
<1>4. ASSUME NEW l \in {"write", "ready"}, Goto(t, l), w' = w
      PROVE  DataInv'
  <2>1. RowsOK(t, l, w[t])
    BY <1>2, RowsKept
  <2>2. DataOK(t, l, w[t])
    BY <1>1, <1>2, <1>3, <2>1
       DEF DataOK, PlaceOK, CorrectionOK, DerivedOK, SettleOK, Ended
  <2> QED
    BY <1>1, <1>4, <2>2, Here, QuietData DEF Label
<1>5. CASE w[t].seen # None /\ Set(t, r) /\ Goto(t, "recall")
  <2>1. now \in Signal /\ now.concept \in Concepts
    <3>1. w[t].attempt \in 0..MAX_TRANSIENT_ATTEMPTS /\ w[t].seen \in Concepts
      BY <1>1, <1>5 DEF Local, MAX_TRANSIENT_ATTEMPTS
    <3> QED
      BY <3>1, NoSignalIsSignal DEF Signal
  <2> HIDE DEF now
  <2>2. /\ r \in Local /\ r.buffer = w[t].buffer /\ r.own = w[t].own
        /\ r.saw = w[t].saw /\ r.kind = w[t].kind /\ r.paper = w[t].paper
        /\ r.rows = w[t].rows /\ r.now = now
    BY <1>1, <2>1 DEF Local
  <2> HIDE DEF r
  <2>3. RowsOK(t, "recall", r)
    BY <1>2, <2>2, RowsKept
  <2>4. PlaceOK(t, "recall", r)
    BY <1>1, <1>2, <2>1, <2>2 DEF DataOK, PlaceOK, RowAt, Ended
  <2>5. DataOK(t, "recall", r)
    BY <1>1, <1>2, <2>2, <2>3, <2>4 DEF DataOK, CorrectionOK, DerivedOK, SettleOK
  <2> QED
    BY <1>1, <1>5, <2>2, <2>5, QuietData DEF Label
<1> QED
  BY <1>4, <1>5 DEF Persist

LEMMA RecallData == ASSUME DataInv, NEW t \in Writers, Recall(t) PROVE DataInv'
<1> DEFINE c == w[t].now.concept
           r == [w[t] EXCEPT !.copy = Row(t, c)]
<1>1. /\ pc[t] = "recall" /\ UNCHANGED <<concepts, observations, rowLock, clock>>
      /\ w[t] \in Local /\ clock \in Nat /\ DataOK(t, "recall", w[t])
  BY Here DEF Recall
<1>2. t \notin Corrections /\ c \in Concepts /\ Row(t, c) = RowAt(w[t], c)
  BY <1>1, OnlyTurns DEF DataOK, PlaceOK, Row, RowAt
<1>3. ASSUME NEW l \in {"create", "pair", "grow"}, NEW q \in Local, Set(t, q), Goto(t, l),
             l \in {"pair", "grow"} => RowAt(w[t], c) # None,
             q.buffer = w[t].buffer, q.own = w[t].own, q.saw = w[t].saw,
             q.kind = w[t].kind, q.paper = w[t].paper, q.rows = w[t].rows, q.now = w[t].now
      PROVE  DataInv'
  <2>1. RowsOK(t, l, q)
    BY <1>2, <1>3, RowsKept
  <2>2. PlaceOK(t, l, q)
    BY <1>1, <1>2, <1>3 DEF DataOK, PlaceOK, RowAt, Ended
  <2>3. DataOK(t, l, q)
    BY <1>1, <1>2, <1>3, <2>1, <2>2 DEF DataOK, CorrectionOK, DerivedOK, SettleOK
  <2> QED
    BY <1>1, <1>3, <2>3, QuietData DEF Label
<1>4. CASE Row(t, c) = None /\ Goto(t, "create") /\ w' = w
  BY <1>1, <1>3, <1>4, Here
<1>5. CASE Row(t, c) # None /\ Goto(t, "pair") /\ w' = w
  BY <1>1, <1>2, <1>3, <1>5, Here
<1>6. CASE Row(t, c) # None /\ Goto(t, "grow") /\ Set(t, r)
  <2>1. Row(t, c) \in ConceptRow
    BY <1>2, <1>6, RowAtOK
  <2>2. /\ r \in Local /\ r.buffer = w[t].buffer /\ r.own = w[t].own
        /\ r.saw = w[t].saw /\ r.kind = w[t].kind /\ r.paper = w[t].paper
        /\ r.rows = w[t].rows /\ r.now = w[t].now
    BY <1>1, <2>1 DEF Local
  <2> HIDE DEF r
  <2> QED
    BY <1>2, <1>3, <1>6, <2>2
<1> QED
  BY <1>4, <1>5, <1>6 DEF Recall

-----------------------------------------------------------------------------
(* Steps that flush a row. *)

(* A step that flushes one row, under its lock. *)
LEMMA FlushData ==
  ASSUME DataInv, NEW t \in Writers, NEW l \in Label, NEW r \in Local,
         Set(t, r), Goto(t, l), UNCHANGED <<concepts, observations, clock>>,
         NEW c \in Concepts, NEW row, r.rows = [w[t].rows EXCEPT ![c] = row],
         RowAt(w[t], c) # None, RowFree(t, c), Lock(t, c), DataOK(t, l, r)
  PROVE  DataInv'
<1>1. /\ rowLock' = [rowLock EXCEPT ![c] = t] /\ rowLock[c] \in {None, t}
      /\ rowLock \in [Concepts -> Writers \cup {None}] /\ w[t] \in Local /\ clock' \in Nat
  BY DEF Lock, RowFree, DataInv, TypeOK
<1>2. \A x \in Concepts : x # c => r.rows[x] = w[t].rows[x]
  BY <1>1 DEF Local
<1>3. HoldsOK(t, r, rowLock')
  BY <1>1, <1>2 DEF DataInv, HoldsOK
<1>4. \A x \in Concepts : rowLock[x] \notin {None, t} => rowLock'[x] = rowLock[x]
  BY <1>1
<1>5. \A x \in Concepts : r.rows[x] # None /\ concepts[x] = None =>
                            w[t].rows[x] # None \/ ~ NameAwaited(t, x)
  BY <1>2 DEF RowAt
<1>6. rowLock' \in [Concepts -> Writers \cup {None}]
  BY <1>1
<1> QED
  BY <1>1, <1>3, <1>4, <1>5, <1>6, StepData

LEMMA RowsChanged ==
  ASSUME DataInv, NEW t \in Writers, NEW l, NEW r,
         NEW c \in Concepts, NEW row, r.rows = [w[t].rows EXCEPT ![c] = row],
         r.own = w[t].own, RowOK(t, l, r, c, row),
         t \in Corrections => /\ Subject(l, r).concept = Subject(pc[t], w[t]).concept
                              /\ Subject(l, r).signal = Subject(pc[t], w[t]).signal
  PROVE  RowsOK(t, l, r)
<1> SUFFICES ASSUME NEW x \in Concepts, r.rows[x] # None
             PROVE  RowOK(t, l, r, x, r.rows[x])
  BY DEF RowsOK
<1>1. w[t].rows \in [Concepts -> ConceptRow \cup {None}]
  BY Here DEF Local
<1>2. CASE x = c
  BY <1>1, <1>2
<1>3. CASE x # c
  <2>1. r.rows[x] = w[t].rows[x]
    BY <1>1, <1>3
  <2>2. RowOK(t, pc[t], w[t], x, r.rows[x])
    BY <2>1 DEF DataInv, DataOK, RowsOK
  <2> QED
    BY <2>2 DEF RowOK, SeenBy
<1> QED
  BY <1>2, <1>3

(* Changing what a row's view does not show leaves its columns justified. *)
LEMMA RowAlike ==
  ASSUME NEW t, NEW l, NEW r, NEW c, NEW k, NEW q, NEW row, NEW new,
         RowOK(t, l, r, c, row), q.own = r.own,
         new.view = row.view, new.override = row.override,
         t \in Corrections => /\ Subject(k, q).concept = Subject(l, r).concept
                              /\ Subject(k, q).signal = Subject(l, r).signal
  PROVE  RowOK(t, k, q, c, new)
  BY DEF RowOK, SeenBy

LEMMA GrowData == ASSUME DataInv, NEW t \in Writers, Grow(t) PROVE DataInv'
<1> DEFINE c == w[t].now.concept
           row == [Row(t, c) EXCEPT !.sources = w[t].copy.sources \cup {w[t].paper}]
           r == [w[t] EXCEPT !.copy = Fresh.copy, !.rows[c] = row]
<1>1. /\ pc[t] = "grow" /\ UNCHANGED <<concepts, observations, clock>>
      /\ RowFree(t, c) /\ Lock(t, c) /\ Goto(t, "pair") /\ Set(t, r)
      /\ w[t] \in Local /\ clock \in Nat /\ DataOK(t, "grow", w[t])
  BY Here DEF Grow
<1>2. /\ t \notin Corrections /\ c \in Concepts /\ Row(t, c) = RowAt(w[t], c)
      /\ RowAt(w[t], c) # None /\ w[t].paper \in Papers
  BY <1>1, OnlyTurns DEF DataOK, PlaceOK, Row, RowAt, Ended
<1>3. /\ RowAt(w[t], c) \in ConceptRow
      /\ RowOK(t, "grow", w[t], c, RowAt(w[t], c))
  BY <1>1, <1>2, RowAtOK
<1>4. /\ row \in ConceptRow /\ row.view = RowAt(w[t], c).view
      /\ row.override = RowAt(w[t], c).override
  <2>1. w[t].copy.sources \cup {w[t].paper} \in SUBSET Papers
    BY <1>1, <1>2 DEF Local, ConceptRow
  <2> QED
    BY <1>2, <1>3, <2>1 DEF ConceptRow
<1> HIDE DEF row
<1>5. /\ r \in Local /\ r.buffer = w[t].buffer /\ r.own = w[t].own
      /\ r.saw = w[t].saw /\ r.kind = w[t].kind /\ r.paper = w[t].paper
      /\ r.rows = [w[t].rows EXCEPT ![c] = row] /\ r.now = w[t].now
  BY <1>1, <1>2, <1>4, FreshTyped DEF Local
<1> HIDE DEF r
<1>6. row # None
  BY <1>4, NoneIsNoRow
<1>7. \A x \in Concepts : RowAt(w[t], x) # None => RowAt(r, x) # None
  BY <1>1, <1>5, <1>6 DEF RowAt, Local
<1>8. DataOK(t, "pair", r)
  <2>1. PlaceOK(t, "pair", r)
    BY <1>1, <1>2, <1>5, <1>7 DEF DataOK, PlaceOK, Ended
  <2>2. RowOK(t, "pair", r, c, row)
    BY <1>2, <1>3, <1>4, <1>5, RowAlike
  <2>3. RowsOK(t, "pair", r)
    BY <1>2, <1>5, <2>2, RowsChanged
  <2> QED
    BY <1>1, <1>2, <1>5, <2>1, <2>3 DEF DataOK, CorrectionOK, DerivedOK, SettleOK
<1> QED
  BY <1>1, <1>2, <1>5, <1>8, FlushData DEF Label

LEMMA CreateConceptData == ASSUME DataInv, NEW t \in Writers, CreateConcept(t) PROVE DataInv'
<1> DEFINE c == w[t].now.concept
           row == NewConcept({w[t].paper})
           r == [w[t] EXCEPT !.rows[c] = row]
<1>0. /\ pc[t] = "create" /\ UNCHANGED <<concepts, observations, rowLock, clock>>
      /\ concepts[c] = None /\ ~ NameAwaited(t, c) /\ Goto(t, "pair") /\ Set(t, r)
  BY DEF CreateConcept
<1>1. /\ w[t] \in Local /\ clock \in Nat /\ DataOK(t, "create", w[t])
      /\ HoldsOK(t, w[t], rowLock) /\ rowLock \in [Concepts -> Writers \cup {None}]
  BY <1>0, Here
<1>2. t \notin Corrections /\ c \in Concepts /\ w[t].paper \in Papers
  BY <1>0, <1>1, OnlyTurns DEF DataOK, PlaceOK, Ended
<1>3. row \in ConceptRow /\ row # None /\ row.view = Unknown
  <2>1. {w[t].paper} \in SUBSET Papers
    BY <1>2
  <2>2. row \in ConceptRow
    BY <2>1, UnknownTyped
  <2> QED
    BY <2>2, NoneIsNoRow DEF NewConcept
<1> HIDE DEF row
<1>4. /\ r \in Local /\ r.buffer = w[t].buffer /\ r.own = w[t].own
      /\ r.saw = w[t].saw /\ r.kind = w[t].kind /\ r.paper = w[t].paper
      /\ r.rows = [w[t].rows EXCEPT ![c] = row] /\ r.now = w[t].now
  BY <1>0, <1>1, <1>2, <1>3 DEF Local
<1> HIDE DEF r
<1>5. \A x \in Concepts : /\ RowAt(w[t], x) # None => RowAt(r, x) # None
                          /\ RowAt(r, c) # None
  BY <1>0, <1>1, <1>2, <1>3, <1>4 DEF RowAt, Local
<1>6. Derivable(Unknown, SeenBy(r, c))
  <2>1. Differing(Unknown, Unknown) = {} /\ Unknown \in Derive({}) /\ {} \subseteq SeenBy(r, c)
    BY UnknownTyped, AlikeItself, DeriveNothing
  <2> QED
    BY <2>1 DEF Derivable
<1>7. DataOK(t, "pair", r)
  <2>1. PlaceOK(t, "pair", r)
    BY <1>0, <1>1, <1>2, <1>4, <1>5 DEF DataOK, PlaceOK, Ended
  <2>2. RowOK(t, "pair", r, c, row)
    BY <1>0, <1>1, <1>3, <1>6 DEF RowOK
  <2>3. RowsOK(t, "pair", r)
    BY <1>2, <1>4, <2>2, RowsChanged
  <2> QED
    BY <1>0, <1>1, <1>2, <1>4, <2>1, <2>3 DEF DataOK, CorrectionOK, DerivedOK, SettleOK
<1>8. \A x \in Concepts : x # c => r.rows[x] = w[t].rows[x]
  BY <1>0, <1>1, <1>4 DEF Local
<1>9. HoldsOK(t, r, rowLock')
  BY <1>0, <1>1, <1>8 DEF HoldsOK
<1>10. \A x \in Concepts : r.rows[x] # None /\ concepts[x] = None =>
                             w[t].rows[x] # None \/ ~ NameAwaited(t, x)
  BY <1>0, <1>1, <1>8
<1> QED
  BY <1>0, <1>1, <1>4, <1>7, <1>9, <1>10, StepData DEF Label

LEMMA OverrideData == ASSUME DataInv, IInv, NEW t \in Writers, Override(t) PROVE DataInv'
<1> DEFINE c == w[t].now.concept
           signal == w[t].now.signal
           row == [concepts[c] EXCEPT !.override = signal]
           r == [w[t] EXCEPT !.copy.override = signal, !.rows[c] = row]
<1>1. /\ pc[t] = "override" /\ UNCHANGED <<concepts, observations, clock>> /\ Goto(t, "pair")
      /\ w[t] \in Local /\ clock \in Nat /\ DataOK(t, "override", w[t])
  BY Here DEF Override
<1>2. /\ t \in Corrections /\ c \in Concepts /\ RowAt(w[t], c) # None
      /\ signal \in {"user_stated_known", "user_stated_unknown"}
      /\ \A x \in Concepts : w[t].rows[x] = None
  BY <1>1 DEF DataOK, PlaceOK, CorrectionOK, Ended, Subject
<1>3. /\ RowAt(w[t], c) = concepts[c] /\ concepts[c] # None
      /\ concepts[c] \in ConceptRow
      /\ RowOK(t, "override", w[t], c, concepts[c])
  BY <1>1, <1>2, RowAtOK DEF RowAt
<1>4. CASE RowFree(t, c) /\ Lock(t, c) /\ Set(t, r)
  <2>1. row \in ConceptRow /\ row # None /\ row.view = concepts[c].view /\ row.override = signal
    <3>1. row \in ConceptRow /\ row.view = concepts[c].view /\ row.override = signal
      BY <1>2, <1>3 DEF ConceptRow
    <3> QED
      BY <3>1, NoneIsNoRow
  <2> HIDE DEF row
  <2>2. /\ r \in Local /\ r.buffer = w[t].buffer /\ r.own = w[t].own
        /\ r.saw = w[t].saw /\ r.kind = w[t].kind /\ r.paper = w[t].paper
        /\ r.rows = [w[t].rows EXCEPT ![c] = row] /\ r.now = w[t].now
        /\ r.writing = w[t].writing /\ r.copy.view = w[t].copy.view
    BY <1>1, <1>2, <2>1 DEF Local, ConceptRow
  <2> HIDE DEF r
  <2>3. /\ \A x \in Concepts : RowAt(w[t], x) # None => RowAt(r, x) # None
        /\ \A x \in Concepts : RowAt(r, x).view = RowAt(w[t], x).view
    BY <1>1, <1>2, <1>3, <2>1, <2>2 DEF RowAt, Local
  <2>4. DataOK(t, "pair", r)
    <3>1. PlaceOK(t, "pair", r)
      BY <1>1, <1>2, <2>2, <2>3 DEF DataOK, PlaceOK, Ended
    <3>2. RowOK(t, "pair", r, c, row)
      BY <1>2, <1>3, <2>1, <2>2 DEF RowOK, SeenBy, Subject
    <3>3. RowsOK(t, "pair", r)
      BY <1>1, <1>2, <2>2, <3>2, RowsChanged DEF Subject
    <3>4. CorrectionOK(t, "pair", r)
      BY <1>1, <1>2, <2>2 DEF DataOK, CorrectionOK, Subject
    <3>5. SettleOK(t, "pair", r)
      BY <1>1, <1>2, <2>2, <2>3 DEF DataOK, SettleOK, Subject
    <3> QED
      BY <1>1, <2>2, <3>1, <3>3, <3>4, <3>5 DEF DataOK, DerivedOK
  <2> QED
    BY <1>1, <1>2, <1>4, <2>2, <2>4, FlushData DEF Label
<1>5. CASE UNCHANGED <<rowLock, w>>
  <2>1. RowsOK(t, "pair", w[t])
    BY <1>1, RowsKept DEF Subject
  <2>2. DataOK(t, "pair", w[t])
    BY <1>1, <1>2, <2>1
       DEF DataOK, PlaceOK, CorrectionOK, DerivedOK, SettleOK, Subject, Ended
  <2> QED
    BY <1>1, <1>5, <2>2, Here, QuietData DEF Label
<1> QED
  BY <1>4, <1>5 DEF Override

-----------------------------------------------------------------------------
(* The signal: its resolution, its row, what is derived after it. *)

LEMMA PairData == ASSUME DataInv, NEW t \in Writers, Pair(t) PROVE DataInv'
<1> DEFINE signal == w[t].now
           open == OpenStruggles(t, signal.concept)
           l == IF w[t].writing THEN "write" ELSE "agent"
<1>1. PICK resolves \in {None} \cup {Id(o) : o \in open} :
        Set(t, [w[t] EXCEPT !.buffer = Append(@, [signal EXCEPT !.resolves = resolves]),
                            !.now = NoSignal])
  BY DEF Pair
<1>2. /\ pc[t] = "pair" /\ Goto(t, l) /\ UNCHANGED <<concepts, observations, rowLock, clock>>
  BY DEF Pair
<1>3. w[t] \in Local /\ clock \in Nat /\ DataOK(t, "pair", w[t])
  BY <1>2, Here
<1>4. resolves \in {None} \cup (Writers \X Nat)
  <2>1. observations \cup w[t].own \in SUBSET Observation
    BY SeenTyped
  <2>2. \A o \in open : Id(o) \in Writers \X Nat
    BY <2>1 DEF OpenStruggles, About, Visible, Observation, Id
  <2> QED
    BY <1>1, <2>2
<1> DEFINE done == [signal EXCEPT !.resolves = resolves]
           buffer == Append(w[t].buffer, done)
           r == [w[t] EXCEPT !.buffer = buffer, !.now = NoSignal]
<1>5. signal \in Signal /\ w[t].buffer \in Seq(Signal)
  BY <1>3 DEF Local
<1>6. /\ done \in Signal /\ done.concept = signal.concept /\ done.signal = signal.signal
  BY <1>4, <1>5 DEF Signal
<1>7. Set(t, r)
  BY <1>1, <1>3 DEF Local
<1> HIDE DEF done, open, l, signal
<1>8. /\ buffer \in Seq(Signal) /\ Len(buffer) = Len(w[t].buffer) + 1
      /\ \A i \in DOMAIN buffer : buffer[i] = done \/ \E j \in DOMAIN w[t].buffer :
                                                     buffer[i] = w[t].buffer[j]
      /\ w[t].buffer = <<>> => Len(buffer) = 1 /\ buffer[1] = done
  BY <1>5, <1>6
<1> HIDE DEF buffer
<1>9. /\ r \in Local /\ r.buffer = buffer /\ r.own = w[t].own
      /\ r.saw = w[t].saw /\ r.kind = w[t].kind /\ r.paper = w[t].paper
      /\ r.rows = w[t].rows /\ r.now = NoSignal /\ r.copy = w[t].copy
      /\ r.derived = w[t].derived
  BY <1>3, <1>8, NoSignalIsSignal DEF Local
<1> HIDE DEF r
<1>10. /\ l \in {"write", "agent"}
       /\ t \in Corrections => l = "write" /\ w[t].buffer = <<>>
  BY <1>3 DEF l, DataOK, CorrectionOK
<1>11. t \in Corrections =>
         /\ Subject(l, r).concept = w[t].now.concept
         /\ Subject(l, r).signal = w[t].now.signal
  BY <1>6, <1>8, <1>9, <1>10 DEF Subject, signal
<1>12. DataOK(t, l, r)
  <2>1. signal.concept \in Concepts /\ RowAt(w[t], signal.concept) # None
    BY <1>3 DEF DataOK, PlaceOK, signal
  <2>2. ASSUME NEW i \in DOMAIN buffer
        PROVE  buffer[i].concept \in Concepts /\ RowAt(w[t], buffer[i].concept) # None
    <3>1. CASE buffer[i] = done
      BY <1>6, <2>1, <3>1
    <3>2. ASSUME NEW j \in DOMAIN w[t].buffer, buffer[i] = w[t].buffer[j]
          PROVE  buffer[i].concept \in Concepts /\ RowAt(w[t], buffer[i].concept) # None
      BY <1>3, <3>2 DEF DataOK, PlaceOK
    <3> QED
      BY <1>8, <3>1, <3>2
  <2>3. PlaceOK(t, l, r)
    BY <1>3, <1>9, <1>10, <2>2 DEF DataOK, PlaceOK, RowAt, Ended
  <2>4. RowsOK(t, l, r)
    BY <1>2, <1>9, <1>11, RowsKept DEF Subject
  <2>5. CorrectionOK(t, l, r)
    BY <1>3, <1>8, <1>9, <1>10, <1>11 DEF DataOK, CorrectionOK, Subject, Ended
  <2>6. SettleOK(t, l, r)
    <3>1. CASE t \notin Corrections
      BY <1>10, <3>1 DEF SettleOK
    <3>2. CASE t \in Corrections
      BY <1>3, <1>9, <1>10, <1>11, <3>2 DEF DataOK, SettleOK, Subject, RowAt
    <3> QED
      BY <3>1, <3>2
  <2> QED
    BY <1>3, <1>9, <1>10, <2>3, <2>4, <2>5, <2>6 DEF DataOK, DerivedOK
<1> QED
  BY <1>2, <1>3, <1>7, <1>9, <1>10, <1>12, QuietData DEF Label

LEMMA WriteSignalData ==
  ASSUME DataInv, IInv, NEW t \in Writers, WriteSignal(t) PROVE DataInv'
<1> DEFINE signal == Head(w[t].buffer)
           row == [by |-> t, no |-> Cardinality(w[t].own) + 1, at |-> w[t].at,
                   concept |-> signal.concept, signal |-> signal.signal,
                   style |-> signal.style, resolves |-> signal.resolves,
                   attempt |-> signal.attempt]
           l == IF w[t].kind = "correction" THEN "update" ELSE "load"
           own == w[t].own \cup {row}
           buffer == Tail(w[t].buffer)
           saw == IF t \in Corrections THEN w[t].saw ELSE About(signal.concept, observations)
<1>1. PICK d \in Derive(Evidence(t, row)) :
        Set(t, [w[t] EXCEPT !.own = @ \cup {row}, !.now = signal,
                            !.buffer = Tail(@), !.derived = d,
                            !.saw = IF t \in Corrections THEN @
                                    ELSE About(signal.concept, observations)])
  BY DEF WriteSignal
<1> DEFINE r == [w[t] EXCEPT !.own = own, !.now = signal, !.buffer = buffer,
                             !.derived = d, !.saw = saw]
<1>2. /\ pc[t] = "write" /\ Goto(t, l) /\ UNCHANGED <<concepts, observations, rowLock, clock>>
  BY DEF WriteSignal
<1>3. w[t] \in Local /\ clock \in Nat /\ DataOK(t, "write", w[t]) /\ w[t].buffer # <<>>
  BY <1>2, Here DEF IInv, LocalOK, ProgressOK
<1>4. Set(t, r)
  BY <1>1, <1>3 DEF Local
<1>5. /\ signal \in Signal /\ 1 \in DOMAIN w[t].buffer /\ signal = w[t].buffer[1]
      /\ buffer \in Seq(Signal) /\ Len(buffer) = Len(w[t].buffer) - 1
      /\ \A i \in DOMAIN buffer : i + 1 \in DOMAIN w[t].buffer
                                 /\ buffer[i] = w[t].buffer[i + 1]
  <2> HIDE DEF signal
  <2>1. w[t].buffer \in Seq(Signal)
    BY <1>3 DEF Local
  <2>2. DOMAIN w[t].buffer = 1..Len(w[t].buffer) /\ Len(w[t].buffer) \in Nat \ {0}
    BY <1>3, <2>1
  <2>3. Head(w[t].buffer) = w[t].buffer[1] /\ w[t].buffer[1] \in Signal
    BY <1>3, <2>1, <2>2
  <2>4. buffer \in Seq(Signal) /\ Len(buffer) = Len(w[t].buffer) - 1
    BY <1>3, <2>1
  <2>5. \A i \in 1..(Len(w[t].buffer) - 1) : buffer[i] = w[t].buffer[i + 1]
    BY <1>3, <2>1
  <2> QED
    BY <2>2, <2>3, <2>4, <2>5 DEF signal
<1>6. signal.concept \in Concepts /\ RowAt(w[t], signal.concept) # None
  BY <1>3, <1>5 DEF DataOK, PlaceOK
<1>7. row \in Observation /\ row.concept = signal.concept
  <2>1. Cardinality(w[t].own) + 1 \in Nat \ {0}
    BY <1>3, FS_CardinalityType DEF DataOK
  <2>2. w[t].at \in Nat /\ signal \in Signal
    BY <1>3, <1>5 DEF Local
  <2> HIDE DEF signal
  <2> QED
    BY <1>6, <2>1, <2>2 DEF Observation, Signal
<1>8. Evidence(t, row) = About(signal.concept, observations \cup own)
  BY DEF Evidence, Visible, About
<1>9. /\ l \in {"update", "load"}
      /\ l = "update" <=> t \in Corrections
  BY <1>3 DEF DataOK, PlaceOK, Ended
<1>10. row \in own /\ w[t].own \subseteq own /\ own \in SUBSET Observation /\ IsFiniteSet(own)
  <2>1. w[t].own \in SUBSET Observation /\ IsFiniteSet(w[t].own)
    BY <1>3 DEF Local, DataOK
  <2> HIDE DEF row
  <2> QED
    BY <1>7, <2>1, FS_AddElement
<1> HIDE DEF row, own, buffer, signal, l
<1>11. d \in View
  <2> DEFINE obs == observations \cup own
  <2>1. obs \in SUBSET Observation /\ IsFiniteSet(obs)
    BY <1>10, FS_Union DEF DataInv, TypeOK
  <2>2. d \in Derive(About(signal.concept, obs)) /\ About(signal.concept, obs) \subseteq obs
    BY <1>1, <1>8 DEF About
  <2> HIDE DEF obs
  <2> QED
    BY <2>1, <2>2, DerivedTyped
<1>12. saw \subseteq observations /\ saw \in SUBSET Observation
  <2>1. w[t].saw \subseteq observations /\ observations \in SUBSET Observation
    BY <1>3, SeenTyped DEF DataOK
  <2> QED
    BY <2>1 DEF About
<1>13. t \in Corrections => saw = w[t].saw
  OBVIOUS
<1> HIDE DEF saw
<1>14. /\ r \in Local /\ r.buffer = buffer /\ r.own = own
       /\ r.saw = saw /\ r.kind = w[t].kind /\ r.paper = w[t].paper
       /\ r.rows = w[t].rows /\ r.now = signal /\ r.copy = w[t].copy /\ r.derived = d
  BY <1>3, <1>5, <1>10, <1>11, <1>12 DEF Local
<1> HIDE DEF r
<1>15. Subject(l, r) = signal /\ Subject("write", w[t]) = signal
  BY <1>5, <1>9, <1>14 DEF Subject
<1>16. d \in Derive(SeenBy(r, signal.concept))
  BY <1>1, <1>8, <1>14 DEF SeenBy
<1>17. DataOK(t, l, r)
  <2>1. PlaceOK(t, l, r)
    <3>1. \A x \in Concepts : RowAt(r, x) = RowAt(w[t], x)
      BY <1>14 DEF RowAt
    <3>2. row \in About(signal.concept, r.own)
      BY <1>7, <1>10, <1>14 DEF About
    <3>3. \A i \in DOMAIN r.buffer :
            r.buffer[i].concept \in Concepts /\ RowAt(r, r.buffer[i].concept) # None
      BY <1>3, <1>5, <1>14, <3>1 DEF DataOK, PlaceOK
    <3> QED
      BY <1>3, <1>6, <1>9, <1>14, <3>1, <3>2, <3>3 DEF DataOK, PlaceOK, Ended
  <2>2. RowsOK(t, l, r)
    BY <1>2, <1>10, <1>14, <1>15, RowsKept
  <2>3. CorrectionOK(t, l, r)
    <3>1. ASSUME t \in Corrections PROVE r.buffer = <<>>
      BY <1>3, <1>5, <1>14, <3>1 DEF DataOK, CorrectionOK
    <3> QED
      BY <1>3, <1>9, <1>15, <3>1 DEF DataOK, CorrectionOK, Ended
  <2>4. SettleOK(t, l, r)
    <3>1. CASE t \notin Corrections
      BY <1>9, <1>14, <1>15, <1>16, <3>1 DEF SettleOK
    <3>2. CASE t \in Corrections
      <4>1. RowAt(r, signal.concept) = RowAt(w[t], signal.concept)
        BY <1>14 DEF RowAt
      <4> QED
        BY <1>3, <1>9, <1>13, <1>14, <1>15, <1>16, <3>2, <4>1 DEF DataOK, SettleOK
    <3> QED
      BY <3>1, <3>2
  <2>5. DerivedOK(l, r)
    BY <1>14, <1>16 DEF DerivedOK
  <2> QED
    BY <1>10, <1>12, <1>14, <2>1, <2>2, <2>3, <2>4, <2>5 DEF DataOK
<1> QED
  BY <1>2, <1>3, <1>4, <1>9, <1>14, <1>17, QuietData DEF Label

LEMMA LoadConceptData == ASSUME DataInv, NEW t \in Writers, LoadConcept(t) PROVE DataInv'
<1> DEFINE c == w[t].now.concept
           r == [w[t] EXCEPT !.copy = Row(t, c)]
<1>1. /\ pc[t] = "load" /\ UNCHANGED <<concepts, observations, rowLock, clock>>
      /\ Goto(t, "update") /\ Set(t, r)
  BY DEF LoadConcept
<1>2. w[t] \in Local /\ clock \in Nat /\ DataOK(t, "load", w[t])
  BY <1>1, Here
<1>3. /\ t \notin Corrections /\ c \in Concepts /\ Row(t, c) = RowAt(w[t], c)
      /\ RowAt(w[t], c) # None
  BY <1>1, <1>2, OnlyTurns DEF DataOK, PlaceOK, Row, RowAt
<1>4. RowAt(w[t], c) \in ConceptRow /\ RowAt(w[t], c).view \in View
  BY <1>3, RowAtOK DEF ConceptRow
<1>5. /\ r \in Local /\ r.buffer = w[t].buffer /\ r.own = w[t].own
      /\ r.saw = w[t].saw /\ r.kind = w[t].kind /\ r.paper = w[t].paper
      /\ r.rows = w[t].rows /\ r.now = w[t].now /\ r.derived = w[t].derived
      /\ r.copy = RowAt(w[t], c)
  BY <1>2, <1>3, <1>4 DEF Local
<1> HIDE DEF r
<1>6. DataOK(t, "update", r)
  <2>1. \A x \in Concepts : RowAt(r, x) = RowAt(w[t], x) /\ SeenBy(r, x) = SeenBy(w[t], x)
    BY <1>5 DEF RowAt, SeenBy
  <2>2. PlaceOK(t, "update", r)
    BY <1>2, <1>3, <1>5, <2>1 DEF DataOK, PlaceOK, Ended
  <2>3. RowsOK(t, "update", r)
    BY <1>3, <1>5, RowsKept
  <2>4. SettleOK(t, "update", r)
    BY <1>2, <1>3, <1>4, <1>5, <2>1, AlikeItself DEF DataOK, SettleOK, Subject
  <2>5. DerivedOK("update", r)
    BY <1>2, <1>3, <1>5, <2>1 DEF DataOK, DerivedOK
  <2> QED
    BY <1>2, <1>3, <1>5, <2>2, <2>3, <2>4, <2>5 DEF DataOK, CorrectionOK
<1> QED
  BY <1>1, <1>2, <1>5, <1>6, QuietData DEF Label

LEMMA RecomputeData == ASSUME DataInv, NEW t \in Writers, Recompute(t) PROVE DataInv'
<1> DEFINE c == w[t].now.concept
<1>1. PICK d \in Derive(About(c, Visible(t))) : Set(t, [w[t] EXCEPT !.derived = d, !.again = TRUE])
  BY DEF Recompute
<1> DEFINE r == [w[t] EXCEPT !.derived = d, !.again = TRUE]
<1>2. /\ pc[t] = "recompute" /\ UNCHANGED <<concepts, observations, rowLock, clock>>
      /\ Goto(t, "update") /\ Set(t, r)
  BY <1>1 DEF Recompute
<1>3. w[t] \in Local /\ clock \in Nat /\ DataOK(t, "recompute", w[t])
  BY <1>2, Here
<1>4. /\ t \in Corrections /\ c \in Concepts /\ d \in Derive(SeenBy(w[t], c))
  BY <1>1, <1>3 DEF DataOK, PlaceOK, SeenBy, Visible
<1>5. d \in View
  BY <1>4, SeenTyped, DerivedTyped
<1>6. /\ r \in Local /\ r.buffer = w[t].buffer /\ r.own = w[t].own
      /\ r.saw = w[t].saw /\ r.kind = w[t].kind /\ r.paper = w[t].paper
      /\ r.rows = w[t].rows /\ r.now = w[t].now /\ r.derived = d
      /\ r.copy = w[t].copy
  BY <1>3, <1>5 DEF Local
<1> HIDE DEF r
<1>7. DataOK(t, "update", r)
  <2>1. \A x \in Concepts : RowAt(r, x) = RowAt(w[t], x) /\ SeenBy(r, x) = SeenBy(w[t], x)
    BY <1>6 DEF RowAt, SeenBy
  <2>2. PlaceOK(t, "update", r)
    BY <1>3, <1>4, <1>6, <2>1 DEF DataOK, PlaceOK, Ended
  <2>3. RowsOK(t, "update", r)
    BY <1>2, <1>6, RowsKept DEF Subject
  <2>4. SettleOK(t, "update", r)
    BY <1>3, <1>4, <1>6, <2>1 DEF DataOK, SettleOK, Subject
  <2>5. DerivedOK("update", r)
    BY <1>4, <1>6, <2>1 DEF DerivedOK
  <2>6. CorrectionOK(t, "update", r)
    BY <1>3, <1>6 DEF DataOK, CorrectionOK, Subject, Ended
  <2> QED
    BY <1>3, <1>6, <2>2, <2>3, <2>4, <2>5, <2>6 DEF DataOK
<1> QED
  BY <1>2, <1>3, <1>6, <1>7, QuietData DEF Label

(* The column changes of an UPDATE, on a row its writer sees. *)
LEMMA UpdateConceptData ==
  ASSUME DataInv, NEW t \in Writers, UpdateConcept(t) PROVE DataInv'
<1> DEFINE c == w[t].now.concept
           old == RowAt(w[t], c)
           copy == CopyAfter(t)
           row == Flushed(t)
           clean == [w[t] EXCEPT !.copy = copy, !.derived = Unknown]
           dirty == [w[t] EXCEPT !.copy = copy, !.derived = Unknown, !.rows[c] = row]
           l == AfterUpdate(t)
<1>1. /\ pc[t] = "update" /\ UNCHANGED <<concepts, observations, clock>> /\ Goto(t, l)
      /\ \/ Dirty(t) = {} /\ Set(t, clean) /\ UNCHANGED rowLock
         \/ RowFree(t, c) /\ Lock(t, c) /\ Set(t, dirty)
  BY DEF UpdateConcept
<1>2. w[t] \in Local /\ clock \in Nat /\ DataOK(t, "update", w[t])
  BY <1>1, Here
<1>3. /\ c \in Concepts /\ Row(t, c) = old /\ old # None /\ About(c, w[t].own) # {}
  BY <1>2 DEF DataOK, PlaceOK, Row, RowAt
<1>4. old \in ConceptRow /\ old.view \in View /\ RowOK(t, "update", w[t], c, old)
  BY <1>1, <1>3, RowAtOK DEF ConceptRow
<1>5. /\ w[t].copy \in ConceptRow /\ w[t].copy.view \in View /\ w[t].derived \in View
  BY <1>2 DEF Local, ConceptRow
<1>6. /\ copy \in ConceptRow
      /\ t \in Corrections => copy.view = w[t].derived
  BY <1>5, FreshTyped, UnknownTyped DEF CopyAfter, ConceptRow, Local
<1> DEFINE view == Merged(old.view, w[t].copy.view, w[t].derived)
<1>7. view \in View
  BY <1>4, <1>5, MergedTyped
<1>8. Derivable(view, SeenBy(w[t], c))
  <2>1. PICK S \in SUBSET SeenBy(w[t], c) : w[t].derived \in Derive(S)
    BY <1>2 DEF DataOK, DerivedOK
  <2>2. Derivable(old.view, SeenBy(w[t], c))
    BY <1>4 DEF RowOK
  <2> QED
    BY <1>4, <1>5, <2>1, <2>2, SeenTyped, MergedDerivable
<1>9. Differing(old.view, w[t].copy.view) = {} => Differing(view, w[t].derived) = {}
  BY <1>4, <1>5, MergedSettles
<1>10. row = [old EXCEPT !.view = view]
  BY <1>3 DEF Flushed, Dirty, Merged
<1>11. Dirty(t) = {} => view = old.view
  <2>1. old.view = [col \in Column |-> old.view[col]]
    BY <1>4 DEF View, Column
  <2> QED
    BY <2>1 DEF Dirty, Merged
<1> HIDE DEF view
<1>12. row \in ConceptRow /\ row.view = view /\ row.override = old.override /\ row # None
  <2>1. row \in ConceptRow /\ row.view = view /\ row.override = old.override
    BY <1>4, <1>7, <1>10 DEF ConceptRow
  <2> QED
    BY <2>1, NoneIsNoRow
<1>13. /\ l \in {"write", "recompute", "ready"}
       /\ l = "write" <=> w[t].buffer # <<>>
       /\ l = "recompute" => t \in Corrections
       /\ t \in Corrections => w[t].buffer = <<>>
  BY <1>2 DEF AfterUpdate, DataOK, PlaceOK, CorrectionOK, Ended
<1> HIDE DEF row, copy, l, old
<1>14. ASSUME NEW r \in Local, r.buffer = w[t].buffer, r.own = w[t].own, r.saw = w[t].saw,
              r.kind = w[t].kind, r.paper = w[t].paper, r.now = w[t].now, r.copy = copy,
              RowsOK(t, l, r), RowAt(r, c).view = view,
              \A x \in Concepts : RowAt(w[t], x) # None => RowAt(r, x) # None
       PROVE  DataOK(t, l, r)
  <2>1. SeenBy(r, c) = SeenBy(w[t], c)
    BY <1>14 DEF SeenBy
  <2>2. PlaceOK(t, l, r)
    BY <1>2, <1>3, <1>13, <1>14 DEF DataOK, PlaceOK, Ended, old
  <2>3. CorrectionOK(t, l, r)
    BY <1>2, <1>13, <1>14 DEF DataOK, CorrectionOK, Subject, Ended
  <2>4. SettleOK(t, l, r)
    <3>1. CASE l = "write"
      BY <1>13, <3>1 DEF SettleOK
    <3>2. CASE l # "write"
      <4> SUFFICES ASSUME r.saw = About(c, observations)
                   PROVE  /\ Differing(view, w[t].derived) = {}
                          /\ w[t].derived \in Derive(SeenBy(w[t], c))
        BY <1>6, <1>13, <1>14, <2>1, <3>2 DEF SettleOK, Subject, Agrees
      <4> QED
        BY <1>2, <1>3, <1>9, <1>14 DEF DataOK, SettleOK, Subject, old
    <3> QED
      BY <3>1, <3>2
  <2> QED
    BY <1>2, <1>13, <1>14, <2>2, <2>3, <2>4 DEF DataOK, DerivedOK
<1>15. Subject("update", w[t]) = w[t].now /\ Unknown \in View
  BY UnknownTyped DEF Subject
<1>16. CASE Dirty(t) = {} /\ Set(t, clean) /\ UNCHANGED rowLock
  <2>1. /\ clean \in Local /\ clean.buffer = w[t].buffer /\ clean.own = w[t].own
        /\ clean.saw = w[t].saw /\ clean.kind = w[t].kind /\ clean.paper = w[t].paper
        /\ clean.rows = w[t].rows /\ clean.now = w[t].now /\ clean.copy = copy
    BY <1>2, <1>6, <1>15 DEF Local
  <2> HIDE DEF clean
  <2>2. t \in Corrections => Subject(l, clean) = w[t].now
    BY <1>13, <2>1 DEF Subject
  <2>3. RowsOK(t, l, clean)
    BY <1>1, <1>15, <2>1, <2>2, RowsKept
  <2>4. /\ RowAt(clean, c).view = view
        /\ \A x \in Concepts : RowAt(w[t], x) # None => RowAt(clean, x) # None
    BY <1>11, <1>16, <2>1 DEF RowAt, old
  <2>5. DataOK(t, l, clean)
    BY <1>14, <2>1, <2>3, <2>4
  <2> QED
    BY <1>1, <1>2, <1>13, <1>16, <2>1, <2>5, QuietData DEF Label
<1>17. CASE RowFree(t, c) /\ Lock(t, c) /\ Set(t, dirty)
  <2>1. /\ dirty \in Local /\ dirty.buffer = w[t].buffer /\ dirty.own = w[t].own
        /\ dirty.saw = w[t].saw /\ dirty.kind = w[t].kind /\ dirty.paper = w[t].paper
        /\ dirty.rows = [w[t].rows EXCEPT ![c] = row] /\ dirty.now = w[t].now
        /\ dirty.copy = copy
    BY <1>2, <1>3, <1>6, <1>12, <1>15 DEF Local
  <2> HIDE DEF dirty
  <2>2. t \in Corrections => Subject(l, dirty) = w[t].now
    BY <1>13, <2>1 DEF Subject
  <2>3. RowOK(t, l, dirty, c, row)
    BY <1>3, <1>4, <1>8, <1>12, <1>15, <2>1, <2>2 DEF RowOK, SeenBy
  <2>4. RowsOK(t, l, dirty)
    BY <1>1, <1>3, <1>15, <2>1, <2>2, <2>3, RowsChanged
  <2>5. /\ RowAt(dirty, c).view = view
        /\ \A x \in Concepts : RowAt(w[t], x) # None => RowAt(dirty, x) # None
    <3>1. w[t].rows \in [Concepts -> ConceptRow \cup {None}]
      BY <1>2 DEF Local
    <3> QED
      BY <1>3, <1>12, <2>1, <3>1 DEF RowAt
  <2>6. DataOK(t, l, dirty)
    BY <1>14, <2>1, <2>4, <2>5
  <2> QED
    BY <1>1, <1>2, <1>3, <1>13, <1>17, <2>1, <2>6, FlushData DEF Label, old
<1> QED
  BY <1>1, <1>16, <1>17

LEMMA RollbackData == ASSUME DataInv, NEW t \in Writers, Rollback(t) PROVE DataInv'
<1>1. /\ Set(t, Fresh) /\ Goto(t, "failed") /\ UNCHANGED <<concepts, observations, clock>>
      /\ rowLock' = [c \in Concepts |-> IF rowLock[c] = t THEN None ELSE rowLock[c]]
      /\ rowLock \in [Concepts -> Writers \cup {None}] /\ clock \in Nat
  BY Here DEF Rollback, Release
<1>2. DataOK(t, "failed", Fresh)
  <2>1. /\ PlaceOK(t, "failed", Fresh) /\ CorrectionOK(t, "failed", Fresh)
        /\ SettleOK(t, "failed", Fresh)
    BY FreshTyped DEF PlaceOK, CorrectionOK, SettleOK, Ended
  <2> QED
    BY <2>1, FreshTyped, EmptyHanded DEF Label, Ended
<1>3. HoldsOK(t, Fresh, rowLock')
  BY FreshTyped DEF HoldsOK
<1>4. rowLock' \in [Concepts -> Writers \cup {None}]
  BY <1>1
<1>5. /\ \A c \in Concepts : rowLock[c] \notin {None, t} => rowLock'[c] = rowLock[c]
      /\ \A c \in Concepts : Fresh.rows[c] = None
  BY <1>1, FreshTyped
<1>6. "failed" \in Label /\ Fresh \in Local
  BY FreshTyped DEF Label, Ended
<1> QED
  BY <1>1, <1>2, <1>3, <1>4, <1>5, <1>6, StepData

-----------------------------------------------------------------------------
(* The end of a transaction. *)

(* Nothing that a writer which is not done has seen is its own. *)
LEMMA OwnIsNew ==
  ASSUME IInv, NEW t \in Writers, pc[t] # "done"
  PROVE  w[t].own \cap observations = {}
  BY DEF IInv, LocalOK, ResolutionOK, CommittedOK

LEMMA CommitData == ASSUME DataInv, IInv, NEW t \in Writers, Commit(t) PROVE DataInv'
<1> DEFINE r == [Fresh EXCEPT !.kind = w[t].kind, !.seen = w[t].seen,
                              !.attempt = w[t].attempt]
<1>1. /\ pc[t] = "ready" /\ observations' = observations \cup w[t].own
      /\ concepts' = [c \in Concepts |-> RowAt(w[t], c)]
      /\ rowLock' = [c \in Concepts |-> IF rowLock[c] = t THEN None ELSE rowLock[c]]
      /\ Set(t, r) /\ Goto(t, "done") /\ UNCHANGED clock
  BY DEF Commit, Release, Row, RowAt
<1>2. /\ w[t] \in Local /\ DataOK(t, "ready", w[t]) /\ HoldsOK(t, w[t], rowLock)
      /\ rowLock \in [Concepts -> Writers \cup {None}]
  BY <1>1, Here
<1>3. /\ r \in Local /\ r.buffer = <<>> /\ r.own = {} /\ r.saw = {} /\ r.kind = w[t].kind
      /\ \A c \in Concepts : r.rows[c] = None
  BY <1>2, FreshTyped DEF Local
<1> HIDE DEF r
<1>4. /\ w' = [o \in Writers |-> IF o = t THEN r ELSE w[o]]
      /\ pc' = [o \in Writers |-> IF o = t THEN "done" ELSE pc[o]]
  BY <1>1 DEF Set, Goto, DataInv, TypeOK
<1>5. /\ w'[t] = r /\ pc'[t] = "done"
      /\ \A o \in Writers \ {t} : w'[o] = w[o] /\ pc'[o] = pc[o]
  BY <1>4
<1>6. \A c \in Concepts : concepts'[c] \in ConceptRow \cup {None}
  BY <1>1, RowAtOK
<1>7. /\ w[t].own \in SUBSET Observation /\ observations \in SUBSET Observation
      /\ IsFiniteSet(w[t].own) /\ IsFiniteSet(observations)
  BY <1>2, SeenTyped DEF DataOK, DataInv
<1>8. TypeOK'
  <2>1. concepts' \in [Concepts -> ConceptRow \cup {None}]
    BY <1>1, <1>6
  <2>2. observations' \subseteq Observation
    BY <1>1, <1>7
  <2>3. rowLock' \in [Concepts -> Writers \cup {None}]
    BY <1>1, <1>2
  <2>4. w' \in [Writers -> Local] /\ pc' \in [Writers -> Label]
    BY <1>3, <1>4 DEF DataInv, TypeOK, Label, Ended
  <2> QED
    BY <1>1, <2>1, <2>2, <2>3, <2>4 DEF DataInv, TypeOK
<1>9. IsFiniteSet(observations')
  BY <1>1, <1>7, FS_Union
<1>10. \A c \in Concepts : About(c, observations') = SeenBy(w[t], c)
  BY <1>1 DEF About, SeenBy
<1>11. ASSUME NEW c \in Concepts, concepts'[c] # None
       PROVE  Derivable(concepts'[c].view, About(c, observations'))
  BY <1>1, <1>10, <1>11, RowAtOK DEF RowOK
<1>12. ASSUME NEW o \in Writers, o # t, NEW c \in Concepts, w[o].rows[c] # None
       PROVE  concepts'[c] = concepts[c]
  <2>1. HoldsOK(o, w[o], rowLock)
    BY Here
  <2>2. w[t].rows[c] = None
    <3>1. CASE concepts[c] # None
      BY <1>2, <1>12, <2>1, <3>1 DEF HoldsOK
    <3>2. CASE concepts[c] = None
      BY <1>12, <3>2 DEF DataInv, Sole, Creates
    <3> QED
      BY <3>1, <3>2
  <2> QED
    BY <1>1, <2>2 DEF RowAt
<1>13. ASSUME NEW o \in Writers, o # t
       PROVE  DataOK(o, pc[o], w[o])'
  <2> DEFINE l == pc[o]
             q == w[o]
  <2>1. q \in Local /\ DataOK(o, l, q) /\ HoldsOK(o, q, rowLock)
    BY Here
  <2>2. pc'[o] = l /\ w'[o] = q
    BY <1>5, <1>13
  <2>3. \A c \in Concepts : q.rows[c] # None => concepts'[c] = concepts[c]
    BY <1>12, <1>13
  <2> HIDE DEF l, q
  <2>4. \A c : SeenBy(q, c) \subseteq SeenBy(q, c)'
    BY <1>1, <1>5, <1>13 DEF SeenBy, About, q
  <2>5. \A c \in Concepts : RowAt(q, c) # None => RowAt(q, c)' # None
    <3> SUFFICES ASSUME NEW c \in Concepts, RowAt(q, c) # None
                 PROVE  RowAt(q, c)' # None
      OBVIOUS
    <3>1. RowAt(q, c)' = IF q.rows[c] # None THEN q.rows[c] ELSE concepts'[c]
      BY <2>2 DEF RowAt, q
    <3> QED
      BY <1>1, <3>1 DEF RowAt
  <2>6. PlaceOK(o, l, q)'
    <3>1. PlaceOK(o, l, q) /\ l' = l /\ q' = q
      BY <2>1, <2>2 DEF DataOK, l, q
    <3> QED
      BY <2>5, <3>1 DEF PlaceOK
  <2>7. CorrectionOK(o, l, q)'
    <3>1. CorrectionOK(o, l, q) /\ l' = l /\ q' = q
      BY <2>1, <2>2 DEF DataOK, l, q
    <3> QED
      BY <3>1 DEF CorrectionOK, Subject
  <2>8. RowsOK(o, l, q)'
    <3>0. l' = l /\ q' = q
      BY <2>2 DEF l, q
    <3> SUFFICES ASSUME NEW c \in Concepts, q.rows[c] # None
                 PROVE  RowOK(o, l, q, c, q.rows[c])'
      BY <3>0 DEF RowsOK
    <3>1. RowOK(o, l, q, c, q.rows[c])
      BY <2>1 DEF DataOK, RowsOK
    <3>2. concepts'[c] = concepts[c]
      BY <2>3 DEF q
    <3>3. Derivable(q.rows[c].view, SeenBy(q, c)')
      BY <2>4, <3>1, DerivableMore DEF RowOK
    <3> QED
      BY <3>0, <3>1, <3>2, <3>3 DEF RowOK, Subject, Derivable
  <2>9. DerivedOK(l, q)'
    <3>1. DerivedOK(l, q) /\ l' = l /\ q' = q
      BY <2>1, <2>2 DEF DataOK, l, q
    <3> QED
      BY <2>4, <3>1 DEF DerivedOK
  <2>10. SettleOK(o, l, q)'
    <3>0. l' = l /\ q' = q /\ q.saw \subseteq observations
      BY <2>1, <2>2 DEF DataOK, l, q
    <3> DEFINE c == Subject(l, q).concept
    <3>1. CASE ~ (c \in Concepts /\ q.saw = About(c, observations'))
      BY <3>0, <3>1 DEF SettleOK, Subject
    <3>2. CASE c \in Concepts /\ q.saw = About(c, observations')
      <4>1. About(c, w[t].own) = {}
        <5>1. About(c, w[t].own) \subseteq observations
          BY <1>1, <3>0, <3>2 DEF About
        <5> QED
          BY <1>1, <5>1, OwnIsNew DEF About
      <4>2. About(c, observations') = About(c, observations)
        BY <1>1, <4>1 DEF About
      <4>3. SeenBy(q, c)' = SeenBy(q, c)
        BY <3>0, <4>2 DEF SeenBy, About, Subject
      <4>4. RowAt(q, c) # None => RowAt(q, c)'.view = RowAt(q, c).view
        <5>1. c' = c
          BY <3>0 DEF Subject
        <5>2. RowAt(q, c)' = IF q.rows[c] # None THEN q.rows[c] ELSE concepts'[c]
          BY <3>0, <5>1 DEF RowAt
        <5>3. concepts[c] # None => concepts'[c].view = concepts[c].view
          <6> SUFFICES ASSUME concepts[c] # None
                       PROVE  RowAt(w[t], c).view = concepts[c].view
            BY <1>1, <3>2
          <6>1. RowAt(w[t], c) # None
            BY DEF RowAt
          <6> QED
            BY <3>2, <4>1, <6>1, RowAtOK DEF RowOK
        <5> QED
          BY <5>2, <5>3 DEF RowAt
      <4>5. SettleOK(o, l, q) /\ PlaceOK(o, l, q)
        BY <2>1 DEF DataOK
      <4>6. /\ l \in {"load", "update", "override", "pair", "recompute"} => RowAt(q, c) # None
            /\ l = "ready" /\ q.own # {} => RowAt(q, c) # None
        BY <4>5 DEF PlaceOK, Subject
      <4>7. l = "write" /\ o \in Corrections => RowAt(q, c) # None
        <5>1. CorrectionOK(o, l, q)
          BY <2>1 DEF DataOK
        <5>2. l = "write" /\ o \in Corrections => 1 \in DOMAIN q.buffer
          BY <2>1, <5>1 DEF CorrectionOK, Local
        <5> QED
          BY <4>5, <5>2 DEF PlaceOK, Subject
      <4> QED
        BY <3>0, <3>2, <4>2, <4>3, <4>4, <4>5, <4>6, <4>7 DEF SettleOK, Subject
    <3> QED
      BY <3>1, <3>2
  <2>11. /\ q' = q /\ q.saw \subseteq observations'
         /\ IsFiniteSet(q.own)
    BY <1>1, <2>1, <2>2 DEF DataOK, q
  <2> QED
    BY <2>6, <2>7, <2>8, <2>9, <2>10, <2>11 DEF DataOK, l, q
<1>14. DataOK(t, pc[t], w[t])'
  <2>1. /\ pc'[t] = "done" /\ w'[t].buffer = <<>> /\ w'[t].own = {} /\ w'[t].saw = {}
        /\ \A c \in Concepts : w'[t].rows[c] = None
    BY <1>3, <1>5
  <2>2. PlaceOK(t, pc[t], w[t])' /\ CorrectionOK(t, pc[t], w[t])'
    BY <2>1 DEF PlaceOK, CorrectionOK, Ended
  <2>3. RowsOK(t, pc[t], w[t])' /\ DerivedOK(pc[t], w[t])'
    BY <2>1 DEF RowsOK, DerivedOK
  <2>4. SettleOK(t, pc[t], w[t])'
    BY <2>1 DEF SettleOK
  <2>5. IsFiniteSet({})
    BY FS_EmptySet
  <2> QED
    BY <2>1, <2>2, <2>3, <2>4, <2>5 DEF DataOK
<1>15. ASSUME NEW o \in Writers
       PROVE  HoldsOK(o, w[o], rowLock)'
  <2>1. CASE o = t
    BY <1>3, <1>5, <2>1 DEF HoldsOK
  <2>2. CASE o # t
    <3>1. HoldsOK(o, w[o], rowLock) /\ w'[o] = w[o]
      BY <1>5, <2>2, Here
    <3>2. \A c \in Concepts : w[o].rows[c] # None => concepts'[c] = concepts[c]
      BY <1>12, <2>2
    <3>3. \A c \in Concepts : rowLock[c] = o => rowLock'[c] = o
      BY <1>1, <2>2
    <3> QED
      BY <3>1, <3>2, <3>3 DEF HoldsOK
  <2> QED
    BY <2>1, <2>2
<1>16. Sole'
  <2>1. \A c \in Concepts : concepts'[c] = None => concepts[c] = None
    BY <1>1 DEF RowAt
  <2>2. \A o \in Writers, c \in Concepts : Creates(o, c)' => Creates(o, c) /\ o # t
    BY <1>3, <1>5, <2>1 DEF Creates
  <2> QED
    BY <2>2 DEF DataInv, Sole
<1> QED
  BY <1>8, <1>9, <1>11, <1>13, <1>14, <1>15, <1>16 DEF DataInv

LEMMA NextData == DataInv /\ IInv /\ [Next]_vars => DataInv'
<1> SUFFICES ASSUME DataInv, IInv, [Next]_vars
             PROVE  DataInv'
  OBVIOUS
<1>1. ASSUME NEW t \in Writers, Fail(t) \/ NameConflict(t) \/ DeadlockDetected(t)
      PROVE  DataInv'
  BY <1>1, RollbackData DEF Fail, NameConflict, DeadlockDetected
<1>2. ASSUME NEW t \in Writers, ServerStep(t)
      PROVE  DataInv'
  BY <1>1, <1>2, OverrideData, RecallData, GrowData, CreateConceptData, PairData,
     PersistData, WriteSignalData, LoadConceptData, UpdateConceptData, RecomputeData,
     CommitData DEF ServerStep, Prepare, Write
<1>3. ASSUME NEW t \in Writers, Step(t)
      PROVE  DataInv'
  BY <1>1, <1>2, <1>3, BeginTurnData, BeginGradingData, BeginCorrectionData, NoticeData,
     RetryData DEF Step
<1>4. CASE UNCHANGED vars
  <2>1. /\ w' = w /\ pc' = pc /\ concepts' = concepts /\ observations' = observations
        /\ rowLock' = rowLock /\ clock' = clock
    BY <1>4 DEF vars
  <2>2. TypeOK' /\ Sole'
    BY <2>1 DEF DataInv, TypeOK, Sole, Creates
  <2>3. ASSUME NEW t \in Writers
        PROVE  DataOK(t, pc[t], w[t])'
    <3>1. DataOK(t, pc'[t], w'[t])
      BY <2>1 DEF DataInv
    <3>2. PlaceOK(t, pc[t], w[t])' /\ DerivedOK(pc[t], w[t])'
      BY <2>1, <3>1 DEF DataOK, PlaceOK, RowAt, DerivedOK, SeenBy
    <3>3. RowsOK(t, pc[t], w[t])'
      BY <2>1, <3>1 DEF DataOK, RowsOK, RowOK, SeenBy, Subject
    <3>4. CorrectionOK(t, pc[t], w[t])'
      BY <3>1 DEF DataOK, CorrectionOK, Subject
    <3>5. SettleOK(t, pc[t], w[t])'
      BY <2>1, <3>1 DEF DataOK, SettleOK, Subject, RowAt, SeenBy
    <3> QED
      BY <2>1, <3>1, <3>2, <3>3, <3>4, <3>5 DEF DataOK
  <2>4. \A t \in Writers : HoldsOK(t, w[t], rowLock)'
    BY <2>1 DEF DataInv, HoldsOK
  <2> QED
    BY <2>1, <2>2, <2>3, <2>4 DEF DataInv
<1> QED
  BY <1>3, <1>4 DEF Next

LEMMA AlwaysData == Spec => [](IInv /\ DataInv)
<1>1. Init => DataInv
  BY InitData
<1>2. DataInv /\ IInv /\ [Next]_vars => DataInv'
  BY NextData
<1> QED
  BY <1>1, <1>2, AlwaysInv, PTL DEF Spec

-----------------------------------------------------------------------------
(* The theorems about what is derived. *)

(* Every column of a concept, every observation and every local variable has *)
(* its type, for any number of writers: no signal without a concept is ever  *)
(* written, and no row is loaded that is not there.                          *)
THEOREM MemoryTypes == Spec => []TypeOK
<1>1. DataInv => TypeOK
  BY DEF DataInv
<1> QED
  BY <1>1, AlwaysData, PTL

(* The weight of a concept's evidence is that of what the reader did. *)
LEMMA BackstopWeighsNothing ==
  ASSUME NEW obs \in SUBSET Observation, IsFiniteSet(obs), NEW S \in SUBSET obs
  PROVE  TotalWeight(S) <= TotalWeight({o \in obs : o.signal # "reinforcement"})
<1> DEFINE earned == {o \in obs : o.signal # "reinforcement"}
<1>1. /\ S \in SUBSET Observation /\ earned \in SUBSET Observation
      /\ IsFiniteSet(S) /\ IsFiniteSet(earned)
  BY FS_Subset
<1>2. \A x \in S \ earned : Weights[x] = 0
  BY DEF Weights, Weight, SOURCE_WEIGHT, SOURCE_FOR_SIGNAL
<1>3. Weights \in [Observation -> Nat]
  BY WeightsTyped
<1> HIDE DEF earned
<1>4. SumOf(Weights, S) <= SumOf(Weights, earned)
  BY <1>1, <1>2, <1>3, SumMonotone
<1> QED
  BY <1>1, <1>4, TotalsAreSums DEF earned

(* Each derived column stored for a concept is what `derive` gives for some   *)
(* of its committed observations, and the confidence is carried by evidence   *)
(* other than the backstop's rows: whatever turns and corrections interleave, *)
(* retry, fail or roll back, and whichever columns an UPDATE leaves out.      *)
THEOREM CacheEarned == Spec => []CacheIsEarned
<1>1. ASSUME DataInv, NEW c \in Concepts, concepts[c] # None
      PROVE  /\ \A col \in Column : \E S \in SUBSET About(c, observations) :
                   \E d \in Derive(S) : col \notin Differing(concepts[c].view, d)
             /\ About(c, observations) \in SUBSET Observation
             /\ IsFiniteSet(About(c, observations))
  <2>1. About(c, observations) \subseteq observations
    BY DEF About
  <2> QED
    BY <1>1, <2>1, FS_Subset DEF DataInv, TypeOK, Derivable
<1>2. DataInv => CacheIsCommittedEvidence
  <2> SUFFICES ASSUME DataInv, NEW c \in Concepts, concepts[c] # None, NEW col \in Column
               PROVE  \E d \in UNION {Derive(S) : S \in SUBSET About(c, observations)} :
                        col \in Column \ Differing(concepts[c].view, d)
    BY DEF CacheIsCommittedEvidence
  <2>1. PICK S \in SUBSET About(c, observations) :
          \E d \in Derive(S) : col \notin Differing(concepts[c].view, d)
    BY <1>1
  <2> QED
    BY <2>1
<1>3. DataInv => ConfidenceIsEarned
  <2> SUFFICES ASSUME DataInv, NEW c \in Concepts, concepts[c] # None
               PROVE  concepts[c].view.confidence <=
                        TotalWeight({o \in About(c, observations) : o.signal # "reinforcement"})
    BY DEF ConfidenceIsEarned
  <2>1. PICK S \in SUBSET About(c, observations) :
          \E d \in Derive(S) : "confidence" \notin Differing(concepts[c].view, d)
    BY <1>1 DEF Column
  <2>2. PICK d \in Derive(S) : "confidence" \notin Differing(concepts[c].view, d)
    BY <2>1
  <2>3. concepts[c].view.confidence = d.confidence
    BY <2>2 DEF Differing, Column
  <2>4. d.confidence = TotalWeight(S)
    <3>1. PICK style \in EffectiveStyles(S) :
            d = [score |-> [points |-> WeightedTarget(S), weight |-> TotalWeight(S)],
                 confidence |-> TotalWeight(S), count |-> Cardinality(S),
                 style |-> style, last |-> Max({0} \cup {o.at : o \in S})]
      BY Zenon DEF Derive
    <3> QED
      BY <3>1
  <2> QED
    BY <1>1, <2>3, <2>4, BackstopWeighsNothing
<1>4. DataInv => CacheIsEarned
  BY <1>2, <1>3 DEF CacheIsEarned
<1> QED
  BY <1>4, AlwaysData, PTL

(* Only Commit commits, and only it changes a row. *)
LEMMA OnlyCommit ==
  ASSUME DataInv, [Next]_vars
  PROVE  /\ \A t \in Writers : Commits(t) => Commit(t)
         /\ concepts' # concepts => \E t \in Writers : Commit(t)
<1>1. ASSUME NEW t \in Writers, Step(t), ~ Commit(t)
      PROVE  concepts' = concepts /\ (pc' = pc \/ \E l \in Label \ {"done"} : Goto(t, l))
  <2>1. CASE BeginTurn(t) \/ BeginGrading(t) \/ BeginCorrection(t) \/ Notice(t) \/ Retry(t)
    BY <2>1 DEF BeginTurn, BeginGrading, BeginCorrection, Notice, Retry, Label
  <2>2. CASE Override(t) \/ Prepare(t) \/ Persist(t)
    BY <2>2 DEF Override, Prepare, Recall, Grow, CreateConcept, Pair, Persist, Label
  <2>3. CASE Write(t)
    <3>1. AfterUpdate(t) \in Label \ {"done"}
      BY DEF AfterUpdate, Label, Ended
    <3> QED
      BY <2>3, <3>1 DEF Write, WriteSignal, LoadConcept, UpdateConcept, Recompute, Label
  <2>4. CASE Rollback(t)
    BY <2>4 DEF Rollback, Label, Ended
  <2> QED
    BY <1>1, <2>1, <2>2, <2>3, <2>4
       DEF Step, ServerStep, Fail, NameConflict, DeadlockDetected
<1>2. CASE UNCHANGED vars
  BY <1>2 DEF vars, Commits
<1>3. ASSUME NEW t \in Writers, Step(t)
      PROVE  /\ \A o \in Writers : Commits(o) => Commit(o)
             /\ concepts' # concepts => Commit(t)
  <2>1. pc \in [Writers -> Label]
    BY DEF DataInv, TypeOK
  <2>2. CASE Commit(t)
    <3>1. \A o \in Writers : Commits(o) => o = t
      BY <2>1, <2>2 DEF Commit, Goto, Commits
    <3> QED
      BY <2>2, <3>1
  <2>3. CASE ~ Commit(t)
    <3>1. concepts' = concepts /\ (pc' = pc \/ \E l \in Label \ {"done"} : Goto(t, l))
      BY <1>1, <1>3, <2>3
    <3>2. \A o \in Writers : ~ Commits(o)
      BY <2>1, <3>1 DEF Goto, Commits
    <3> QED
      BY <3>1, <3>2
  <2> QED
    BY <2>2, <2>3
<1> QED
  BY <1>2, <1>3 DEF Next

(* Staleness heals: a writer that no other commit about the concept disturbed *)
(* between its reading and its own commit leaves the row in agreement with    *)
(* all the evidence, however stale the row was when it began.                 *)
THEOREM Settles == Spec => UndisturbedWriterSettles
<1>1. ASSUME DataInv, IInv, [Next]_vars, NEW t \in Writers, Commits(t), w[t].own # {},
             w[t].saw = About(w[t].now.concept, observations)
      PROVE  Agrees(concepts'[w[t].now.concept].view, About(w[t].now.concept, observations'))
  <2> DEFINE c == w[t].now.concept
  <2>1. /\ pc[t] = "ready" /\ observations' = observations \cup w[t].own
        /\ concepts' = [x \in Concepts |-> RowAt(w[t], x)]
    BY <1>1, OnlyCommit DEF Commit, Row, RowAt
  <2>2. DataOK(t, "ready", w[t])
    BY <1>1, <2>1, Here
  <2>3. c \in Concepts
    BY <1>1, <2>2 DEF DataOK, PlaceOK
  <2>4. Agrees(RowAt(w[t], c).view, SeenBy(w[t], c))
    BY <1>1, <2>2, <2>3 DEF DataOK, SettleOK, Subject
  <2> QED
    BY <2>1, <2>3, <2>4 DEF SeenBy
<1>2. DataInv /\ IInv /\ [Next]_vars =>
        \A t \in Writers : LET c == w[t].now.concept IN
          Commits(t) /\ w[t].own # {} /\ w[t].saw = About(c, observations) =>
            Agrees(concepts'[c].view, About(c, observations'))
  BY <1>1
<1> QED
  BY <1>2, AlwaysData, PTL DEF Spec, UndisturbedWriterSettles

(* The override of a concept changes only in the commit of a correction of    *)
(* that concept, to the value the reader gave: no turn that loaded the row    *)
(* earlier writes an old override back.                                       *)
THEOREM OverrideTheReaders == Spec => OverrideIsTheReaders
<1>1. ASSUME DataInv, IInv, [Next]_vars, NEW c \in Concepts,
             concepts[c] # None, concepts'[c].override # concepts[c].override
      PROVE  \E t \in Corrections : /\ Commits(t)
                                    /\ w[t].now.concept = c
                                    /\ concepts'[c].override = w[t].now.signal
  <2>1. PICK t \in Writers : Commit(t)
    BY <1>1, OnlyCommit
  <2>2. /\ pc[t] = "ready" /\ pc'[t] = "done"
        /\ concepts' = [x \in Concepts |-> RowAt(w[t], x)]
    BY <1>1, <2>1 DEF Commit, Row, RowAt, Goto, DataInv, TypeOK
  <2>3. RowAt(w[t], c) # None
    BY <1>1 DEF RowAt
  <2>4. RowOK(t, "ready", w[t], c, RowAt(w[t], c))
    BY <1>1, <2>2, <2>3, RowAtOK
  <2>5. /\ t \in Corrections /\ w[t].now.concept = c
        /\ concepts'[c].override = w[t].now.signal
    BY <1>1, <2>2, <2>4 DEF RowOK, Subject
  <2> QED
    BY <2>2, <2>5 DEF Commits
<1>2. DataInv /\ IInv /\ [Next]_vars =>
        \A c \in Concepts :
          concepts[c] # None /\ concepts'[c].override # concepts[c].override =>
            \E t \in Corrections : /\ Commits(t)
                                   /\ w[t].now.concept = c
                                   /\ concepts'[c].override = w[t].now.signal
  BY <1>1
<1> QED
  BY <1>2, AlwaysData, PTL DEF Spec, OverrideIsTheReaders
=============================================================================
