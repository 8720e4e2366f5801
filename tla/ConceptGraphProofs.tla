------------------------- MODULE ConceptGraphProofs -------------------------
(***************************************************************************)
(* ConceptGraph for any papers, candidates and deliveries: its types, what *)
(* a merge and an edge rest on, and that an undisturbed job leaves its     *)
(* paper with every concept its candidates stand for.                      *)
(***************************************************************************)
EXTENDS ConceptGraph, TLAPS

Phase == {"idle", "recall", "commit", "retry", "done", "failed"}

Rows == [Names -> ConceptRow \cup {None}]

(* What the invariant does not constrain is given: the answers, the edges. *)
JobRecord(d, asked, links) ==
  [pc : Phase, tries : Nat, next : Nat \ {0}, after : SUBSET Deliveries,
   exact : [DOMAIN Work(d) -> Names \cup {None}],
   near : [DOMAIN Work(d) -> Names \cup {None}],
   verdict : [DOMAIN Work(d) -> Verdict],
   asked : {asked}, lost : BOOLEAN,
   copy : Rows, seen : Rows, own : Rows, resolved : [Spellings -> Names \cup {None}],
   links : {links}]

JobTyped(d, r) == r \in JobRecord(d, r.asked, r.links)

-----------------------------------------------------------------------------
(* The inductive invariant. *)

Same == [verdict |-> "same", type |-> None]

(* What MergesWereJudged asks of the concept a spelling was resolved to. *)
Justified(d, r, s) ==
  \/ r.resolved[s] = Norm[s]
  \/ \E k \in DOMAIN Work(d) : Work(d)[k].name = s /\ r.exact[k] = r.resolved[s]
  \/ <<s, r.resolved[s], Same>> \in r.asked

JudgedOK(d, r) ==
  /\ r.pc \in {"idle", "retry", "failed", "recall"} =>
       /\ \A i \in DOMAIN Work(d) : r.verdict[i].verdict # "same"
       /\ \A s \in Spellings : r.resolved[s] = None
  /\ \A i \in DOMAIN Work(d) :
       r.verdict[i].verdict = "same" => <<Work(d)[i].name, r.near[i], Same>> \in r.asked
  /\ \A s \in Spellings : r.resolved[s] # None => Justified(d, r, s)

(* Every row a candidate can be folded into has been loaded. *)
FoundOK(d, r) ==
  /\ \A i \in DOMAIN Work(d) :
       /\ r.exact[i] # None => r.copy[r.exact[i]] # None
       /\ r.near[i] # None => r.copy[r.near[i]] # None
  /\ r.lost => /\ r.pc = "commit" /\ r.next \in DOMAIN Work(d)
               /\ r.copy[Norm[Work(d)[r.next].name]] # None

(* The candidates behind `next` have their concept. *)
PassedOK(d, r) ==
  r.pc = "commit" =>
    \A i \in DOMAIN Work(d) : i < r.next => r.resolved[Work(d)[i].name] # None

Active(r) == r.pc \in {"recall", "commit"}

(* A copy is of a row that exists; it is the row as it was loaded until the *)
(* job writes it, and then names the papers the job's row names, unless the *)
(* committed row has changed since.                                         *)
CopyOK(r) ==
  Active(r) => \A n \in Names : r.copy[n] # None =>
    /\ r.own[n] # None \/ concepts[n] # None
    /\ r.own[n] = None => r.copy[n] = r.seen[n]
    /\ r.own[n] # None /\ concepts[n] = r.seen[n] => r.own[n].sources = r.copy[n].sources

(* The paper is named by the row its session has of each concept. *)
PaperOK(d, r) ==
  Active(r) => \A s \in Spellings : r.resolved[s] # None =>
    LET n == r.resolved[s]
    IN  \/ r.copy[n] # None /\ PaperOf[d] \in r.copy[n].sources
        \/ r.copy[n] = None /\ r.own[n] # None /\ PaperOf[d] \in r.own[n].sources

JobOK(d, r) ==
  /\ JudgedOK(d, r) /\ FoundOK(d, r) /\ PassedOK(d, r) /\ CopyOK(r) /\ PaperOK(d, r)

(* A row or a name is written by one transaction at a time. *)
OneWriter ==
  \A d, o \in Deliveries : d # o =>
    \A n \in Names : job[d].own[n] = None \/ job[o].own[n] = None

IInv ==
  /\ concepts \in Rows
  /\ DOMAIN job = Deliveries /\ job = [d \in Deliveries |-> job[d]]
  /\ \A d \in Deliveries : JobTyped(d, job[d]) /\ JobOK(d, job[d])
  /\ OneWriter

(* What makes the committed graph sound, on top of IInv: what the model *)
(* answered is kept by candidate, an edge that is about to be committed *)
(* joins concepts that the commit leaves there, and a job that is done  *)
(* has left the edges its answers ask for.                              *)

TriesOK(r) ==
  /\ r.tries \in 0..MaxAttempts
  /\ r.pc = "idle" => r.tries = 0
  /\ r.pc = "retry" => r.tries < MaxAttempts

AskedOK(d, r) ==
  /\ r.pc \in {"idle", "retry", "failed", "recall"} => r.asked = {}
  /\ \A i \in DOMAIN Work(d) : r.verdict[i].verdict = "related" => r.near[i] # None
  /\ \A a \in r.asked : \E i \in DOMAIN Work(d) :
       a = <<Work(d)[i].name, r.near[i], r.verdict[i]>>

Present(r, n) == r.own[n] # None \/ concepts[n] # None

LinksOK(r) ==
  \A e \in r.links : /\ e \in Edge /\ e[1] # e[2]
                     /\ Present(r, e[1]) /\ Present(r, e[2])

ConnectedOK(r) ==
  r.pc = "done" => \A a \in r.asked :
    a[3].verdict = "related" /\ r.resolved[a[1]] # a[2] =>
      <<r.resolved[a[1]], a[2], Typed(a[3])>> \in edges

GraphOK(d, r) == TriesOK(r) /\ AskedOK(d, r) /\ LinksOK(r) /\ ConnectedOK(r)

GInv ==
  /\ \A e \in edges : e \in Edge
  /\ EdgesJoinConcepts
  /\ \A d \in Deliveries : GraphOK(d, job[d])

-----------------------------------------------------------------------------
LEMMA WorkType ==
  ASSUME NEW d \in Deliveries
  PROVE  /\ Work(d) \in Seq([name : Spellings, aliases : SUBSET Spellings,
                             prerequisites : SUBSET Spellings])
         /\ PaperOf[d] \in Papers
         /\ DOMAIN Work(d) = 1..Len(Work(d)) /\ Len(Work(d)) \in Nat
         /\ \A i \in DOMAIN Work(d) : /\ Work(d)[i].name \in Spellings
                                      /\ Work(d)[i].aliases \subseteq Spellings
                                      /\ Work(d)[i].prerequisites \subseteq Spellings
<1> DEFINE S == [name : Spellings, aliases : SUBSET Spellings,
                 prerequisites : SUBSET Spellings]
<1>1. Work(d) \in Seq(S) /\ PaperOf[d] \in Papers
  BY GraphAssumption DEF Work
<1>2. DOMAIN Work(d) = 1..Len(Work(d)) /\ Len(Work(d)) \in Nat
  BY <1>1
<1>3. ASSUME NEW i \in DOMAIN Work(d)
      PROVE  Work(d)[i] \in S
  <2> HIDE DEF S
  <2> QED
    BY <1>1, <1>2
<1> QED
  BY <1>1, <1>2, <1>3

(* A record that nothing has happened in yet. *)
Blank(d, pc, tries, after) == [Fresh(d) EXCEPT !.pc = pc, !.tries = tries, !.after = after]

LEMMA FreshOK ==
  ASSUME NEW d \in Deliveries, NEW pc \in Phase \ {"commit", "done"},
         NEW tries \in Nat, NEW after \in SUBSET Deliveries,
         NEW r, r = Blank(d, pc, tries, after)
  PROVE  JobTyped(d, r) /\ JobOK(d, r) /\ \A n \in Names : r.own[n] = None
<1>1. /\ r.pc = pc /\ r.tries = tries /\ r.after = after /\ r.next = 1
      /\ r.exact = [i \in DOMAIN Work(d) |-> None]
      /\ r.near = [i \in DOMAIN Work(d) |-> None]
      /\ r.verdict = [i \in DOMAIN Work(d) |-> Distinct]
      /\ r.lost = FALSE /\ r.copy = NoRows /\ r.seen = NoRows /\ r.own = NoRows
      /\ r.resolved = [s \in Spellings |-> None]
  BY DEF Fresh, Blank
<1>2. Distinct \in Verdict /\ Distinct.verdict # "same"
  BY DEF Distinct, Verdict
<1>3. JobTyped(d, r)
  <2>1. NoRows \in Rows
    BY DEF NoRows, Rows
  <2>4. Fresh(d) \in JobRecord(d, {}, {})
    <3>1. /\ [i \in DOMAIN Work(d) |-> None] \in [DOMAIN Work(d) -> Names \cup {None}]
          /\ [i \in DOMAIN Work(d) |-> Distinct] \in [DOMAIN Work(d) -> Verdict]
          /\ [s \in Spellings |-> None] \in [Spellings -> Names \cup {None}]
      BY <1>2
    <3> QED
      BY <2>1, <3>1 DEF Fresh, JobRecord, Phase
  <2>5. r \in JobRecord(d, {}, {})
    BY <2>4 DEF JobRecord, Blank
  <2> QED
    BY <2>5 DEF JobTyped, JobRecord
<1>4. JobOK(d, r)
  <2> QED
    BY <1>1, <1>2 DEF JobOK, JudgedOK, FoundOK, PassedOK, CopyOK, PaperOK, Active, NoRows
<1>5. \A n \in Names : r.own[n] = None
  BY <1>1 DEF NoRows
<1> QED
  BY <1>3, <1>4, <1>5

LEMMA InitInv == Init => IInv
<1> SUFFICES ASSUME Init
             PROVE  IInv
  OBVIOUS
<1>1. ASSUME NEW d \in Deliveries
      PROVE  job[d] = Blank(d, "idle", 0, {})
  <2> DEFINE F == Fresh(d)
  <2>0. /\ F.pc = "idle" /\ F.tries = 0 /\ F.after = {}
        /\ F = [x \in DOMAIN F |-> F[x]]
    BY DEF Fresh
  <2>1. F = [F EXCEPT !.pc = "idle", !.tries = 0, !.after = {}]
    <3> HIDE DEF F
    <3> QED
      BY <2>0
  <2> QED
    BY <2>1 DEF Init, Blank
<1>2. ASSUME NEW d \in Deliveries
      PROVE  JobTyped(d, job[d]) /\ JobOK(d, job[d]) /\ \A n \in Names : job[d].own[n] = None
  <2>1. "idle" \in Phase \ {"commit", "done"} /\ 0 \in Nat
        /\ {} \in SUBSET Deliveries
    BY DEF Phase
  <2> QED
    BY <1>1, <2>1, FreshOK
<1>3. concepts \in Rows
  BY DEF Init, Rows, ConceptRow
<1> QED
  BY <1>2, <1>3 DEF Init, IInv, OneWriter

(* A step of one delivery that commits nothing. *)
LEMMA SetInv ==
  ASSUME IInv, NEW d \in Deliveries, NEW r, Set(d, r), UNCHANGED concepts,
         JobTyped(d, r), JobOK(d, r),
         \A n \in Names : r.own[n] # None =>
           job[d].own[n] # None \/ \A o \in Deliveries \ {d} : job[o].own[n] = None
  PROVE  IInv'
<1>1. /\ job' = [o \in Deliveries |-> IF o = d THEN r ELSE job[o]]
  BY DEF Set, IInv
<1>2. job'[d] = r /\ \A o \in Deliveries \ {d} : job'[o] = job[o]
  BY <1>1
<1>3. ASSUME NEW o \in Deliveries
      PROVE  JobTyped(o, job[o])' /\ JobOK(o, job[o])'
  <2>1. JobTyped(o, job'[o]) /\ JobOK(o, job'[o])
    BY <1>2 DEF IInv
  <2>2. CopyOK(job[o])'
    BY <2>1 DEF JobOK, CopyOK, Active
  <2> QED
    BY <2>1, <2>2 DEF JobTyped, JobOK, JudgedOK, Justified, FoundOK, PassedOK, PaperOK, Active
<1>4. OneWriter'
  BY <1>2 DEF IInv, OneWriter
<1> QED
  BY <1>1, <1>3, <1>4 DEF IInv

-----------------------------------------------------------------------------
LEMMA BeginInv == ASSUME IInv, NEW d \in Deliveries, Begin(d) PROVE IInv'
<1> DEFINE after == {e \in Deliveries : job[e].pc = "done"}
           r == Blank(d, "recall", job[d].tries + 1, after)
<1>1. "recall" \in Phase \ {"commit", "done"}
  BY DEF Phase
<1>2. job[d].tries + 1 \in Nat /\ after \in SUBSET Deliveries
  BY DEF IInv, JobTyped, JobRecord
<1>3. JobTyped(d, r) /\ JobOK(d, r) /\ \A n \in Names : r.own[n] = None
  <2> HIDE DEF after
  <2> QED
    BY <1>1, <1>2, FreshOK
<1>4. Set(d, r) /\ UNCHANGED concepts
  BY DEF Begin, Blank
<1> HIDE DEF r
<1> QED
  BY <1>3, <1>4, SetInv

LEMMA RollBackInv == ASSUME IInv, NEW d \in Deliveries, RollBack(d) PROVE IInv'
<1> DEFINE pc == IF job[d].tries < MaxAttempts THEN "retry" ELSE "failed"
           r == Blank(d, pc, job[d].tries, {})
<1>1. pc \in Phase \ {"commit", "done"}
  BY DEF Phase
<1>2. job[d].tries \in Nat /\ {} \in SUBSET Deliveries
  BY DEF IInv, JobTyped, JobRecord
<1>3. JobTyped(d, r) /\ JobOK(d, r) /\ \A n \in Names : r.own[n] = None
  <2> HIDE DEF pc
  <2> QED
    BY <1>1, <1>2, FreshOK
<1>4. Set(d, r) /\ UNCHANGED concepts
  <2> DEFINE F == Fresh(d)
             tries == job[d].tries
  <2>0. F.after = {} /\ F = [x \in DOMAIN F |-> F[x]]
    BY DEF Fresh
  <2>1. [F EXCEPT !.tries = tries, !.pc = pc]
          = [F EXCEPT !.pc = pc, !.tries = tries, !.after = {}]
    <3> HIDE DEF F, tries, pc
    <3> QED
      BY <2>0
  <2> QED
    BY <2>1 DEF RollBack, Blank
<1> HIDE DEF r
<1> QED
  BY <1>3, <1>4, SetInv

(* The row a session has is of the type of rows. *)
LEMMA LoadedTyped ==
  ASSUME IInv, NEW d \in Deliveries, NEW n \in Names, Row(d, n) # None
  PROVE  /\ Row(d, n) \in ConceptRow /\ Loaded(d, n) \in ConceptRow
         /\ Loaded(d, n) # None
<1>1. job[d].own[n] \in ConceptRow \cup {None} /\ job[d].copy[n] \in ConceptRow \cup {None}
      /\ concepts[n] \in ConceptRow \cup {None}
  BY DEF IInv, JobTyped, JobRecord, Rows
<1> QED
  BY <1>1, GraphAssumption DEF Row, Loaded

(* Loading a row keeps what is known of a job. *)
LEMMA LoadOK ==
  ASSUME IInv, NEW d \in Deliveries, NEW n \in Names, Row(d, n) # None,
         NEW q, JobTyped(d, q), q.copy = job[d].copy, q.seen = job[d].seen,
         q.own = job[d].own, CopyOK(q), PaperOK(d, q), Active(q),
         NEW r, r = Load(q, d, n)
  PROVE  /\ JobTyped(d, r) /\ CopyOK(r) /\ PaperOK(d, r)
         /\ r.copy[n] # None /\ \A m \in Names : q.copy[m] # None => r.copy[m] # None
         /\ r.pc = q.pc /\ r.next = q.next /\ r.exact = q.exact /\ r.near = q.near
         /\ r.verdict = q.verdict /\ r.asked = q.asked /\ r.lost = q.lost
         /\ r.resolved = q.resolved /\ r.own = q.own
<1> DEFINE L == Loaded(d, n)
           S == IF job[d].copy[n] # None THEN q.seen[n] ELSE concepts[n]
<1>1. L \in ConceptRow /\ L # None /\ S \in ConceptRow \cup {None}
  BY LoadedTyped DEF IInv, JobTyped, JobRecord, Rows
<1>2. r = [q EXCEPT !.copy = [q.copy EXCEPT ![n] = L], !.seen = [q.seen EXCEPT ![n] = S]]
  BY DEF Load, JobTyped, JobRecord
<1>3. L = IF q.copy[n] # None THEN q.copy[n]
          ELSE IF q.own[n] # None THEN q.own[n] ELSE concepts[n]
  BY DEF Loaded, Row
<1>4. S = IF q.copy[n] # None THEN q.seen[n] ELSE concepts[n]
  OBVIOUS
<1>5. q.own[n] # None \/ concepts[n] # None
  BY DEF Row
<1> HIDE DEF L, S
<1>6. /\ r.copy = [q.copy EXCEPT ![n] = L] /\ r.seen = [q.seen EXCEPT ![n] = S]
      /\ r.pc = q.pc /\ r.next = q.next /\ r.exact = q.exact /\ r.near = q.near
      /\ r.verdict = q.verdict /\ r.asked = q.asked /\ r.lost = q.lost
      /\ r.resolved = q.resolved /\ r.own = q.own /\ r.links = q.links
  BY <1>2 DEF JobTyped, JobRecord
<1>7. q.copy \in Rows /\ q.seen \in Rows
  BY DEF JobTyped, JobRecord
<1>8. r.copy \in Rows /\ r.seen \in Rows
  BY <1>1, <1>6, <1>7 DEF Rows
<1>9. JobTyped(d, r)
  <2>1. [q EXCEPT !.copy = r.copy, !.seen = r.seen] \in JobRecord(d, q.asked, q.links)
    BY <1>8 DEF JobTyped, JobRecord
  <2> QED
    BY <1>2, <1>6, <2>1 DEF JobTyped
<1>10. \A m \in Names : r.copy[m] = (IF m = n THEN L ELSE q.copy[m])
                      /\ r.seen[m] = (IF m = n THEN S ELSE q.seen[m])
  BY <1>6, <1>7 DEF Rows
<1>11. CopyOK(r)
  BY <1>1, <1>3, <1>4, <1>5, <1>6, <1>10 DEF CopyOK, Active
<1>12. PaperOK(d, r)
  <2>1. \A s \in Spellings : q.resolved[s] \in Names \cup {None}
    BY DEF JobTyped, JobRecord
  <2> QED
    BY <2>1, <1>1, <1>3, <1>6, <1>10 DEF PaperOK, Active
<1> QED
  BY <1>1, <1>6, <1>9, <1>10, <1>11, <1>12

-----------------------------------------------------------------------------
(* Pass 1 and pass 2. *)

(* Before the commit nothing is resolved, so what is found is free to change. *)
LEMMA RecallInv == ASSUME IInv, NEW d \in Deliveries, Recall(d) PROVE IInv'
<1> DEFINE i == job[d].next
           c == Work(d)[i]
           on == [job[d] EXCEPT !.next = i + 1]
<1>1. /\ JobTyped(d, job[d]) /\ JobOK(d, job[d]) /\ job[d].pc = "recall"
      /\ i \in DOMAIN Work(d) /\ i + 1 \in Nat \ {0} /\ UNCHANGED concepts
  <2>1. /\ JobTyped(d, job[d]) /\ JobOK(d, job[d]) /\ job[d].pc = "recall"
        /\ i <= Len(Work(d)) /\ UNCHANGED concepts
    BY DEF IInv, Recall
  <2>2. i \in Nat \ {0}
    BY <2>1 DEF JobTyped, JobRecord
  <2>3. DOMAIN Work(d) = 1..Len(Work(d)) /\ Len(Work(d)) \in Nat
    BY WorkType
  <2> QED
    BY <2>1, <2>2, <2>3
<1>2. /\ JobTyped(d, on) /\ on.pc = "recall" /\ on.copy = job[d].copy
      /\ on.seen = job[d].seen /\ on.own = job[d].own /\ on.lost = job[d].lost
      /\ on.resolved = job[d].resolved /\ on.verdict = job[d].verdict
      /\ on.asked = job[d].asked /\ on.exact = job[d].exact /\ on.near = job[d].near
  BY <1>1 DEF JobTyped, JobRecord
<1>3. ASSUME NEW n \in Names, Row(d, n) # None, NEW q,
             q \in {[on EXCEPT !.exact[i] = n], [on EXCEPT !.near[i] = n]},
             Set(d, Load(q, d, n))
      PROVE  IInv'
  <2> DEFINE r == Load(q, d, n)
  <2>0. /\ q = [on EXCEPT !.exact = q.exact, !.near = q.near]
        /\ q.exact = on.exact \/ q.exact = [on.exact EXCEPT ![i] = n]
        /\ q.near = on.near \/ q.near = [on.near EXCEPT ![i] = n]
    <3> HIDE DEF on
    <3> QED
      BY <1>2, <1>3 DEF JobTyped, JobRecord
  <2>1. /\ JobTyped(d, q) /\ q.pc = "recall" /\ q.copy = job[d].copy
        /\ q.seen = job[d].seen /\ q.own = job[d].own /\ q.lost = job[d].lost
        /\ q.resolved = job[d].resolved /\ q.verdict = job[d].verdict
        /\ q.asked = job[d].asked
    <3> HIDE DEF on
    <3>1. /\ q.exact \in [DOMAIN Work(d) -> Names \cup {None}]
          /\ q.near \in [DOMAIN Work(d) -> Names \cup {None}]
      BY <1>2, <1>3, <2>0 DEF JobTyped, JobRecord
    <3> QED
      BY <1>2, <2>0, <3>1 DEF JobTyped, JobRecord
  <2>2. CopyOK(q) /\ PaperOK(d, q) /\ Active(q)
    BY <1>1, <2>1 DEF JobOK, CopyOK, PaperOK, Active
  <2>3. /\ JobTyped(d, r) /\ CopyOK(r) /\ PaperOK(d, r)
        /\ r.copy[n] # None /\ \A m \in Names : q.copy[m] # None => r.copy[m] # None
        /\ r.pc = q.pc /\ r.next = q.next /\ r.exact = q.exact /\ r.near = q.near
        /\ r.verdict = q.verdict /\ r.asked = q.asked /\ r.lost = q.lost
        /\ r.resolved = q.resolved /\ r.own = q.own
    BY <1>3, <2>1, <2>2, LoadOK
  <2> HIDE DEF r, on
  <2>4. \A k \in DOMAIN Work(d) : /\ q.exact[k] \in {job[d].exact[k], n}
                                  /\ q.near[k] \in {job[d].near[k], n}
                                  /\ job[d].exact[k] \in Names \cup {None}
                                  /\ job[d].near[k] \in Names \cup {None}
    BY <1>1, <1>2, <2>0 DEF JobTyped, JobRecord
  <2>5. FoundOK(d, r)
    BY <1>1, <2>1, <2>3, <2>4 DEF JobOK, FoundOK
  <2>6. JudgedOK(d, r) /\ PassedOK(d, r)
    BY <1>1, <2>1, <2>3 DEF JobOK, JudgedOK, PassedOK
  <2>7. JobOK(d, r)
    BY <2>3, <2>5, <2>6 DEF JobOK
  <2>8. Set(d, r)
    BY <1>3 DEF r
  <2>9. r.own = job[d].own
    BY <2>1, <2>3
  <2> QED
    BY <1>1, <2>3, <2>7, <2>8, <2>9, SetInv
<1>4. ASSUME Set(d, on)
      PROVE  IInv'
  <2> HIDE DEF on
  <2>3. JobOK(d, on)
    BY <1>1, <1>2 DEF JobOK, JudgedOK, FoundOK, PassedOK, CopyOK, PaperOK, Active
  <2> QED
    BY <1>1, <1>2, <1>4, <2>3, SetInv
<1>5. \A n \in Matches(d, c) \cup Nearest(d, c) : n \in Names /\ Row(d, n) # None
  BY DEF Matches, Nearest
<1> QED
  BY <1>3, <1>4, <1>5 DEF Recall

LEMMA AdjudicateInv == ASSUME IInv, NEW d \in Deliveries, Adjudicate(d) PROVE IInv'
<1> DEFINE commit == [job[d] EXCEPT !.pc = "commit", !.next = 1]
           Judged(pairs, reply) ==
             [commit EXCEPT
               !.verdict = [i \in DOMAIN Work(d) |-> VerdictOf(pairs, reply, i)],
               !.asked = {<<Work(d)[pairs[k]].name, job[d].near[pairs[k]],
                           reply[k]>> : k \in DOMAIN pairs}]
<1>1. /\ JobTyped(d, job[d]) /\ JobOK(d, job[d]) /\ job[d].pc = "recall"
      /\ UNCHANGED concepts /\ DOMAIN Work(d) = 1..Len(Work(d))
  BY WorkType DEF IInv, Adjudicate
<1>2. ~ job[d].lost /\ \A s \in Spellings : job[d].resolved[s] = None
  BY <1>1 DEF JobOK, FoundOK, JudgedOK
<1>3. ASSUME Set(d, commit)
      PROVE  IInv'
  <2>1. /\ JobTyped(d, commit) /\ commit.pc = "commit" /\ commit.copy = job[d].copy
        /\ commit.seen = job[d].seen /\ commit.own = job[d].own
        /\ commit.lost = job[d].lost /\ commit.resolved = job[d].resolved
        /\ commit.verdict = job[d].verdict /\ commit.asked = job[d].asked
        /\ commit.exact = job[d].exact /\ commit.near = job[d].near /\ commit.next = 1
    <3>1. "commit" \in Phase /\ 1 \in Nat \ {0}
      BY DEF Phase
    <3> QED
      BY <1>1, <3>1 DEF JobTyped, JobRecord
  <2> HIDE DEF commit
  <2>2. JobOK(d, commit)
    BY <1>1, <1>2, <2>1 DEF JobOK, JudgedOK, FoundOK, PassedOK, CopyOK, PaperOK, Active
  <2> QED
    BY <1>1, <1>3, <2>1, <2>2, SetInv
<1>4. ASSUME NEW pairs \in Ambiguous(d), NEW reply \in [DOMAIN pairs -> Verdict],
             Set(d, Judged(pairs, reply))
      PROVE  IInv'
  <2> DEFINE r == Judged(pairs, reply)
             verdict == [i \in DOMAIN Work(d) |-> VerdictOf(pairs, reply, i)]
             asked == {<<Work(d)[pairs[k]].name, job[d].near[pairs[k]], reply[k]>> :
                        k \in DOMAIN pairs}
  <2>1. ASSUME NEW i \in DOMAIN Work(d)
        PROVE  /\ verdict[i] \in Verdict
               /\ verdict[i].verdict = "same" =>
                    <<Work(d)[i].name, job[d].near[i], Same>> \in asked
    <3>1. CASE \E k \in DOMAIN pairs : pairs[k] = i
      <4>1. PICK k \in DOMAIN pairs : pairs[k] = i /\ verdict[i] = reply[k]
        BY <3>1 DEF VerdictOf
      <4>2. reply[k] \in Verdict
        BY <4>1
      <4>3. reply[k].verdict = "same" => reply[k] = Same
        BY <4>2 DEF Verdict, Same
      <4>4. <<Work(d)[pairs[k]].name, job[d].near[pairs[k]], reply[k]>> \in asked
        BY <4>1
      <4> QED
        BY <4>1, <4>2, <4>3, <4>4
    <3>2. CASE ~ \E k \in DOMAIN pairs : pairs[k] = i
      BY <3>2 DEF VerdictOf, Distinct, Verdict
    <3> QED
      BY <3>1, <3>2
  <2>2. verdict \in [DOMAIN Work(d) -> Verdict]
    BY <2>1
  <2>3. r = [commit EXCEPT !.verdict = verdict, !.asked = asked]
    OBVIOUS
  <2> HIDE DEF verdict, asked, r
  <2>4. /\ r.pc = "commit" /\ r.copy = job[d].copy
        /\ r.seen = job[d].seen /\ r.own = job[d].own
        /\ r.lost = job[d].lost /\ r.resolved = job[d].resolved
        /\ r.verdict = verdict /\ r.asked = asked
        /\ r.exact = job[d].exact /\ r.near = job[d].near /\ r.next = 1
        /\ r.links = job[d].links
    BY <1>1, <2>3 DEF JobTyped, JobRecord
  <2>5. JobTyped(d, r)
    <3>1. "commit" \in Phase /\ 1 \in Nat \ {0}
      BY DEF Phase
    <3>2. job[d] \in JobRecord(d, job[d].asked, job[d].links)
      BY <1>1 DEF JobTyped
    <3>3. r \in JobRecord(d, asked, job[d].links)
      BY <2>2, <2>3, <3>1, <3>2 DEF JobRecord
    <3> QED
      BY <2>4, <3>3 DEF JobTyped
  <2>6. JobOK(d, r)
    BY <1>1, <1>2, <2>1, <2>4
       DEF JobOK, JudgedOK, FoundOK, PassedOK, CopyOK, PaperOK, Active
  <2>7. Set(d, r)
    BY <1>4 DEF r
  <2> QED
    BY <1>1, <2>4, <2>5, <2>6, <2>7, SetInv
<1> QED
  BY <1>3, <1>4 DEF Adjudicate

-----------------------------------------------------------------------------
(* Pass 3. *)

(* The candidate that is committed. *)
LEMMA CandidateType ==
  ASSUME IInv, NEW d \in Deliveries, Committing(d)
  PROVE  /\ job[d].next \in DOMAIN Work(d) /\ job[d].next \in Nat \ {0}
         /\ Candidate(d) = Work(d)[job[d].next]
         /\ Candidate(d).name \in Spellings /\ Candidate(d).aliases \subseteq Spellings
         /\ Norm[Candidate(d).name] \in Names
<1>1. job[d].next \in Nat \ {0}
  BY DEF IInv, JobTyped, JobRecord
<1>2. DOMAIN Work(d) = 1..Len(Work(d)) /\ Len(Work(d)) \in Nat
  BY WorkType
<1>3. job[d].next \in DOMAIN Work(d)
  BY <1>1, <1>2 DEF Committing
<1> QED
  BY <1>1, <1>3, WorkType, GraphAssumption DEF Candidate

(* Resolving the candidate once its row is written. *)
LEMMA ResolveOK ==
  ASSUME IInv, NEW d \in Deliveries, Committing(d), NEW n \in Names,
         NEW q, JobTyped(d, q), q.pc = "commit", q.next = job[d].next,
         JudgedOK(d, q), FoundOK(d, q), PassedOK(d, q), CopyOK(q), PaperOK(d, q),
         \/ n = Norm[Candidate(d).name]
         \/ q.exact[job[d].next] = n
         \/ <<Candidate(d).name, n, Same>> \in q.asked,
         \/ q.copy[n] # None /\ PaperOf[d] \in q.copy[n].sources
         \/ q.copy[n] = None /\ q.own[n] # None /\ PaperOf[d] \in q.own[n].sources,
         NEW r, r = Resolve(q, d, n)
  PROVE  JobTyped(d, r) /\ JobOK(d, r) /\ r.own = q.own
<1> DEFINE s == Candidate(d).name
           i == job[d].next
<1>1. s \in Spellings /\ i \in DOMAIN Work(d) /\ i \in Nat \ {0} /\ s = Work(d)[i].name
  BY CandidateType
<1>2. r = [q EXCEPT !.resolved = [q.resolved EXCEPT ![s] = n], !.next = i + 1, !.lost = FALSE]
  BY DEF Resolve, JobTyped, JobRecord
<1> HIDE DEF s, i
<1>3. /\ r.resolved = [q.resolved EXCEPT ![s] = n] /\ r.next = i + 1 /\ r.lost = FALSE
      /\ r.pc = "commit" /\ r.exact = q.exact /\ r.near = q.near /\ r.verdict = q.verdict
      /\ r.asked = q.asked /\ r.copy = q.copy /\ r.seen = q.seen /\ r.own = q.own
  BY <1>2 DEF JobTyped, JobRecord
<1>4. q.resolved \in [Spellings -> Names \cup {None}]
  BY DEF JobTyped, JobRecord
<1>5. \A t \in Spellings : r.resolved[t] = IF t = s THEN n ELSE q.resolved[t]
  BY <1>3, <1>4
<1>6. JobTyped(d, r)
  <2>1. r.resolved \in [Spellings -> Names \cup {None}] /\ i + 1 \in Nat \ {0}
    BY <1>1, <1>3, <1>4
  <2>2. q \in JobRecord(d, q.asked, q.links)
    BY DEF JobTyped
  <2>3. r \in JobRecord(d, q.asked, q.links) /\ r.links = q.links
    BY <1>2, <1>3, <2>1, <2>2 DEF JobRecord
  <2> QED
    BY <1>3, <2>3 DEF JobTyped
<1>7. JudgedOK(d, r)
  <2>1. Justified(d, r, s)
    <3>1. r.resolved[s] = n
      BY <1>1, <1>5
    <3> QED
      BY <1>1, <1>3, <3>1 DEF Justified, s, i
  <2>2. ASSUME NEW t \in Spellings, t # s, r.resolved[t] # None
        PROVE  Justified(d, r, t)
    BY <1>3, <1>5, <2>2 DEF JudgedOK, Justified
  <2> QED
    BY <1>3, <2>1, <2>2 DEF JudgedOK
<1>8. FoundOK(d, r)
  BY <1>3 DEF FoundOK
<1>9. PassedOK(d, r)
  <2>1. n # None
    BY GraphAssumption
  <2>2. \A j \in DOMAIN Work(d) : j \in Nat /\ Work(d)[j].name \in Spellings
    BY WorkType
  <2>3. \A j \in DOMAIN Work(d) : j < i + 1 => j < i \/ j = i
    BY <1>1, <2>2
  <2>4. \A j \in DOMAIN Work(d) : j < i => q.resolved[Work(d)[j].name] # None
    BY DEF PassedOK, i
  <2> QED
    BY <1>1, <1>3, <1>5, <2>1, <2>2, <2>3, <2>4 DEF PassedOK
<1>10. CopyOK(r) /\ PaperOK(d, r)
  BY <1>3, <1>5 DEF CopyOK, PaperOK, Active
<1> QED
  BY <1>3, <1>6, <1>7, <1>8, <1>9, <1>10 DEF JobOK

(* The row that a candidate is folded into, before it is written and after. *)
LEMMA FoldRow ==
  ASSUME IInv, NEW d \in Deliveries, Fold(d), NEW n, n = Existing(d)
  PROVE  /\ n \in Names /\ job[d].copy[n] # None
         /\ \/ n = Norm[Candidate(d).name]
            \/ job[d].exact[job[d].next] = n
            \/ <<Candidate(d).name, n, Same>> \in job[d].asked
         /\ Row(d, n) # None /\ job[d].copy[n] \in ConceptRow
         /\ Row(d, n) \in ConceptRow /\ Loaded(d, n) = job[d].copy[n]
         /\ Widened(d, n) \in ConceptRow /\ Widened(d, n) # None
         /\ PaperOf[d] \in Widened(d, n).sources
         /\ job[d].copy[n].sources \subseteq Widened(d, n).sources
         /\ Flushed(d, n) \in ConceptRow /\ Flushed(d, n) # None
         /\ Flushed(d, n).sources
              = IF Widened(d, n).sources # job[d].copy[n].sources
                THEN Widened(d, n).sources ELSE Row(d, n).sources
<1> DEFINE i == job[d].next
           copy == job[d].copy[n]
           wide == Widened(d, n)
           flushed == Flushed(d, n)
<1>1. /\ Committing(d) /\ n # None
      /\ JobTyped(d, job[d]) /\ JobOK(d, job[d]) /\ job[d].pc = "commit"
  BY DEF Fold, IInv, Committing
<1>2. /\ i \in DOMAIN Work(d) /\ Candidate(d) = Work(d)[i]
      /\ Candidate(d).name \in Spellings /\ Candidate(d).aliases \subseteq Spellings
      /\ Norm[Candidate(d).name] \in Names
  BY <1>1, CandidateType
<1>3. /\ n \in Names /\ job[d].copy[n] # None
      /\ \/ n = Norm[Candidate(d).name]
         \/ job[d].exact[i] = n
         \/ <<Candidate(d).name, n, Same>> \in job[d].asked
  <2>1. job[d].exact[i] \in Names \cup {None} /\ job[d].near[i] \in Names \cup {None}
    BY <1>1, <1>2 DEF JobTyped, JobRecord
  <2>2. FoundOK(d, job[d]) /\ JudgedOK(d, job[d])
    BY <1>1 DEF JobOK
  <2>3. CASE job[d].exact[i] # None
    BY <1>2, <2>1, <2>2, <2>3 DEF Existing, FoundOK
  <2>4. CASE job[d].exact[i] = None /\ job[d].verdict[i].verdict = "same"
    BY <1>1, <1>2, <2>1, <2>2, <2>4 DEF Existing, FoundOK, JudgedOK
  <2>5. CASE job[d].exact[i] = None /\ job[d].verdict[i].verdict # "same"
    BY <1>1, <1>2, <2>2, <2>5 DEF Existing, FoundOK
  <2> QED
    BY <2>3, <2>4, <2>5
<1>4. Row(d, n) # None /\ copy \in ConceptRow /\ Row(d, n) \in ConceptRow
      /\ Loaded(d, n) = copy
  <2>1. Row(d, n) # None
    BY <1>1, <1>3 DEF JobOK, CopyOK, Active, Row
  <2>2. Loaded(d, n) = copy
    BY <1>3 DEF Loaded
  <2> QED
    BY <1>3, <2>1, <2>2, LoadedTyped
<1>5. /\ wide \in ConceptRow /\ PaperOf[d] \in wide.sources
      /\ copy.sources \subseteq wide.sources
      /\ flushed \in ConceptRow
      /\ flushed.sources = IF wide.sources # copy.sources THEN wide.sources
                           ELSE Row(d, n).sources
  BY <1>2, <1>4, WorkType DEF Widened, Flushed, NewAliases, ConceptRow
<1>6. wide # None /\ flushed # None
  BY <1>5, GraphAssumption
<1> QED
  BY <1>3, <1>4, <1>5, <1>6

LEMMA FoldInv == ASSUME IInv, NEW d \in Deliveries, Fold(d) PROVE IInv'
<1> DEFINE n == Existing(d)
           i == job[d].next
           wide == Widened(d, n)
           flushed == Flushed(d, n)
           q == IF Dirty(d, n)
                THEN [job[d] EXCEPT !.own[n] = flushed, !.copy[n] = wide] ELSE job[d]
           r == Resolve(q, d, n)
<1>1. /\ Committing(d) /\ n # None /\ Free(d) /\ Set(d, r) /\ UNCHANGED concepts
      /\ JobTyped(d, job[d]) /\ JobOK(d, job[d]) /\ job[d].pc = "commit"
  BY DEF Fold, IInv, Committing
<1>2. /\ i \in DOMAIN Work(d) /\ Candidate(d) = Work(d)[i]
      /\ Candidate(d).name \in Spellings /\ Candidate(d).aliases \subseteq Spellings
      /\ Norm[Candidate(d).name] \in Names
  BY <1>1, CandidateType
<1>3. /\ n \in Names /\ job[d].copy[n] # None
      /\ \/ n = Norm[Candidate(d).name]
         \/ job[d].exact[i] = n
         \/ <<Candidate(d).name, n, Same>> \in job[d].asked
  BY FoldRow
<1> DEFINE copy == job[d].copy[n]
           own == job[d].own[n]
<1>4. Row(d, n) # None /\ copy \in ConceptRow /\ Row(d, n) \in ConceptRow
      /\ Loaded(d, n) = copy
  BY FoldRow
<1>5. /\ wide \in ConceptRow /\ PaperOf[d] \in wide.sources
      /\ copy.sources \subseteq wide.sources
      /\ flushed \in ConceptRow
      /\ flushed.sources = IF wide.sources # copy.sources THEN wide.sources
                           ELSE Row(d, n).sources
  BY FoldRow
<1>6. wide # None /\ flushed # None
  BY FoldRow
<1>7. ASSUME Dirty(d, n)
      PROVE  IInv'
  <2>1. q = [job[d] EXCEPT !.own = [job[d].own EXCEPT ![n] = flushed],
                           !.copy = [job[d].copy EXCEPT ![n] = wide]]
    BY <1>1, <1>7 DEF JobTyped, JobRecord
  <2>2. job[d].own \in Rows /\ job[d].copy \in Rows
    BY <1>1 DEF JobTyped, JobRecord
  <2>3. \A o \in Deliveries \ {d} : job[o].own[n] = None
    BY <1>1, <1>3, <1>7 DEF Free, Blocks, NeedsRow
  <2>4. concepts[n] = job[d].seen[n] => flushed.sources = wide.sources
    <3>1. /\ own = None => copy = job[d].seen[n]
          /\ own # None /\ concepts[n] = job[d].seen[n] => own.sources = copy.sources
      BY <1>1, <1>3 DEF JobOK, CopyOK, Active
    <3> QED
      BY <1>5, <3>1 DEF Row
  <2> HIDE DEF n, wide, flushed, q, i, r
  <2>5. /\ q.own = [job[d].own EXCEPT ![n] = flushed]
        /\ q.copy = [job[d].copy EXCEPT ![n] = wide]
        /\ q.pc = "commit" /\ q.next = job[d].next /\ q.exact = job[d].exact
        /\ q.near = job[d].near /\ q.verdict = job[d].verdict /\ q.asked = job[d].asked
        /\ q.seen = job[d].seen /\ q.lost = job[d].lost /\ q.resolved = job[d].resolved
        /\ q.links = job[d].links
    BY <1>1, <2>1 DEF JobTyped, JobRecord
  <2>6. \A m \in Names : /\ q.own[m] = IF m = n THEN flushed ELSE job[d].own[m]
                         /\ q.copy[m] = IF m = n THEN wide ELSE job[d].copy[m]
    BY <2>2, <2>5 DEF Rows
  <2>7. JobTyped(d, q)
    <3>1. q.own \in Rows /\ q.copy \in Rows
      BY <1>3, <1>5, <2>2, <2>5 DEF Rows
    <3>2. job[d] \in JobRecord(d, job[d].asked, job[d].links)
      BY <1>1 DEF JobTyped
    <3>3. q \in JobRecord(d, job[d].asked, job[d].links)
      BY <2>1, <2>5, <3>1, <3>2 DEF JobRecord
    <3> QED
      BY <2>5, <3>3 DEF JobTyped
  <2>8. JudgedOK(d, q) /\ PassedOK(d, q)
    BY <1>1, <2>5 DEF JobOK, JudgedOK, Justified, PassedOK
  <2>9. FoundOK(d, q)
    <3>1. \A k \in DOMAIN Work(d) : /\ job[d].exact[k] \in Names \cup {None}
                                    /\ job[d].near[k] \in Names \cup {None}
      BY <1>1 DEF JobTyped, JobRecord
    <3>2. \A k \in DOMAIN Work(d) : Norm[Work(d)[k].name] \in Names
      BY WorkType, GraphAssumption
    <3> QED
      BY <1>1, <1>6, <2>5, <2>6, <3>1, <3>2 DEF JobOK, FoundOK
  <2>10. CopyOK(q)
    BY <1>1, <1>6, <2>4, <2>5, <2>6 DEF JobOK, CopyOK, Active
  <2>11. PaperOK(d, q)
    <3>1. \A s \in Spellings : job[d].resolved[s] \in Names \cup {None}
      BY <1>1 DEF JobTyped, JobRecord
    <3> QED
      BY <1>1, <1>5, <1>6, <2>5, <2>6, <3>1 DEF JobOK, PaperOK, Active
  <2>12. q.copy[n] # None /\ PaperOf[d] \in q.copy[n].sources
    BY <1>3, <1>5, <1>6, <2>6
  <2>13. JobTyped(d, r) /\ JobOK(d, r) /\ r.own = q.own
    <3>1. \/ n = Norm[Candidate(d).name]
          \/ q.exact[job[d].next] = n
          \/ <<Candidate(d).name, n, Same>> \in q.asked
      BY <1>3, <2>5 DEF i
    <3>2. q.pc = "commit" /\ q.next = job[d].next /\ n \in Names /\ r = Resolve(q, d, n)
      BY <1>3, <2>5 DEF r
    <3> QED
      BY ONLY IInv, d \in Deliveries, <1>1, <2>7, <2>8, <2>9, <2>10, <2>11, <2>12, <3>1, <3>2,
         ResolveOK
  <2> QED
    BY <1>1, <2>3, <2>6, <2>13, SetInv
<1>8. ASSUME ~ Dirty(d, n)
      PROVE  IInv'
  <2>1. q = job[d] /\ PaperOf[d] \in copy.sources
    BY <1>4, <1>5, <1>8 DEF Dirty
  <2> HIDE DEF n, wide, flushed, q, i
  <2>2. JobTyped(d, r) /\ JobOK(d, r) /\ r.own = q.own
    BY <1>1, <1>3, <2>1, ResolveOK DEF JobOK, i
  <2> HIDE DEF r
  <2> QED
    BY <1>1, <2>1, <2>2, SetInv
<1> QED
  BY <1>7, <1>8

LEMMA CreateInv == ASSUME IInv, NEW d \in Deliveries, Create(d) PROVE IInv'
<1> DEFINE n == Norm[Candidate(d).name]
           row == [aliases |-> Candidate(d).aliases, sources |-> {PaperOf[d]}]
           q == [job[d] EXCEPT !.own[n] = row]
           r == Resolve(q, d, n)
<1>1. /\ Committing(d) /\ Free(d) /\ Row(d, n) = None /\ Set(d, r) /\ UNCHANGED concepts
      /\ JobTyped(d, job[d]) /\ JobOK(d, job[d]) /\ job[d].pc = "commit"
      /\ Existing(d) = None
  BY DEF Create, IInv, Committing
<1>2. n \in Names /\ row \in ConceptRow /\ row # None
  <2>1. n \in Names /\ row \in ConceptRow
    BY <1>1, CandidateType, WorkType DEF ConceptRow
  <2> QED
    BY <2>1, GraphAssumption
<1>3. /\ job[d].own[n] = None /\ concepts[n] = None /\ job[d].copy[n] = None
  <2>1. job[d].own[n] = None /\ concepts[n] = None
    BY <1>1 DEF Row
  <2> QED
    BY <1>1, <1>2, <2>1 DEF JobOK, CopyOK, Active
<1>4. \A o \in Deliveries \ {d} : job[o].own[n] = None
  BY <1>1, <1>2, <1>3 DEF Free, Blocks, NeedsName
<1>5. PaperOf[d] \in row.sources
  OBVIOUS
<1>6. q = [job[d] EXCEPT !.own = [job[d].own EXCEPT ![n] = row]]
  BY <1>1 DEF JobTyped, JobRecord
<1>7. job[d].own \in Rows
  BY <1>1 DEF JobTyped, JobRecord
<1> HIDE DEF row, q, r
<1>8. /\ q.own = [job[d].own EXCEPT ![n] = row] /\ q.copy = job[d].copy
      /\ q.pc = "commit" /\ q.next = job[d].next /\ q.exact = job[d].exact
      /\ q.near = job[d].near /\ q.verdict = job[d].verdict /\ q.asked = job[d].asked
      /\ q.seen = job[d].seen /\ q.lost = job[d].lost /\ q.resolved = job[d].resolved
      /\ q.links = job[d].links
  BY <1>1, <1>6 DEF JobTyped, JobRecord
<1>9. \A m \in Names : q.own[m] = IF m = n THEN row ELSE job[d].own[m]
  BY <1>7, <1>8 DEF Rows
<1>10. JobTyped(d, q)
  <2>1. q.own \in Rows
    BY <1>2, <1>7, <1>8 DEF Rows
  <2>2. job[d] \in JobRecord(d, job[d].asked, job[d].links)
    BY <1>1 DEF JobTyped
  <2>3. q \in JobRecord(d, job[d].asked, job[d].links)
    BY <1>6, <1>8, <2>1, <2>2 DEF JobRecord
  <2> QED
    BY <1>8, <2>3 DEF JobTyped
<1>11. JudgedOK(d, q) /\ FoundOK(d, q) /\ PassedOK(d, q)
  BY <1>1, <1>8 DEF JobOK, JudgedOK, Justified, FoundOK, PassedOK
<1>12. CopyOK(q)
  BY <1>1, <1>2, <1>3, <1>8, <1>9 DEF JobOK, CopyOK, Active
<1>13. PaperOK(d, q)
  <2>1. \A s \in Spellings : job[d].resolved[s] \in Names \cup {None}
    BY <1>1 DEF JobTyped, JobRecord
  <2> QED
    BY <1>1, <1>2, <1>5, <1>8, <1>9, <2>1 DEF JobOK, PaperOK, Active
<1>14. JobTyped(d, r) /\ JobOK(d, r) /\ r.own = q.own
  <2>1. q.copy[n] = None /\ q.own[n] # None /\ PaperOf[d] \in q.own[n].sources
    BY <1>2, <1>3, <1>5, <1>8, <1>9
  <2>2. r = Resolve(q, d, n) /\ q.pc = "commit" /\ q.next = job[d].next
    BY <1>8 DEF r
  <2> QED
    BY ONLY IInv, d \in Deliveries, <1>1, <1>2, <1>10, <1>11, <1>12, <1>13, <2>1, <2>2,
       ResolveOK
<1> QED
  BY <1>1, <1>4, <1>9, <1>14, SetInv

LEMMA LoseInv == ASSUME IInv, NEW d \in Deliveries, Lose(d) PROVE IInv'
<1> DEFINE n == Norm[Candidate(d).name]
           q == [job[d] EXCEPT !.lost = TRUE]
           r == Load(q, d, n)
<1>1. /\ Committing(d) /\ Row(d, n) # None /\ Set(d, r) /\ UNCHANGED concepts
      /\ JobTyped(d, job[d]) /\ JobOK(d, job[d]) /\ job[d].pc = "commit"
  BY DEF Lose, IInv, Committing
<1>2. /\ n \in Names /\ job[d].next \in DOMAIN Work(d)
      /\ n = Norm[Work(d)[job[d].next].name]
  BY <1>1, CandidateType
<1>3. /\ JobTyped(d, q) /\ q.copy = job[d].copy
      /\ q.pc = "commit" /\ q.next = job[d].next /\ q.exact = job[d].exact
      /\ q.near = job[d].near /\ q.verdict = job[d].verdict /\ q.asked = job[d].asked
      /\ q.seen = job[d].seen /\ q.resolved = job[d].resolved /\ q.own = job[d].own
  BY <1>1 DEF JobTyped, JobRecord
<1> HIDE DEF q
<1>4. CopyOK(q) /\ PaperOK(d, q) /\ Active(q)
  BY <1>1, <1>3 DEF JobOK, CopyOK, PaperOK, Active
<1>5. /\ JobTyped(d, r) /\ CopyOK(r) /\ PaperOK(d, r)
      /\ r.copy[n] # None /\ \A m \in Names : q.copy[m] # None => r.copy[m] # None
      /\ r.pc = q.pc /\ r.next = q.next /\ r.exact = q.exact /\ r.near = q.near
      /\ r.verdict = q.verdict /\ r.asked = q.asked /\ r.lost = q.lost
      /\ r.resolved = q.resolved /\ r.own = q.own
  <2>1. r = Load(q, d, n)
    OBVIOUS
  <2>2. n \in Names /\ Row(d, n) # None
    BY <1>1, <1>2
  <2> HIDE DEF n, r
  <2> QED
    BY <1>3, <1>4, <2>1, <2>2, LoadOK
<1> HIDE DEF r
<1>6. FoundOK(d, r)
  <2>1. \A k \in DOMAIN Work(d) : /\ job[d].exact[k] \in Names \cup {None}
                                  /\ job[d].near[k] \in Names \cup {None}
    BY <1>1 DEF JobTyped, JobRecord
  <2> QED
    BY <1>1, <1>2, <1>3, <1>5, <2>1 DEF JobOK, FoundOK
<1>7. JudgedOK(d, r) /\ PassedOK(d, r)
  BY <1>1, <1>3, <1>5 DEF JobOK, JudgedOK, Justified, PassedOK
<1>8. JobOK(d, r)
  BY <1>5, <1>6, <1>7 DEF JobOK
<1> QED
  BY <1>1, <1>3, <1>5, <1>8, SetInv

-----------------------------------------------------------------------------
(* Edges and the end. *)

LEMMA LinkInv == ASSUME IInv, NEW d \in Deliveries, Link(d) PROVE IInv'
<1>0. PICK e \in Due(d) : Set(d, [job[d] EXCEPT !.links = @ \cup {e}])
  BY DEF Link
<1> DEFINE links == job[d].links \cup {e}
           r == [job[d] EXCEPT !.links = links]
<1>1. /\ JobTyped(d, job[d]) /\ JobOK(d, job[d]) /\ job[d].pc = "commit"
      /\ UNCHANGED concepts /\ Set(d, r)
  BY <1>0 DEF Link, Linking, IInv, JobTyped, JobRecord
<1> HIDE DEF links
<1>2. /\ JobTyped(d, r) /\ r.pc = job[d].pc /\ r.copy = job[d].copy
      /\ r.exact = job[d].exact /\ r.next = job[d].next /\ r.lost = job[d].lost
      /\ r.near = job[d].near /\ r.verdict = job[d].verdict /\ r.asked = job[d].asked
      /\ r.seen = job[d].seen /\ r.resolved = job[d].resolved /\ r.own = job[d].own
  BY <1>1 DEF JobTyped, JobRecord
<1> HIDE DEF r
<1>3. JobOK(d, r)
  BY <1>1, <1>2
     DEF JobOK, JudgedOK, Justified, FoundOK, PassedOK, CopyOK, PaperOK, Active
<1> QED
  BY <1>1, <1>2, <1>3, SetInv

(* The candidates are behind a job that links. *)
LEMMA Ended ==
  ASSUME IInv, NEW d \in Deliveries, Linking(d)
  PROVE  /\ job[d].pc = "commit" /\ job[d].next \notin DOMAIN Work(d)
         /\ \A i \in DOMAIN Work(d) : job[d].resolved[Work(d)[i].name] \in Names
<1>1. /\ job[d].pc = "commit" /\ job[d].next > Len(Work(d)) /\ job[d].next \in Nat
      /\ PassedOK(d, job[d])
      /\ \A s \in Spellings : job[d].resolved[s] \in Names \cup {None}
  BY DEF Linking, IInv, JobTyped, JobOK, JobRecord
<1>2. /\ DOMAIN Work(d) = 1..Len(Work(d)) /\ Len(Work(d)) \in Nat
      /\ \A i \in DOMAIN Work(d) : Work(d)[i].name \in Spellings
  BY WorkType
<1> QED
  BY <1>1, <1>2 DEF PassedOK

(* A commit changes no row that another job has written. *)
LEMMA CommitInv == ASSUME IInv, NEW d \in Deliveries, Commit(d) PROVE IInv'
<1> DEFINE r == [job[d] EXCEPT !.pc = "done", !.own = NoRows, !.links = {}]
<1>1. /\ JobTyped(d, job[d]) /\ JobOK(d, job[d]) /\ job[d].pc = "commit" /\ Linking(d)
      /\ concepts' = [n \in Names |-> Row(d, n)]
      /\ job' = [job EXCEPT ![d] = r]
  BY DEF Commit, Linking, IInv, Set
<1>2. concepts' \in Rows
  <2>1. \A n \in Names : Row(d, n) \in ConceptRow \cup {None}
    BY <1>1 DEF IInv, Row, Rows, JobTyped, JobRecord
  <2> QED
    BY <1>1, <2>1 DEF Rows
<1>3. NoRows \in Rows /\ \A n \in Names : NoRows[n] = None
  BY DEF NoRows, Rows
<1>4. /\ JobTyped(d, r) /\ r.pc = "done" /\ r.copy = job[d].copy /\ r.own = NoRows
      /\ r.exact = job[d].exact /\ r.next = job[d].next /\ r.lost = job[d].lost
      /\ r.near = job[d].near /\ r.verdict = job[d].verdict /\ r.asked = job[d].asked
      /\ r.seen = job[d].seen /\ r.resolved = job[d].resolved
  BY <1>1, <1>3 DEF JobTyped, JobRecord, Phase
<1> HIDE DEF r
<1>5. /\ job' = [o \in Deliveries |-> IF o = d THEN r ELSE job[o]]
  BY <1>1 DEF IInv
<1>6. job'[d] = r /\ \A o \in Deliveries \ {d} : job'[o] = job[o]
  BY <1>5
<1>7. JobTyped(d, job[d])' /\ JobOK(d, job[d])'
  <2>1. CopyOK(job[d])'
    BY <1>4, <1>6 DEF CopyOK, Active
  <2>2. JudgedOK(d, r) /\ FoundOK(d, r) /\ PassedOK(d, r) /\ PaperOK(d, r)
    <3>1. ~ job[d].lost
      BY <1>1, Ended DEF JobOK, FoundOK
    <3> QED
      BY <1>1, <1>4, <3>1
         DEF JobOK, JudgedOK, Justified, FoundOK, PassedOK, PaperOK, Active
  <2> QED
    BY <1>4, <1>6, <2>1, <2>2
       DEF JobTyped, JobOK, JudgedOK, Justified, FoundOK, PassedOK, PaperOK, Active
<1>8. ASSUME NEW o \in Deliveries \ {d}
      PROVE  JobTyped(o, job[o])' /\ JobOK(o, job[o])'
  <2>1. job'[o] = job[o] /\ JobTyped(o, job[o]) /\ JobOK(o, job[o])
    BY <1>6 DEF IInv
  <2>2. \A n \in Names : job[o].own[n] # None => concepts'[n] = concepts[n]
    BY <1>1 DEF IInv, OneWriter, Row
  <2>3. \A n \in Names : concepts[n] # None => concepts'[n] # None
    BY <1>1 DEF Row
  <2>4. CopyOK(job[o])'
    BY <2>1, <2>2, <2>3 DEF JobOK, CopyOK, Active
  <2> QED
    BY <2>1, <2>4
       DEF JobTyped, JobOK, JudgedOK, Justified, FoundOK, PassedOK, PaperOK, Active
<1>9. OneWriter'
  BY <1>3, <1>4, <1>6 DEF IInv, OneWriter
<1> QED
  BY <1>2, <1>5, <1>7, <1>8, <1>9 DEF IInv

LEMMA NextInv == IInv /\ [Next]_vars => IInv'
<1> SUFFICES ASSUME IInv, [Next]_vars
             PROVE  IInv'
  OBVIOUS
<1>1. ASSUME NEW d \in Deliveries, ServerStep(d)
      PROVE  IInv'
  BY <1>1, RecallInv, AdjudicateInv, FoldInv, CreateInv, LoseInv, LinkInv,
     CommitInv, RollBackInv DEF ServerStep, DeadlockDetected
<1>2. ASSUME NEW d \in Deliveries, Begin(d) \/ Fail(d)
      PROVE  IInv'
  BY <1>2, BeginInv, RollBackInv DEF Fail
<1>3. CASE UNCHANGED vars
  BY <1>3 DEF IInv, JobTyped, JobOK, JudgedOK, Justified, FoundOK, PassedOK, CopyOK, PaperOK,
     Active, OneWriter, vars
<1> QED
  BY <1>1, <1>2, <1>3 DEF Next

LEMMA AlwaysInv == Spec => []IInv
  BY InitInv, NextInv, PTL DEF Spec

-----------------------------------------------------------------------------
(* The graph: the answers, the links and the committed edges. *)

LEMMA SetGraph ==
  ASSUME IInv, GInv, NEW d \in Deliveries, NEW r, Set(d, r),
         UNCHANGED <<concepts, edges>>, GraphOK(d, r)
  PROVE  GInv'
<1>1. job' = [o \in Deliveries |-> IF o = d THEN r ELSE job[o]]
  BY DEF Set, IInv
<1>2. ASSUME NEW o \in Deliveries
      PROVE  GraphOK(o, job[o])'
  <2>1. GraphOK(o, job'[o])
    BY <1>1 DEF GInv
  <2> QED
    BY <2>1 DEF GraphOK, TriesOK, AskedOK, LinksOK, Present, ConnectedOK
<1> QED
  BY <1>2 DEF GInv, EdgesJoinConcepts

LEMMA BlankGraph ==
  ASSUME NEW d \in Deliveries, NEW pc \in {"idle", "retry", "failed", "recall"},
         NEW tries \in 0..MaxAttempts, NEW after, NEW r, r = Blank(d, pc, tries, after),
         pc = "idle" => tries = 0, pc = "retry" => tries < MaxAttempts
  PROVE  GraphOK(d, r)
<1>1. /\ r.pc = pc /\ r.tries = tries /\ r.asked = {} /\ r.links = {}
      /\ r.verdict = [i \in DOMAIN Work(d) |-> Distinct]
  BY DEF Fresh, Blank
<1>2. Distinct.verdict # "related"
  BY DEF Distinct
<1> QED
  BY <1>1, <1>2 DEF GraphOK, TriesOK, AskedOK, LinksOK, ConnectedOK

LEMMA InitGraph == Init => GInv
<1> SUFFICES ASSUME Init, NEW d \in Deliveries
             PROVE  GraphOK(d, job[d])
  BY DEF Init, GInv, EdgesJoinConcepts
<1>1. /\ job[d].pc = "idle" /\ job[d].tries = 0 /\ job[d].asked = {} /\ job[d].links = {}
      /\ job[d].verdict = [i \in DOMAIN Work(d) |-> Distinct]
  BY DEF Init, Fresh
<1>2. Distinct.verdict # "related" /\ MaxAttempts \in Nat
  BY GraphAssumption DEF Distinct
<1> QED
  BY <1>1, <1>2 DEF GraphOK, TriesOK, AskedOK, LinksOK, ConnectedOK

LEMMA BeginGraph == ASSUME IInv, GInv, NEW d \in Deliveries, Begin(d) PROVE GInv'
<1> DEFINE after == {e \in Deliveries : job[e].pc = "done"}
           tries == job[d].tries + 1
           r == Blank(d, "recall", tries, after)
<1>1. tries \in 0..MaxAttempts
  BY GraphAssumption DEF Begin, GInv, GraphOK, TriesOK
<1>2. Set(d, r) /\ UNCHANGED <<concepts, edges>>
  BY DEF Begin, Blank
<1> HIDE DEF tries, after
<1>3. GraphOK(d, r)
  BY <1>1, BlankGraph
<1> HIDE DEF r
<1> QED
  BY <1>2, <1>3, SetGraph

LEMMA RollBackGraph ==
  ASSUME IInv, GInv, NEW d \in Deliveries, RollBack(d) PROVE GInv'
<1> DEFINE pc == IF job[d].tries < MaxAttempts THEN "retry" ELSE "failed"
           tries == job[d].tries
           r == Blank(d, pc, tries, {})
<1>1. /\ tries \in 0..MaxAttempts /\ pc \in {"retry", "failed"}
      /\ pc = "retry" => tries < MaxAttempts
  BY DEF GInv, GraphOK, TriesOK
<1>2. Set(d, r) /\ UNCHANGED <<concepts, edges>>
  <2> DEFINE F == Fresh(d)
  <2>0. F.after = {} /\ F = [x \in DOMAIN F |-> F[x]]
    BY DEF Fresh
  <2>1. [F EXCEPT !.tries = tries, !.pc = pc]
          = [F EXCEPT !.pc = pc, !.tries = tries, !.after = {}]
    <3> HIDE DEF F, tries, pc
    <3> QED
      BY <2>0
  <2> QED
    BY <2>1 DEF RollBack, Blank
<1> HIDE DEF tries, pc
<1>3. GraphOK(d, r)
  BY <1>1, BlankGraph
<1> HIDE DEF r
<1> QED
  BY <1>2, <1>3, SetGraph

(* A step that leaves the answers and the links alone and gives up no row. *)
LEMMA KeptGraph ==
  ASSUME IInv, GInv, NEW d \in Deliveries, NEW r, Set(d, r),
         UNCHANGED <<concepts, edges>>, Active(r),
         r.pc = job[d].pc, r.tries = job[d].tries, r.asked = job[d].asked,
         r.verdict = job[d].verdict, r.links = job[d].links,
         \A i \in DOMAIN Work(d) :
           r.near[i] = job[d].near[i] \/ (r.pc = "recall" /\ r.near[i] # None),
         \A n \in Names : job[d].own[n] # None => r.own[n] # None
  PROVE  GInv'
<1>1. GraphOK(d, job[d])
  BY DEF GInv
<1>2. TriesOK(r) /\ ConnectedOK(r)
  BY <1>1 DEF GraphOK, TriesOK, ConnectedOK, Active
<1>3. AskedOK(d, r)
  BY <1>1 DEF GraphOK, AskedOK, Active
<1>4. LinksOK(r)
  BY <1>1 DEF GraphOK, LinksOK, Present, Edge
<1>5. GraphOK(d, r)
  BY <1>2, <1>3, <1>4 DEF GraphOK
<1> QED
  BY <1>5, SetGraph

JobFields == {"pc", "tries", "asked", "verdict", "links", "near", "own"}

(* Loading a row and resolving a candidate change none of these. *)
LEMMA KeptFields ==
  ASSUME NEW d, NEW n, NEW q, JobFields \subseteq DOMAIN q
  PROVE  \A x \in JobFields : Load(q, d, n)[x] = q[x] /\ Resolve(q, d, n)[x] = q[x]
  BY DEF JobFields, Load, Resolve

LEMMA HasFields ==
  ASSUME IInv, NEW d \in Deliveries
  PROVE  /\ JobFields \subseteq DOMAIN job[d]
         /\ job[d].near \in [DOMAIN Work(d) -> Names \cup {None}] /\ job[d].own \in Rows
  BY DEF IInv, JobTyped, JobRecord, JobFields

LEMMA RecallGraph == ASSUME IInv, GInv, NEW d \in Deliveries, Recall(d) PROVE GInv'
<1> DEFINE i == job[d].next
           c == Work(d)[i]
           on == [job[d] EXCEPT !.next = i + 1]
<1>1. job[d].pc = "recall" /\ UNCHANGED <<concepts, edges>>
  BY DEF Recall
<1>2. \A x \in JobFields : on[x] = job[d][x] /\ x \in DOMAIN on
  BY HasFields DEF JobFields
<1>3. ASSUME NEW r, Set(d, r), \A x \in JobFields \ {"near"} : r[x] = on[x],
             \A k \in DOMAIN Work(d) : r.near[k] = on.near[k] \/ r.near[k] # None
      PROVE  GInv'
  <2> HIDE DEF on
  <2>1. \A x \in JobFields \ {"near"} : r[x] = job[d][x]
    BY <1>2, <1>3
  <2>2. on.near = job[d].near
    BY <1>2 DEF JobFields
  <2>3. r.pc = job[d].pc /\ r.tries = job[d].tries /\ r.asked = job[d].asked
        /\ r.verdict = job[d].verdict /\ r.links = job[d].links /\ r.own = job[d].own
    BY <2>1 DEF JobFields
  <2>4. Active(r) /\ r.pc = "recall"
    BY <1>1, <2>3 DEF Active
  <2>5. \A k \in DOMAIN Work(d) :
          r.near[k] = job[d].near[k] \/ (r.pc = "recall" /\ r.near[k] # None)
    BY <1>3, <2>2, <2>4
  <2>6. \A n \in Names : job[d].own[n] # None => r.own[n] # None
    BY <2>3
  <2> QED
    BY ONLY IInv, GInv, d \in Deliveries, <1>1, <1>3, <2>3, <2>4, <2>5, <2>6, KeptGraph
<1>4. ASSUME NEW n \in Names, NEW q,
             q \in {[on EXCEPT !.exact[i] = n], [on EXCEPT !.near[i] = n]},
             Set(d, Load(q, d, n))
      PROVE  GInv'
  <2> DEFINE r == Load(q, d, n)
  <2>0. on.near \in [DOMAIN Work(d) -> Names \cup {None}] /\ n # None
    BY <1>2, HasFields, GraphAssumption DEF JobFields
  <2> HIDE DEF on
  <2>1. /\ \A x \in JobFields \ {"near"} : q[x] = on[x]
        /\ JobFields \subseteq DOMAIN q
    BY <1>2, <1>4 DEF JobFields
  <2>2. \A k \in DOMAIN Work(d) : q.near[k] = on.near[k] \/ q.near[k] # None
    BY <1>2, <1>4, <2>0 DEF JobFields
  <2>3. \A x \in JobFields : r[x] = q[x]
    BY <2>1, KeptFields
  <2>4. r.near = q.near
    BY <2>3 DEF JobFields
  <2> HIDE DEF r
  <2> QED
    BY <1>3, <1>4, <2>1, <2>2, <2>3, <2>4 DEF r
<1>5. ASSUME Set(d, on)
      PROVE  GInv'
  <2> HIDE DEF on
  <2> QED
    BY <1>3, <1>5
<1>6. \A n \in Matches(d, c) \cup Nearest(d, c) : n \in Names
  BY DEF Matches, Nearest
<1> QED
  BY <1>4, <1>5, <1>6 DEF Recall

LEMMA AdjudicateGraph ==
  ASSUME IInv, GInv, NEW d \in Deliveries, Adjudicate(d) PROVE GInv'
<1> DEFINE commit == [job[d] EXCEPT !.pc = "commit", !.next = 1]
           verdict(pairs, reply) == [i \in DOMAIN Work(d) |-> VerdictOf(pairs, reply, i)]
           asked(pairs, reply) ==
             {<<Work(d)[pairs[k]].name, job[d].near[pairs[k]], reply[k]>> :
                k \in DOMAIN pairs}
           Judged(pairs, reply) ==
             [commit EXCEPT !.verdict = verdict(pairs, reply), !.asked = asked(pairs, reply)]
<1>1. job[d].pc = "recall" /\ GraphOK(d, job[d]) /\ UNCHANGED <<concepts, edges>>
  BY DEF Adjudicate, GInv
<1>2. /\ commit.pc = "commit" /\ JobFields \subseteq DOMAIN commit
      /\ \A x \in JobFields \ {"pc"} : commit[x] = job[d][x]
  BY HasFields DEF JobFields
<1>3. /\ commit.tries = job[d].tries /\ commit.asked = job[d].asked
      /\ commit.verdict = job[d].verdict /\ commit.links = job[d].links
      /\ commit.near = job[d].near /\ commit.own = job[d].own
  BY <1>2 DEF JobFields
<1>4. ASSUME Set(d, commit)
      PROVE  GInv'
  <2> HIDE DEF commit
  <2>1. GraphOK(d, commit)
    BY <1>1, <1>2, <1>3
       DEF GraphOK, TriesOK, AskedOK, LinksOK, Present, ConnectedOK
  <2> QED
    BY <1>1, <1>4, <2>1, SetGraph
<1>5. ASSUME NEW pairs \in Ambiguous(d), NEW reply \in [DOMAIN pairs -> Verdict],
             Set(d, Judged(pairs, reply))
      PROVE  GInv'
  <2> DEFINE r == Judged(pairs, reply)
             v == verdict(pairs, reply)
             a == asked(pairs, reply)
             ambiguous == {i \in DOMAIN Work(d) : job[d].near[i] # None}
  <2>1. /\ \A k \in DOMAIN pairs : pairs[k] \in ambiguous
        /\ \A k, l \in DOMAIN pairs : pairs[k] = pairs[l] => k = l
    BY DEF Ambiguous, SetToSeqs, IsInjective
  <2>2. ASSUME NEW k \in DOMAIN pairs
        PROVE  v[pairs[k]] = reply[k]
    <3>1. pairs[k] \in DOMAIN Work(d)
      BY <2>1
    <3>2. (CHOOSE l \in DOMAIN pairs : pairs[l] = pairs[k]) = k
      BY <2>1
    <3> QED
      BY <3>1, <2>1 DEF VerdictOf
  <2>3. \A i \in DOMAIN Work(d) : v[i].verdict = "related" => job[d].near[i] # None
    <3> SUFFICES ASSUME NEW i \in DOMAIN Work(d), v[i].verdict = "related"
                 PROVE  job[d].near[i] # None
      OBVIOUS
    <3>1. \E k \in DOMAIN pairs : pairs[k] = i
      BY DEF VerdictOf, Distinct
    <3> QED
      BY <2>1, <3>1
  <2>4. \A x \in a : \E i \in DOMAIN Work(d) :
          x = <<Work(d)[i].name, job[d].near[i], v[i]>>
    <3> SUFFICES ASSUME NEW k \in DOMAIN pairs
                 PROVE  \E i \in DOMAIN Work(d) :
                          <<Work(d)[pairs[k]].name, job[d].near[pairs[k]], reply[k]>>
                            = <<Work(d)[i].name, job[d].near[i], v[i]>>
      OBVIOUS
    <3> HIDE DEF v
    <3> QED
      BY <2>1, <2>2
  <2>5. r = [commit EXCEPT !.verdict = v, !.asked = a]
    OBVIOUS
  <2> HIDE DEF commit, v, a, r
  <2>6. /\ r.pc = "commit" /\ r.tries = job[d].tries /\ r.asked = a
        /\ r.verdict = v /\ r.links = job[d].links
        /\ r.near = job[d].near /\ r.own = job[d].own
    BY <1>2, <1>3, <2>5 DEF JobFields
  <2>7. GraphOK(d, r)
    <3>1. TriesOK(r) /\ LinksOK(r) /\ ConnectedOK(r)
      BY <1>1, <2>6 DEF GraphOK, TriesOK, LinksOK, Present, ConnectedOK
    <3>2. AskedOK(d, r)
      BY <2>3, <2>4, <2>6 DEF AskedOK
    <3> QED
      BY <3>1, <3>2 DEF GraphOK
  <2>8. Set(d, r)
    BY <1>5 DEF r, v, a, commit
  <2> QED
    BY <1>1, <2>7, <2>8, SetGraph
<1> QED
  BY <1>4, <1>5 DEF Adjudicate

(* One step of the commit: what it does to the row it is about. *)
LEMMA CommittedGraph ==
  ASSUME IInv, GInv, NEW d \in Deliveries, Committing(d), NEW n, NEW q,
         JobFields \subseteq DOMAIN q,
         \A x \in JobFields \ {"own"} : q[x] = job[d][x],
         \A m \in Names : job[d].own[m] # None => q.own[m] # None,
         Set(d, Load(q, d, n)) \/ Set(d, Resolve(q, d, n)),
         UNCHANGED <<concepts, edges>>
  PROVE  GInv'
<1>1. ASSUME NEW r, Set(d, r), \A x \in JobFields : r[x] = q[x]
      PROVE  GInv'
  <2>1. r.pc = job[d].pc /\ r.tries = job[d].tries /\ r.asked = job[d].asked
        /\ r.verdict = job[d].verdict /\ r.links = job[d].links
        /\ r.near = job[d].near /\ r.own = q.own
    BY <1>1 DEF JobFields
  <2>2. Active(r)
    BY <2>1 DEF Committing, Active
  <2>3. \A m \in Names : job[d].own[m] # None => r.own[m] # None
    BY <2>1
  <2>4. \A i \in DOMAIN Work(d) :
          r.near[i] = job[d].near[i] \/ (r.pc = "recall" /\ r.near[i] # None)
    BY <2>1
  <2> QED
    BY ONLY IInv, GInv, d \in Deliveries, UNCHANGED <<concepts, edges>>, <1>1, <2>1, <2>2,
       <2>3, <2>4, KeptGraph
<1> DEFINE l == Load(q, d, n)
           r == Resolve(q, d, n)
<1>2. \A x \in JobFields : l[x] = q[x] /\ r[x] = q[x]
  BY KeptFields
<1> HIDE DEF l, r
<1>3. Set(d, l) \/ Set(d, r)
  BY DEF l, r
<1> QED
  BY <1>1, <1>2, <1>3

LEMMA FoldGraph == ASSUME IInv, GInv, NEW d \in Deliveries, Fold(d) PROVE GInv'
<1> DEFINE n == Existing(d)
           flushed == Flushed(d, n)
           wide == Widened(d, n)
           q == IF Dirty(d, n)
                THEN [job[d] EXCEPT !.own[n] = flushed, !.copy[n] = wide] ELSE job[d]
<1>1. Committing(d) /\ Set(d, Resolve(q, d, n)) /\ UNCHANGED <<concepts, edges>>
  BY DEF Fold
<1>2. flushed # None
  BY FoldRow
<1>3. /\ JobFields \subseteq DOMAIN q
      /\ \A x \in JobFields \ {"own"} : q[x] = job[d][x]
      /\ \A m \in Names : job[d].own[m] # None => q.own[m] # None
  <2>1. CASE ~ Dirty(d, n)
    BY <2>1, HasFields
  <2>2. CASE Dirty(d, n)
    <3> DEFINE own == [job[d].own EXCEPT ![n] = flushed]
               copy == [job[d].copy EXCEPT ![n] = wide]
    <3>1. q = [job[d] EXCEPT !.own = own, !.copy = copy]
      BY <2>2, HasFields DEF IInv, JobTyped, JobRecord
    <3>2. \A m \in Names : job[d].own[m] # None => own[m] # None
      BY <1>2, HasFields DEF Rows
    <3> HIDE DEF q, own, copy
    <3>3. q.own = own
      BY <3>1, HasFields DEF JobFields
    <3> QED
      BY <3>1, <3>2, <3>3, HasFields DEF JobFields
  <2> QED
    BY <2>1, <2>2
<1> HIDE DEF q, n
<1> QED
  BY <1>1, <1>3, CommittedGraph

LEMMA CreateGraph == ASSUME IInv, GInv, NEW d \in Deliveries, Create(d) PROVE GInv'
<1> DEFINE n == Norm[Candidate(d).name]
           row == [aliases |-> Candidate(d).aliases, sources |-> {PaperOf[d]}]
           q == [job[d] EXCEPT !.own[n] = row]
<1>1. Committing(d) /\ Set(d, Resolve(q, d, n)) /\ UNCHANGED <<concepts, edges>>
  BY DEF Create
<1>2. row # None
  BY <1>1, CandidateType, WorkType, GraphAssumption DEF ConceptRow
<1> HIDE DEF row, n
<1>3. /\ JobFields \subseteq DOMAIN q
      /\ \A x \in JobFields \ {"own"} : q[x] = job[d][x]
      /\ \A m \in Names : job[d].own[m] # None => q.own[m] # None
  BY <1>2, HasFields DEF JobFields, Rows
<1> HIDE DEF q
<1> QED
  BY <1>1, <1>3, CommittedGraph

LEMMA LoseGraph == ASSUME IInv, GInv, NEW d \in Deliveries, Lose(d) PROVE GInv'
<1> DEFINE n == Norm[Candidate(d).name]
           q == [job[d] EXCEPT !.lost = TRUE]
<1>1. Committing(d) /\ Set(d, Load(q, d, n)) /\ UNCHANGED <<concepts, edges>>
  BY DEF Lose
<1>2. /\ JobFields \subseteq DOMAIN q
      /\ \A x \in JobFields : q[x] = job[d][x]
  BY HasFields DEF JobFields
<1> HIDE DEF q, n
<1>3. \A m \in Names : job[d].own[m] # None => q.own[m] # None
  BY <1>2 DEF JobFields
<1> QED
  BY <1>1, <1>2, <1>3, CommittedGraph

(* What a job links joins two concepts that its commit leaves in the graph. *)
LEMMA DueEdge ==
  ASSUME IInv, GInv, NEW d \in Deliveries, Linking(d), NEW e \in Due(d)
  PROVE  /\ e \in Edge /\ e[1] # e[2]
         /\ Present(job[d], e[1]) /\ Present(job[d], e[2])
<1>1. /\ JobTyped(d, job[d]) /\ JobOK(d, job[d]) /\ Active(job[d])
      /\ AskedOK(d, job[d]) /\ DOMAIN Work(d) = 1..Len(Work(d)) /\ Len(Work(d)) \in Nat
  BY WorkType DEF IInv, GInv, GraphOK, Linking, Active
<1>2. ASSUME NEW s \in Spellings, job[d].resolved[s] # None
      PROVE  job[d].resolved[s] \in Names /\ Present(job[d], job[d].resolved[s])
  <2>1. job[d].resolved[s] \in Names
    BY <1>1, <1>2 DEF JobTyped, JobRecord
  <2> QED
    BY <1>1, <1>2, <2>1 DEF JobOK, CopyOK, PaperOK, Present
<1>3. ASSUME NEW i \in DOMAIN Work(d)
      PROVE  /\ job[d].resolved[Work(d)[i].name] \in Names
             /\ Present(job[d], job[d].resolved[Work(d)[i].name])
  <2>1. Work(d)[i].name \in Spellings /\ job[d].resolved[Work(d)[i].name] \in Names
    BY Ended, WorkType
  <2>2. None \notin Names
    BY GraphAssumption
  <2> QED
    BY <1>2, <2>1, <2>2
<1>4. PICK k \in Turns(d) : e \in Unlinked(d, k)
  BY DEF Due
<1>5. e[1] # e[2]
  BY <1>4 DEF Unlinked
<1>6. CASE k <= Len(Work(d))
  <2>1. k \in DOMAIN Work(d) /\ e \in RelatedEdges(d, k)
    BY <1>1, <1>4, <1>6 DEF Unlinked, Turns
  <2>2. /\ job[d].verdict[k].verdict = "related"
        /\ e = <<job[d].resolved[Work(d)[k].name], job[d].near[k],
                 Typed(job[d].verdict[k])>>
    BY <2>1 DEF RelatedEdges
  <2>3. job[d].near[k] \in Names /\ Present(job[d], job[d].near[k])
    <3>1. job[d].near[k] \in Names
      BY <1>1, <2>1, <2>2 DEF AskedOK, JobTyped, JobRecord
    <3> QED
      BY <1>1, <2>1, <2>2, <3>1 DEF AskedOK, JobOK, FoundOK, CopyOK, Present
  <2>4. Typed(job[d].verdict[k]) \in RELATIONSHIP_TYPE
    BY DEF Typed, RELATIONSHIP_TYPE
  <2> HIDE DEF Present
  <2> QED
    BY <1>3, <1>5, <2>1, <2>2, <2>3, <2>4 DEF Edge
<1>7. CASE ~ (k <= Len(Work(d)))
  <2> DEFINE i == k - Len(Work(d))
  <2>1. i \in DOMAIN Work(d) /\ e \in PrerequisiteEdges(d, i)
    BY <1>1, <1>4, <1>7 DEF Unlinked, Turns
  <2> HIDE DEF i
  <2>2. PICK p \in Work(d)[i].prerequisites :
          /\ job[d].resolved[p] # None
          /\ e = <<job[d].resolved[p], job[d].resolved[Work(d)[i].name],
                   "prerequisite_of">>
    BY <2>1 DEF PrerequisiteEdges
  <2>3. p \in Spellings
    BY <2>1, <2>2, WorkType
  <2>4. "prerequisite_of" \in RELATIONSHIP_TYPE
    BY DEF RELATIONSHIP_TYPE
  <2> QED
    BY <1>2, <1>3, <1>5, <2>1, <2>2, <2>3, <2>4 DEF Edge
<1> QED
  BY <1>6, <1>7

LEMMA LinkGraph == ASSUME IInv, GInv, NEW d \in Deliveries, Link(d) PROVE GInv'
<1>1. PICK e \in Due(d) : Set(d, [job[d] EXCEPT !.links = @ \cup {e}])
  BY DEF Link
<1> DEFINE links == job[d].links \cup {e}
           r == [job[d] EXCEPT !.links = links]
<1>2. /\ Linking(d) /\ GraphOK(d, job[d]) /\ UNCHANGED <<concepts, edges>> /\ Set(d, r)
  BY <1>1 DEF Link, GInv
<1>3. /\ e \in Edge /\ e[1] # e[2]
      /\ Present(job[d], e[1]) /\ Present(job[d], e[2])
  BY <1>2, DueEdge
<1>4. /\ r.pc = job[d].pc /\ r.tries = job[d].tries /\ r.asked = job[d].asked
      /\ r.near = job[d].near /\ r.verdict = job[d].verdict /\ r.links = links
      /\ r.own = job[d].own /\ r.pc # "done"
  <2> HIDE DEF links
  <2> QED
    BY <1>2, HasFields DEF JobFields, Linking
<1> HIDE DEF r
<1>5. TriesOK(r) /\ AskedOK(d, r) /\ ConnectedOK(r)
  BY <1>2, <1>4 DEF GraphOK, TriesOK, AskedOK, ConnectedOK
<1>6. LinksOK(r)
  BY <1>2, <1>3, <1>4 DEF GraphOK, LinksOK, Present
<1>7. GraphOK(d, r)
  BY <1>5, <1>6 DEF GraphOK
<1> QED
  BY <1>2, <1>7, SetGraph

(* A commit takes no concept away and leaves every edge its answers ask for. *)
LEMMA CommitGraph == ASSUME IInv, GInv, NEW d \in Deliveries, Commit(d) PROVE GInv'
<1> DEFINE r == [job[d] EXCEPT !.pc = "done", !.own = NoRows, !.links = {}]
<1>1. /\ Linking(d) /\ \A k \in Turns(d) : Unlinked(d, k) = {}
      /\ concepts' = [n \in Names |-> Row(d, n)] /\ edges' = edges \cup job[d].links
      /\ job' = [job EXCEPT ![d] = r] /\ GraphOK(d, job[d])
  BY DEF Commit, Set, GInv
<1>2. /\ r.pc = "done" /\ r.tries = job[d].tries /\ r.asked = job[d].asked
      /\ r.near = job[d].near /\ r.verdict = job[d].verdict /\ r.links = {}
      /\ r.resolved = job[d].resolved
  <2>1. job[d] \in JobRecord(d, job[d].asked, job[d].links)
    BY DEF IInv, JobTyped
  <2> QED
    BY <2>1 DEF JobRecord
<1> HIDE DEF r
<1>3. job'[d] = r /\ \A o \in Deliveries \ {d} : job'[o] = job[o]
  BY <1>1 DEF IInv
<1>4. \A n \in Names : /\ concepts[n] # None => concepts'[n] # None
                       /\ Present(job[d], n) => concepts'[n] # None
  BY <1>1 DEF Row, Present
<1>5. \A e \in edges' : /\ e \in Edge /\ e[1] # e[2]
                        /\ concepts'[e[1]] # None /\ concepts'[e[2]] # None
  <2> SUFFICES ASSUME NEW e \in edges'
               PROVE  /\ e \in Edge /\ e[1] # e[2]
                      /\ concepts'[e[1]] # None /\ concepts'[e[2]] # None
    OBVIOUS
  <2>1. CASE e \in edges
    <3>1. e \in Edge /\ e[1] # e[2] /\ concepts[e[1]] # None /\ concepts[e[2]] # None
      BY <2>1 DEF GInv, EdgesJoinConcepts
    <3> QED
      BY <1>4, <3>1 DEF Edge
  <2>2. CASE e \in job[d].links
    <3>1. /\ e \in Edge /\ e[1] # e[2]
          /\ Present(job[d], e[1]) /\ Present(job[d], e[2])
      BY <1>1, <2>2 DEF GraphOK, LinksOK
    <3> QED
      BY <1>4, <3>1 DEF Edge
  <2> QED
    BY <1>1, <2>1, <2>2
<1>6. ASSUME NEW a \in job[d].asked, a[3].verdict = "related",
             job[d].resolved[a[1]] # a[2]
      PROVE  <<job[d].resolved[a[1]], a[2], Typed(a[3])>> \in edges'
  <2>1. PICK i \in DOMAIN Work(d) :
          a = <<Work(d)[i].name, job[d].near[i], job[d].verdict[i]>>
    BY <1>1 DEF GraphOK, AskedOK
  <2> DEFINE e == <<job[d].resolved[Work(d)[i].name], job[d].near[i],
                    Typed(job[d].verdict[i])>>
  <2>2. i \in Turns(d) /\ i <= Len(Work(d))
    BY WorkType DEF Turns
  <2>3. e \in RelatedEdges(d, i) /\ e[1] # e[2]
    BY <1>6, <2>1 DEF RelatedEdges
  <2>4. e \in job[d].links
    <3>1. Unlinked(d, i) = {}
      BY <1>1, <2>2
    <3> HIDE DEF e
    <3> QED
      BY <2>2, <2>3, <3>1 DEF Unlinked
  <2> QED
    BY <1>1, <2>1, <2>4
<1>7. GraphOK(d, job[d])'
  <2>1. TriesOK(r) /\ AskedOK(d, r)
    BY <1>1, <1>2 DEF GraphOK, TriesOK, AskedOK
  <2>2. LinksOK(job[d])' /\ ConnectedOK(job[d])'
    BY <1>2, <1>3, <1>6 DEF LinksOK, ConnectedOK
  <2> QED
    BY <1>3, <2>1, <2>2 DEF GraphOK, TriesOK, AskedOK
<1>8. ASSUME NEW o \in Deliveries \ {d}
      PROVE  GraphOK(o, job[o])'
  <2>1. job'[o] = job[o] /\ GraphOK(o, job[o])
    BY <1>3 DEF GInv
  <2>2. LinksOK(job[o])'
    BY <1>4, <2>1 DEF GraphOK, LinksOK, Present, Edge
  <2>3. ConnectedOK(job[o])'
    BY <1>1, <2>1 DEF GraphOK, ConnectedOK
  <2> QED
    BY <2>1, <2>2, <2>3 DEF GraphOK, TriesOK, AskedOK
<1> QED
  BY <1>5, <1>7, <1>8 DEF GInv, EdgesJoinConcepts

LEMMA NextGraph == IInv /\ GInv /\ [Next]_vars => GInv'
<1> SUFFICES ASSUME IInv, GInv, [Next]_vars
             PROVE  GInv'
  OBVIOUS
<1>1. ASSUME NEW d \in Deliveries, ServerStep(d)
      PROVE  GInv'
  BY <1>1, RecallGraph, AdjudicateGraph, FoldGraph, CreateGraph, LoseGraph, LinkGraph,
     CommitGraph, RollBackGraph DEF ServerStep, DeadlockDetected
<1>2. ASSUME NEW d \in Deliveries, Begin(d) \/ Fail(d)
      PROVE  GInv'
  BY <1>2, BeginGraph, RollBackGraph DEF Fail
<1>3. CASE UNCHANGED vars
  BY <1>3 DEF GInv, EdgesJoinConcepts, GraphOK, TriesOK, AskedOK, LinksOK, Present,
     ConnectedOK, vars
<1> QED
  BY <1>1, <1>2, <1>3 DEF Next

LEMMA AlwaysGraph == Spec => []GInv
  BY InitGraph, AlwaysInv, NextGraph, PTL DEF Spec

-----------------------------------------------------------------------------
(* A candidate is folded into a concept of another name only when one of its *)
(* names is known to be that concept's or the model said of this very pair   *)
(* that they are the same: for any candidates, in any order, and any replies. *)
THEOREM MergesJudged == Spec => []MergesWereJudged
<1>1. IInv => MergesWereJudged
  <2> SUFFICES ASSUME IInv, NEW d \in Deliveries, NEW i \in DOMAIN Work(d),
                      job[d].resolved[Work(d)[i].name] # None
               PROVE  Justified(d, job[d], Work(d)[i].name)
    BY DEF MergesWereJudged, Justified, Same
  <2>1. Work(d)[i].name \in Spellings
    BY WorkType
  <2> QED
    BY <2>1 DEF IInv, JobOK, JudgedOK
<1> QED
  BY <1>1, AlwaysInv, PTL

(* An end that was reached is a commit. *)
LEMMA OnlyCommitEnds ==
  ASSUME IInv, NEW d \in Deliveries, [Next]_vars,
         job[d].pc = "commit", job'[d].pc = "done"
  PROVE  Commit(d)
<1>1. ASSUME NEW o \in Deliveries, NEW r, Set(o, r)
      PROVE  o = d /\ r.pc = "done"
  BY <1>1 DEF Set, IInv
<1>2. ASSUME NEW o \in Deliveries, RollBack(o)
      PROVE  FALSE
  <2> DEFINE pc == IF job[o].tries < MaxAttempts THEN "retry" ELSE "failed"
             r == [Fresh(o) EXCEPT !.tries = job[o].tries, !.pc = pc]
  <2>1. r.pc \in {"retry", "failed"} /\ Set(o, r)
    BY <1>2 DEF Fresh, RollBack
  <2> HIDE DEF r
  <2> QED
    BY <1>1, <2>1
<1>3. ASSUME NEW o \in Deliveries, Link(o)
      PROVE  FALSE
  <2>1. PICK e \in Due(o) : Set(o, [job[o] EXCEPT !.links = @ \cup {e}])
    BY <1>3 DEF Link
  <2> DEFINE r == [job[o] EXCEPT !.links = @ \cup {e}]
  <2>2. r.pc = job[o].pc /\ job[o].pc = "commit" /\ Set(o, r)
    BY <1>3, <2>1 DEF Link, Linking, IInv, JobTyped, JobRecord
  <2> HIDE DEF r
  <2> QED
    BY <1>1, <2>2
<1>4. ASSUME NEW o \in Deliveries, Begin(o) \/ Recall(o) \/ Adjudicate(o)
      PROVE  FALSE
  <2>1. o = d
    BY <1>1, <1>4 DEF Begin, Recall, Adjudicate
  <2> QED
    BY <1>4, <2>1 DEF Begin, Recall, Adjudicate
<1>5. ASSUME NEW o \in Deliveries, NEW q, NEW n, q.pc # "done",
             "pc" \in DOMAIN q,
             Set(o, Resolve(q, o, n)) \/ Set(o, Load(q, o, n))
      PROVE  FALSE
  <2>1. Resolve(q, o, n).pc = q.pc /\ Load(q, o, n).pc = q.pc
    BY <1>5 DEF Resolve, Load
  <2> DEFINE r == Resolve(q, o, n)
             l == Load(q, o, n)
  <2> HIDE DEF r, l
  <2> QED
    BY <1>1, <1>5, <2>1 DEF r, l
<1>6. ASSUME NEW o \in Deliveries, Fold(o) \/ Create(o) \/ Lose(o)
      PROVE  FALSE
  <2>1. job[o].pc = "commit" /\ "pc" \in DOMAIN job[o]
    BY <1>6 DEF Fold, Create, Lose, Committing, IInv, JobTyped, JobRecord
  <2>2. CASE Lose(o)
    <3> DEFINE n == Norm[Candidate(o).name]
               q == [job[o] EXCEPT !.lost = TRUE]
    <3>1. Set(o, Load(q, o, n)) /\ q.pc = "commit" /\ "pc" \in DOMAIN q
      <4>1. Set(o, Load(q, o, n))
        BY <2>2 DEF Lose
      <4> QED
        BY <2>1, <4>1
    <3> HIDE DEF q, n
    <3> QED
      BY <1>5, <3>1
  <2>3. CASE Create(o)
    <3> DEFINE n == Norm[Candidate(o).name]
               row == [aliases |-> Candidate(o).aliases, sources |-> {PaperOf[o]}]
               q == [job[o] EXCEPT !.own[n] = row]
    <3>1. q.pc = "commit" /\ "pc" \in DOMAIN q /\ Set(o, Resolve(q, o, n))
      BY <2>1, <2>3 DEF Create
    <3> HIDE DEF q, n
    <3> QED
      BY <1>5, <3>1
  <2>4. CASE Fold(o)
    <3> DEFINE n == Existing(o)
               q == IF Dirty(o, n)
                    THEN [job[o] EXCEPT !.own[n] = Flushed(o, n),
                                        !.copy[n] = Widened(o, n)]
                    ELSE job[o]
    <3>1. Set(o, Resolve(q, o, n)) /\ q.pc = "commit" /\ "pc" \in DOMAIN q
      <4>1. Set(o, Resolve(q, o, n))
        BY <2>4 DEF Fold
      <4>2. CASE ~ Dirty(o, n)
        BY <2>1, <4>1, <4>2
      <4>3. CASE Dirty(o, n)
        <5> DEFINE f == Flushed(o, n)
                   w == Widened(o, n)
                   j == job[o]
                   m == n
        <5>1. q = [j EXCEPT !.own[m] = f, !.copy[m] = w]
          BY <4>3
        <5> HIDE DEF q, f, w, m, j
        <5>2. q.pc = j.pc /\ "pc" \in DOMAIN q
          BY <2>1, <5>1 DEF j
        <5> QED
          BY <2>1, <4>1, <5>2 DEF j
      <4> QED
        BY <4>2, <4>3
    <3> HIDE DEF q, n
    <3> QED
      BY <1>5, <3>1
  <2> QED
    BY <1>6, <2>2, <2>3, <2>4
<1>7. ASSUME NEW o \in Deliveries, Commit(o)
      PROVE  o = d
  BY <1>1, <1>7 DEF Commit, Linking
<1>8. CASE UNCHANGED vars
  BY <1>8 DEF vars
<1> QED
  BY <1>2, <1>3, <1>4, <1>6, <1>7, <1>8 DEF Next, ServerStep, Fail, DeadlockDetected

(* The commit of a job whose rows nobody else wrote leaves its paper with    *)
(* every concept its candidates stand for: for any number of jobs beside it, *)
(* also when they insert the concept first.                                  *)
THEOREM UndisturbedLeavesItsPaper == Spec => UndisturbedJobLeavesItsPaper
<1> DEFINE A == \A d \in Deliveries :
                  job[d].pc = "commit" /\ job'[d].pc = "done" /\ Undisturbed(d) =>
                    \A i \in DOMAIN Work(d) :
                      LET n == job[d].resolved[Work(d)[i].name]
                      IN  concepts'[n] # None /\ PaperOf[d] \in concepts'[n].sources
<1>1. IInv /\ [Next]_vars => A
  <2> SUFFICES ASSUME IInv, [Next]_vars, NEW d \in Deliveries,
                      job[d].pc = "commit", job'[d].pc = "done", Undisturbed(d),
                      NEW i \in DOMAIN Work(d)
               PROVE  LET n == job[d].resolved[Work(d)[i].name]
                      IN  concepts'[n] # None /\ PaperOf[d] \in concepts'[n].sources
    OBVIOUS
  <2> DEFINE s == Work(d)[i].name
             n == job[d].resolved[s]
  <2>1. JobTyped(d, job[d]) /\ JobOK(d, job[d]) /\ s \in Spellings
    BY WorkType DEF IInv
  <2>2. n \in Names
    BY OnlyCommitEnds, Ended DEF Commit
  <2>3. concepts'[n] = Row(d, n)
    BY <2>2, OnlyCommitEnds DEF Commit
  <2>4. n # None
    BY <2>2, GraphAssumption
  <2>5. CASE job[d].copy[n] = None
    BY <2>1, <2>3, <2>4, <2>5 DEF JobOK, PaperOK, Active, Row
  <2>6. CASE job[d].copy[n] # None
    <3>1. concepts[n] = job[d].seen[n]
      BY <2>2, <2>6 DEF Undisturbed
    <3>2. PaperOf[d] \in job[d].copy[n].sources
      BY <2>1, <2>4, <2>6 DEF JobOK, PaperOK, Active
    <3> QED
      BY <2>1, <2>2, <2>3, <2>6, <3>1, <3>2 DEF JobOK, CopyOK, Active, Row
  <2> QED
    BY <2>5, <2>6
<1>2. Spec => [][A]_vars
  BY <1>1, AlwaysInv, PTL DEF Spec
<1> QED
  BY <1>2 DEF UndisturbedJobLeavesItsPaper

(* The committed graph and every job's writes have their types: no type of   *)
(* relationship but the six of the schema is ever linked, whatever type the  *)
(* model answers with, and no delivery runs more often than it may.          *)
THEOREM GraphTypes == Spec => []TypeOK
<1>1. IInv /\ GInv => TypeOK
  <2> SUFFICES ASSUME IInv, GInv
               PROVE  TypeOK
    OBVIOUS
  <2>1. concepts \in [Names -> ConceptRow \cup {None}] /\ edges \subseteq Edge
        /\ DOMAIN job = Deliveries
    BY DEF IInv, GInv, Rows
  <2>2. ASSUME NEW d \in Deliveries
        PROVE  /\ job[d].pc \in Phase
               /\ job[d].own \in Rows /\ job[d].copy \in Rows
               /\ job[d].resolved \in [Spellings -> Names \cup {None}]
    BY DEF IInv, JobTyped, JobRecord
  <2>3. ASSUME NEW d \in Deliveries
        PROVE  job[d].tries \in 0..MaxAttempts /\ job[d].links \subseteq Edge
    BY DEF GInv, GraphOK, TriesOK, LinksOK
  <2> QED
    BY <2>1, <2>2, <2>3 DEF TypeOK, Phase, Rows
<1> QED
  BY <1>1, AlwaysInv, AlwaysGraph, PTL

(* The reader's graph is what was judged, for any papers, candidates, answers *)
(* and jobs beside one another: no merge without a verdict on that very pair, *)
(* no edge without two different concepts at its ends, and no answer          *)
(* "related" of a finished job without its edge.                              *)
THEOREM SoundGraph == Spec => []GraphIsSound
<1>1. IInv /\ GInv => EdgesJoinConcepts /\ RelatedIsConnected
  BY DEF GInv, GraphOK, ConnectedOK, RelatedIsConnected
<1> QED
  BY <1>1, AlwaysInv, AlwaysGraph, MergesJudged, PTL DEF GraphIsSound
=============================================================================
