---------------------------- MODULE ConceptGraph ----------------------------
(***************************************************************************)
(* Folding the concept candidates of a paper into one reader's graph       *)
(* (app/ingestion/concepts.py, app/services/adjudication.py), by jobs that *)
(* run at the same time, fail and are delivered again.                     *)
(*                                                                         *)
(* A delivery is one READ COMMITTED transaction.  A concept row is never   *)
(* deleted and its key is its normalised name, so the name stands for the  *)
(* row.  What a delivery has flushed but not committed is in job[d].own    *)
(* and job[d].links; `copy` is the row as the delivery's ORM session first *)
(* loaded it, which later queries of that session do not refresh.  A       *)
(* verdict given with less confidence than its threshold counts as         *)
(* "distinct", which is what the commit makes of it.                       *)
(***************************************************************************)
EXTENDS Integers, Sequences, SequencesExt, FiniteSets

CONSTANTS
  Deliveries,   \* runs of the job; two of one paper are a task delivered twice
  Papers,
  PaperOf,      \* the paper each delivery is about
  Candidates,   \* the stored analysis of each paper: a sequence of candidates
  Spellings,    \* names as the papers write them
  Names,        \* normalised names
  Norm,         \* normalize_name
  Close,        \* pairs <<spelling, name>> whose similarity reaches the floor
  Proposed,     \* relationship types the model may answer with
  None,
  MaxAttempts   \* bound: runs of one delivery

ConceptRow == [aliases : SUBSET Spellings, sources : SUBSET Papers]

ASSUME GraphAssumption ==
  /\ PaperOf \in [Deliveries -> Papers]
  /\ Candidates \in [Papers -> Seq([name : Spellings, aliases : SUBSET Spellings,
                                    prerequisites : SUBSET Spellings])]
  /\ Norm \in [Spellings -> Names]
  /\ Close \subseteq Spellings \X Names
  /\ None \notin Names \cup Deliveries \cup ConceptRow
  /\ MaxAttempts \in Nat \ {0}

VARIABLES
  concepts,   \* the committed row of each name, None while there is none
  edges,      \* the committed relationships <<source, target, type>>
  job         \* each delivery: where it is, its local state and its writes

vars == <<concepts, edges, job>>

-----------------------------------------------------------------------------
RELATIONSHIP_TYPE ==
  {"prerequisite_of", "component_of", "specialisation_of", "contrasts_with",
   "equivalent_notation", "co_occurs_with"}

Verdict == [verdict : {"same", "distinct"}, type : {None}]
           \cup [verdict : {"related"}, type : Proposed]

Distinct == [verdict |-> "distinct", type |-> None]

(* Mutant: the type is taken as the model gave it. *)
TypedAsGiven(v) == v.type

(* typed_relationship: an unknown type degrades to the weakest claim. *)
Typed(v) == IF v.type \in RELATIONSHIP_TYPE THEN v.type ELSE "co_occurs_with"

Work(d) == Candidates[PaperOf[d]]
Called(c) == {c.name} \cup c.aliases

NoRows == [n \in Names |-> None]

Fresh(d) ==
  [pc |-> "idle", tries |-> 0, next |-> 1,
   after |-> {},      \* history: the deliveries that were done when it began
   exact |-> [i \in DOMAIN Work(d) |-> None],    \* matched_exactly
   near |-> [i \in DOMAIN Work(d) |-> None],     \* ambiguous
   verdict |-> [i \in DOMAIN Work(d) |-> Distinct],
   asked |-> {},      \* history: what the model answered about each pair
   lost |-> FALSE,    \* the name was inserted by someone else meanwhile
   copy |-> NoRows,
   seen |-> NoRows,   \* history: the committed row when `copy` was loaded
   own |-> NoRows, resolved |-> [s \in Spellings |-> None],
   links |-> {}]

(* What earlier papers and conversations left in the graph. *)
Init ==
  /\ concepts \in [Names -> {None, [aliases |-> {}, sources |-> {}]}]
  /\ edges = {}
  /\ job = [d \in Deliveries |-> Fresh(d)]

-----------------------------------------------------------------------------
Set(d, record) == job' = [job EXCEPT ![d] = record]

(* The row a query of this delivery finds, and the one its session has. *)
Row(d, n) == IF job[d].own[n] # None THEN job[d].own[n] ELSE concepts[n]
Loaded(d, n) == IF job[d].copy[n] # None THEN job[d].copy[n] ELSE Row(d, n)

Load(record, d, n) ==
  [record EXCEPT !.copy[n] = Loaded(d, n),
                 !.seen[n] = IF job[d].copy[n] # None THEN @ ELSE concepts[n]]

(* _exact_match: the name or an alias, normalised, or an alias as written. *)
Matches(d, c) ==
  {n \in Names : /\ Row(d, n) # None
                 /\ \/ n \in {Norm[s] : s \in Called(c)}
                    \/ Row(d, n).aliases \cap Called(c) # {}}

(* _nearest, when it reaches the floor. *)
Nearest(d, c) == {n \in Names : Row(d, n) # None /\ <<c.name, n>> \in Close}

Begin(d) ==
  /\ job[d].pc \in {"idle", "retry"}
  /\ Set(d, [Fresh(d) EXCEPT !.pc = "recall", !.tries = job[d].tries + 1,
                           !.after = {e \in Deliveries : job[e].pc = "done"}])
  /\ UNCHANGED <<concepts, edges>>

(* Pass 1, one candidate: which of several rows a query with LIMIT 1 *)
(* returns is not said.                                              *)
Recall(d) ==
  LET i == job[d].next
      c == Work(d)[i]
      on == [job[d] EXCEPT !.next = i + 1]
  IN  /\ job[d].pc = "recall" /\ i <= Len(Work(d))
      /\ \/ \E n \in Matches(d, c) : Set(d, Load([on EXCEPT !.exact[i] = n], d, n))
         \/ /\ Matches(d, c) = {}
            /\ \E n \in Nearest(d, c) : Set(d, Load([on EXCEPT !.near[i] = n], d, n))
         \/ /\ Matches(d, c) \cup Nearest(d, c) = {}
            /\ Set(d, on)
      /\ UNCHANGED <<concepts, edges>>

(* The ambiguous candidates, in the order of the paper. *)
Ambiguous(d) ==
  {s \in SetToSeqs({i \in DOMAIN Work(d) : job[d].near[i] # None}) :
     \A k, l \in DOMAIN s : k < l => s[k] < s[l]}

(* Mutant: the reply is read by candidate, not by pair. *)
VerdictByIndex(pairs, reply, i) ==
  IF i \in DOMAIN reply THEN reply[i] ELSE Distinct

(* zip(ambiguous, judged): the verdicts by candidate, from those by pair. *)
VerdictOf(pairs, reply, i) ==
  IF \E k \in DOMAIN pairs : pairs[k] = i
  THEN reply[CHOOSE k \in DOMAIN pairs : pairs[k] = i] ELSE Distinct

(* Pass 2: one call for all pairs.  When it stays unavailable, or answers *)
(* another number of pairs, nothing is merged.                            *)
Adjudicate(d) ==
  LET commit == [job[d] EXCEPT !.pc = "commit", !.next = 1]
  IN  /\ job[d].pc = "recall" /\ job[d].next > Len(Work(d))
      /\ \/ Set(d, commit)
         \/ \E pairs \in Ambiguous(d) \ {<<>>} :
              \E reply \in [DOMAIN pairs -> Verdict] :
                 Set(d, [commit EXCEPT
                   !.verdict = [i \in DOMAIN Work(d) |-> VerdictOf(pairs, reply, i)],
                   !.asked = {<<Work(d)[pairs[k]].name, job[d].near[pairs[k]],
                               reply[k]>> : k \in DOMAIN pairs}])
      /\ UNCHANGED <<concepts, edges>>

-----------------------------------------------------------------------------
(* Pass 3: the deterministic commit, one candidate at a time. *)

Candidate(d) == Work(d)[job[d].next]
Committing(d) == job[d].pc = "commit" /\ job[d].next <= Len(Work(d))

(* The row the candidate is folded into, None when it gets one of its own. *)
Existing(d) ==
  LET i == job[d].next
  IN  IF job[d].exact[i] # None THEN job[d].exact[i]
      ELSE IF job[d].verdict[i].verdict = "same" THEN job[d].near[i]
      ELSE IF job[d].lost THEN Norm[Candidate(d).name]
      ELSE None

Resolve(record, d, n) ==
  [record EXCEPT !.resolved[Candidate(d).name] = n, !.next = @ + 1, !.lost = FALSE]

(* The aliases this paper brings: the loser of an insert adds only the paper. *)
NewAliases(d) == IF job[d].lost THEN {} ELSE Candidate(d).aliases

Widened(d, n) == [aliases |-> Loaded(d, n).aliases \cup NewAliases(d),
                  sources |-> Loaded(d, n).sources \cup {PaperOf[d]}]

Dirty(d, n) == Widened(d, n) # Loaded(d, n)

(* Only a column that differs from the loaded one is written, and it is *)
(* written whole.                                                       *)
Flushed(d, n) ==
  LET new == Widened(d, n)
      old == Loaded(d, n)
  IN  [aliases |-> IF new.aliases # old.aliases THEN new.aliases ELSE Row(d, n).aliases,
       sources |-> IF new.sources # old.sources THEN new.sources ELSE Row(d, n).sources]

(* Edges, once every candidate has a concept: those of the related verdicts, *)
(* then the prerequisites.  One the paper's own candidates do not name is    *)
(* dropped, and so is an edge from a concept to itself.                      *)

RelatedEdges(d, i) ==
  IF job[d].verdict[i].verdict = "related"
  THEN {<<job[d].resolved[Work(d)[i].name], job[d].near[i], Typed(job[d].verdict[i])>>}
  ELSE {}

PrerequisiteEdges(d, i) ==
  {<<job[d].resolved[p], job[d].resolved[Work(d)[i].name], "prerequisite_of">> :
     p \in {q \in Work(d)[i].prerequisites : job[d].resolved[q] # None}}

(* What is still to be linked for the k-th of the candidates' two turns. *)
Unlinked(d, k) ==
  LET n == Len(Work(d))
  IN  {e \in IF k <= n THEN RelatedEdges(d, k) ELSE PrerequisiteEdges(d, k - n) :
         e[1] # e[2]} \ job[d].links

Turns(d) == 1..(2 * Len(Work(d)))

Linking(d) == job[d].pc = "commit" /\ job[d].next > Len(Work(d))

(* The edges of the first turn that is not over. *)
Due(d) ==
  UNION {Unlinked(d, k) :
           k \in {t \in Turns(d) : \A l \in 1..(t - 1) : Unlinked(d, l) = {}}}

NeedsRow(d, n) == Committing(d) /\ Existing(d) = n /\ Dirty(d, n)
NeedsName(d, n) ==
  Committing(d) /\ Existing(d) = None /\ n = Norm[Candidate(d).name]
NeedsEdge(d, e) == Linking(d) /\ e \in Due(d)

(* `o` holds the row, the uncommitted name or the uncommitted edge d needs. *)
Blocks(o, d) ==
  \/ \E n \in Names : /\ job[o].own[n] # None
                      /\ \/ NeedsRow(d, n)
                         \/ NeedsName(d, n) /\ concepts[n] = None
  \/ \E e \in job[o].links \ edges : NeedsEdge(d, e)

Free(d) == \A o \in Deliveries \ {d} : ~ Blocks(o, d)

(* A known concept gains the paper and its aliases. *)
Fold(d) ==
  LET n == Existing(d)
  IN  /\ Committing(d) /\ n # None
      /\ Free(d)
      /\ Set(d, Resolve(IF Dirty(d, n)
                        THEN [job[d] EXCEPT !.own[n] = Flushed(d, n),
                                            !.copy[n] = Widened(d, n)]
                        ELSE job[d], d, n))
      /\ UNCHANGED <<concepts, edges>>

(* _upsert: a concept of its own, unless the name was inserted meanwhile. *)
Create(d) ==
  LET n == Norm[Candidate(d).name]
  IN  /\ Committing(d) /\ Existing(d) = None
      /\ Free(d)
      /\ Row(d, n) = None
      /\ Set(d, Resolve([job[d] EXCEPT !.own[n] =
           [aliases |-> Candidate(d).aliases, sources |-> {PaperOf[d]}]], d, n))
      /\ UNCHANGED <<concepts, edges>>

(* Mutant: the loser of an insert returns the winner and adds nothing. *)
LoseAndLeave(d) ==
  LET n == Norm[Candidate(d).name]
  IN  /\ Committing(d) /\ Existing(d) = None
      /\ Free(d)
      /\ Row(d, n) # None
      /\ Set(d, Resolve(Load(job[d], d, n), d, n))
      /\ UNCHANGED <<concepts, edges>>

Lose(d) ==
  LET n == Norm[Candidate(d).name]
  IN  /\ Committing(d) /\ Existing(d) = None
      /\ Free(d)
      /\ Row(d, n) # None
      /\ Set(d, Load([job[d] EXCEPT !.lost = TRUE], d, n))
      /\ UNCHANGED <<concepts, edges>>

(* _link_typed: an edge that is there already is left as it is. *)
Link(d) ==
  /\ Linking(d)
  /\ \E e \in Due(d) :
       /\ \A o \in Deliveries \ {d} : e \notin job[o].links \ edges
       /\ Set(d, [job[d] EXCEPT !.links = @ \cup {e}])
  /\ UNCHANGED <<concepts, edges>>

Commit(d) ==
  /\ Linking(d) /\ \A k \in Turns(d) : Unlinked(d, k) = {}
  /\ concepts' = [n \in Names |-> Row(d, n)]
  /\ edges' = edges \cup job[d].links
  /\ Set(d, [job[d] EXCEPT !.pc = "done", !.own = NoRows, !.links = {}])

-----------------------------------------------------------------------------
(* Failures roll the transaction back; the queue delivers the task again. *)

RollBack(d) ==
  /\ Set(d, [Fresh(d) EXCEPT !.tries = job[d].tries,
               !.pc = IF job[d].tries < MaxAttempts THEN "retry" ELSE "failed"])
  /\ UNCHANGED <<concepts, edges>>

Running(d) == job[d].pc \in {"recall", "commit"}

(* An exception, or the worker goes away. *)
Fail(d) == Running(d) /\ RollBack(d)

(* The database ends a cycle of waiting transactions by aborting one. *)
Deadlocked(d) ==
  \E S \in SUBSET Deliveries :
    /\ d \in S
    /\ \A x \in S : \E o \in S : o # x /\ Blocks(o, x)
    /\ \A o \in S : \E x \in S : o # x /\ Blocks(o, x)

(* Mutant: the victim's statement alone is undone, and tried again. *)
StatementRetried(d) == Deadlocked(d) /\ UNCHANGED vars

DeadlockDetected(d) == Deadlocked(d) /\ RollBack(d)

ServerStep(d) ==
  \/ Recall(d)
  \/ Adjudicate(d)
  \/ Fold(d)
  \/ Create(d)
  \/ Lose(d)
  \/ Link(d)
  \/ Commit(d)
  \/ DeadlockDetected(d)

Over == \A d \in Deliveries : job[d].pc \in {"idle", "done", "failed"}

Next ==
  \/ \E d \in Deliveries : Begin(d) \/ ServerStep(d) \/ Fail(d)
  \/ Over /\ UNCHANGED vars

Spec == Init /\ [][Next]_vars

(* A task that was delivered once is delivered again after a failure. *)
FairSpec ==
  /\ Spec
  /\ \A d \in Deliveries : /\ WF_vars(ServerStep(d))
                           /\ WF_vars(job[d].pc = "retry" /\ Begin(d))

-----------------------------------------------------------------------------
(* Properties. *)

Edge == Names \X Names \X RELATIONSHIP_TYPE

(* Every variable has its type. *)
TypeOK ==
  /\ concepts \in [Names -> ConceptRow \cup {None}]
  /\ edges \subseteq Edge
  /\ DOMAIN job = Deliveries
  /\ \A d \in Deliveries :
       /\ job[d].pc \in {"idle", "recall", "commit", "retry", "done", "failed"}
       /\ job[d].tries \in 0..MaxAttempts
       /\ job[d].own \in [Names -> ConceptRow \cup {None}]
       /\ job[d].copy \in [Names -> ConceptRow \cup {None}]
       /\ job[d].resolved \in [Spellings -> Names \cup {None}]
       /\ job[d].links \subseteq Edge

(* A candidate is folded into a concept of another name only when one of its *)
(* names is known to be that concept's, or the model said of this very pair  *)
(* that they are the same: similarity alone, or a verdict about another pair *)
(* of the batch, merges nothing.                                             *)
MergesWereJudged ==
  \A d \in Deliveries : \A i \in DOMAIN Work(d) :
    LET s == Work(d)[i].name
        n == job[d].resolved[s]
        same == [verdict |-> "same", type |-> None]
    IN  n # None => \/ n = Norm[s]
                    \/ \E k \in DOMAIN Work(d) :
                         Work(d)[k].name = s /\ job[d].exact[k] = n
                    \/ <<s, n, same>> \in job[d].asked

(* An edge joins two different concepts that exist, whatever was rolled back *)
(* and whichever candidates turned out to be one concept.                    *)
EdgesJoinConcepts ==
  \A e \in edges :
    /\ e[1] # e[2]
    /\ concepts[e[1]] # None
    /\ concepts[e[2]] # None

(* What the model found related is connected once the job is done, with the  *)
(* type it gave or the weakest one, also when another job was first with the *)
(* concept or with the edge.                                                 *)
RelatedIsConnected ==
  \A d \in Deliveries : job[d].pc = "done" =>
    \A a \in job[d].asked :
      LET source == job[d].resolved[a[1]]
      IN  a[3].verdict = "related" /\ source # a[2] =>
            <<source, a[2], Typed(a[3])>> \in edges

(* The reader's graph is what was judged: merges, edges and the relations   *)
(* the model found, whichever jobs ran beside this one.                     *)
GraphIsSound == MergesWereJudged /\ EdgesJoinConcepts /\ RelatedIsConnected

(* Nobody committed to the rows this delivery loaded since it loaded them. *)
Undisturbed(d) ==
  \A n \in Names : job[d].copy[n] # None => concepts[n] = job[d].seen[n]

(* The commit of a job whose rows nobody else wrote leaves its paper with    *)
(* every concept its candidates stand for, also with those that another job  *)
(* inserted first.                                                           *)
UndisturbedJobLeavesItsPaper ==
  [][\A d \in Deliveries :
       job[d].pc = "commit" /\ job'[d].pc = "done" /\ Undisturbed(d) =>
         \A i \in DOMAIN Work(d) :
           LET n == job[d].resolved[Work(d)[i].name]
           IN  concepts'[n] # None /\ PaperOf[d] \in concepts'[n].sources]_vars

(* A delivery that has begun ends, whatever the order in which the papers of *)
(* a reader name the concepts they share.                                    *)
EveryDeliveryEnds ==
  \A d \in Deliveries : Running(d) ~> job[d].pc \in {"done", "failed"}
=============================================================================
