----------------------------- MODULE Grounding -----------------------------
(***************************************************************************)
(* What one answer rests on: the passages its searches returned            *)
(* (services/retrieval.py, the retrieve_paper_context tool), the learner   *)
(* memory it was shown (services/memory.py and the two memory tools), the  *)
(* attempts of the agent run (agent/runner.py), the verification of the    *)
(* markers in the draft (services/citations.py), and the rows and events   *)
(* that record it (services/turns.py, routers/memory.py).                  *)
(*                                                                         *)
(* A draft is the set of markers in it and whether it has prose besides;   *)
(* a marker is a number, written plainly or with a leading zero.  While    *)
(* the turn runs, a grant may be revoked, a concept may be merged away,    *)
(* and the paper may be processed again, which replaces its chunks.        *)
(***************************************************************************)
EXTENDS Integers, FiniteSets, Sequences, SequencesExt

CONSTANTS
  Papers, Chunks, Concepts,
  Queries,           \* what the reader asks and the model searches for
  Score,             \* Score[q][c]: how near chunk c is to query q
  Close,             \* Close[q]: the concepts near query q
  PaperOf, TextOf, RoleOf,    \* of a chunk
  Stored,            \* the chunks there at first; the others replace them
  Edges,             \* the reader's concept graph, pairs <<source, target>>
  Weak, Confident,   \* concepts by their decayed score and their confidence
  SourcesOf,         \* the papers that introduced a concept
  Active,            \* the paper of the session
  Indexed,           \* the papers embedded with the current model
  Floor,             \* default_min_similarity of the embedder
  TopKs,             \* the values of top_k the model asks for
  AnyRole,           \* no section_role
  MAX_TRANSIENT_ATTEMPTS,
  MaxSearches,       \* a bound on the searches of the turn
  MaxLookups,        \* a bound on its reads of memory
  MaxDraft,          \* a bound on the markers of one draft
  MaxIndex,          \* a bound on the numbers the model writes
  None

ASSUME GroundingAssumption ==
  /\ MAX_TRANSIENT_ATTEMPTS \in Nat \ {0}
  /\ MaxSearches \in Nat /\ MaxLookups \in Nat /\ MaxDraft \in Nat /\ MaxIndex \in Nat
  /\ TopKs \subseteq Nat \ {0}
  /\ IsFiniteSet(Chunks) /\ PaperOf \in [Chunks -> Papers]
  /\ SourcesOf \in [Concepts -> SUBSET Papers]
  /\ Close \in [Queries -> SUBSET Concepts]
  /\ Edges \subseteq Concepts \X Concepts
  /\ Stored \subseteq Chunks /\ Active \in Papers
  /\ None \notin [index : 0..MaxIndex, padded : BOOLEAN]

VARIABLES
  grants,      \* the papers the reader may read
  live,        \* the chunks that exist
  merged,      \* the concepts merged into another
  pc,          \* where the turn is
  attempt,     \* the attempt of the agent run
  searches,    \* searches counted against the bound
  lookups,     \* reads of memory counted against the bound
  scope,       \* TurnToolContext.paper_scope
  retrieved,   \* TurnToolContext.retrieved
  query,       \* the first of TurnToolContext.queries, the one recorded
  memory,      \* TurnToolContext.memory_seen, in which no concept is twice
  handed,      \* the passages this attempt's responses named, with their numbers
  told,        \* the memory records the model was given
  status,      \* grounding_status
  citations,   \* the verified citations, streamed to the reader
  rows         \* the turn_retrievals of the turn

world == <<grants, live, merged>>
passages == <<retrieved, query, handed>>
remembered == <<memory, told>>
answer == <<status, citations, rows>>
vars == <<world, pc, attempt, searches, lookups, scope, passages, remembered, answer>>

Position(e, s) == CHOOSE i \in DOMAIN s : s[i] = e

(* The elements of a set, in the order they have in a sequence. *)
InOrder(S, s) ==
  {t \in SetToSeqs(S) :
     \A i, j \in DOMAIN t : i < j => Position(t[i], s) < Position(t[j], s)}

AtMost(n, s) == SubSeq(s, 1, IF Len(s) < n THEN Len(s) ELSE n)

Marker == [index : 0..MaxIndex, padded : BOOLEAN]
Draft == [markers : SUBSET Marker, prose : BOOLEAN]
Passage == [index : Nat, chunk : Chunks]
Record == [concept : Concepts, related : SUBSET Concepts, sources : SUBSET Papers]
Citation == [marker : Marker, chunk : Chunks]
Row == [rank : Nat, chunk : Chunks, query : Queries, was_cited : BOOLEAN,
        marker : Marker \cup {None}]

(* The state is of this shape; a passage is retrieved once, and the papers *)
(* searched are the open one and at most one more (turns.py _scope_for, the *)
(* callback, and tools.py retrieve_paper_context).                          *)
TypeOK ==
  /\ grants \subseteq Papers /\ live \subseteq Chunks /\ merged \subseteq Concepts
  /\ pc \in {"scope", "prefetch", "gate", "agent", "persist", "stream",
             "done", "failed"}
  /\ attempt \in 1..MAX_TRANSIENT_ATTEMPTS
  /\ searches \in 0..MaxSearches /\ lookups \in 0..MaxLookups
  /\ scope \subseteq Papers /\ Cardinality(scope) <= 2
  /\ retrieved \in Seq(Chunks) /\ IsInjective(retrieved)
  /\ query \in Queries \cup {None}
  /\ memory \subseteq Concepts /\ handed \subseteq Passage /\ told \subseteq Record
  /\ status \in {"n/a", "grounded", "no_evidence", "degraded"}
  /\ citations \subseteq Citation /\ rows \subseteq Row

Init ==
  /\ grants \in SUBSET Papers /\ live = Stored /\ merged \in SUBSET Concepts
  /\ pc = "scope" /\ attempt = 1
  /\ searches \in 0..MaxSearches /\ lookups \in 0..MaxLookups
  /\ scope = {} /\ retrieved = <<>> /\ query = None /\ handed = {}
  /\ memory = {} /\ told = {}
  /\ status = "n/a" /\ citations = {} /\ rows = {}

-----------------------------------------------------------------------------
(* Retrieval. *)

(* The chunks the WHERE clause keeps. *)
Candidates(q, role) ==
  {c \in live : /\ PaperOf[c] \in scope \cap Indexed
                /\ RoleOf[c] # "references"
                /\ role \in {AnyRole, RoleOf[c]}}

(* The rows of the query: the nearest first, in any order when equally     *)
(* near, and at most three times what was asked for.  The index is          *)
(* approximate and may miss some.                                           *)
RowsFor(q, k, role) ==
  {s \in UNION {SetToSeqs(S) : S \in SUBSET Candidates(q, role)} :
     /\ Len(s) <= 3 * k
     /\ \A i, j \in DOMAIN s : i < j => Score[q][s[i]] >= Score[q][s[j]]}

(* Near enough, and the first with its text. *)
Relevant(q, found) ==
  {c \in ToSet(found) :
     /\ Score[q][c] >= Floor
     /\ \A d \in ToSet(found) :
          TextOf[d] = TextOf[c] => Position(c, found) <= Position(d, found)}

(* RetrievalService.retrieve *)
Results(q, k, role) ==
  UNION {{AtMost(k, s) : s \in InOrder(Relevant(q, found), found)} :
           found \in RowsFor(q, k, role)}

(* Mutant: what a search finds again is added again. *)
NumberedTwice(results) == {retrieved \o results}

(* A passage found before keeps its number, the new ones are added in the   *)
(* order they were found.                                                   *)
Numbered(results) ==
  {retrieved \o fresh : fresh \in InOrder(ToSet(results) \ ToSet(retrieved), results)}

-----------------------------------------------------------------------------
(* Learner memory. *)

Known == Concepts \ merged

(* MemoryService.nearest, of fewer concepts than its limit. *)
Nearest(q) == Close[q] \cap Known

(* MemoryService.by_name: the concept of that name or alias, or else the    *)
(* one nearest to the words, if any is near enough.                         *)
ByName(name) ==
  IF name \in Known THEN {{name}} ELSE {{}} \cup {{k} : k \in Known}

(* The edges at a set of concepts, seen from it, to concepts that stand. *)
Hop(frontier) ==
  {e \in frontier \X Known : e \in Edges \/ <<e[2], e[1]>> \in Edges}

(* MemoryService.neighbours *)
Neighbours(ids, depth) ==
  LET first == Hop(ids)
  IN IF depth = 1 THEN first ELSE first \cup Hop({e[2] : e \in first} \ ids)

(* MemoryRecord, and what get_concept_context adds to it. *)
RecordOf(k, edges, sources) ==
  [concept |-> k, related |-> {e[2] : e \in {e \in edges : e[1] = k}},
   sources |-> sources]

Remember(records) ==
  /\ told' = told \cup records
  /\ memory' = memory \cup {r.concept : r \in records}

RecordsOf(ids, related) ==
  {RecordOf(k, IF related THEN Neighbours(ids, 1) ELSE {}, {}) : k \in ids}

-----------------------------------------------------------------------------
(* The turn. *)

Goto(from, to) == pc = from /\ pc' = to

Fail == pc' = "failed"

(* TurnPipeline._scope_for *)
Scope ==
  /\ Goto("scope", "prefetch")
  /\ scope' = {Active} \cap grants
  /\ UNCHANGED <<world, attempt, searches, lookups, passages, remembered, answer>>

(* Memory is consulted whatever the agent will choose. *)
Prefetch(q) ==
  /\ Goto("prefetch", "gate")
  /\ Remember(RecordsOf(Nearest(q), TRUE))
  /\ UNCHANGED <<world, attempt, searches, lookups, scope, passages, answer>>

(* The callback gate: the scope may widen to one more paper, readable now. *)
Gate ==
  /\ Goto("gate", "agent")
  /\ \E prior \in {{}} \cup {{p} : p \in grants \ {Active}} : scope' = scope \cup prior
  /\ UNCHANGED <<world, attempt, searches, lookups, passages, remembered, answer>>

Lookup ==
  /\ pc = "agent" /\ lookups < MaxLookups
  /\ lookups' = lookups + 1
  /\ UNCHANGED <<world, pc, attempt, searches, scope, passages, answer>>

(* retrieve_paper_context *)
Search(q, k, role) ==
  /\ pc = "agent" /\ searches < MaxSearches
  /\ searches' = searches + 1
  /\ \E results \in Results(q, k, role) :
       /\ retrieved' \in Numbered(results)
       /\ handed' = handed \cup
            {[index |-> Position(c, retrieved'), chunk |-> c] :
               c \in ToSet(results)}
  /\ query' = IF query = None THEN q ELSE query
  /\ UNCHANGED <<world, pc, attempt, lookups, scope, remembered, answer>>

(* retrieve_learner_memory *)
RetrieveMemory(ids, related, onlyWeak) ==
  /\ Lookup
  /\ Remember(RecordsOf(IF onlyWeak THEN ids \cap Weak ELSE ids, related))

(* get_concept_context: the papers a concept came from are named to the     *)
(* model only if the reader may read them now.                              *)
GetConcept(name, depth) ==
  /\ Lookup
  /\ \E ids \in ByName(name) :
       Remember({RecordOf(k, Neighbours(ids, depth), SourcesOf[k] \cap grants) : k \in ids})

(* Mutant: the passages of the failed attempt stay. *)
ResetKeepingPassages ==
  /\ query' = None /\ handed' = {}
  /\ UNCHANGED <<retrieved, remembered>>

(* Mutant: the memory of the turn goes with the attempt. *)
ResetForgettingMemory ==
  /\ retrieved' = <<>> /\ query' = None /\ handed' = {} /\ memory' = {}
  /\ UNCHANGED told

(* _reset_for_retry.  The model's own session keeps what it was told. *)
Reset ==
  /\ retrieved' = <<>> /\ query' = None /\ handed' = {}
  /\ UNCHANGED remembered

(* A call of the model fails in a way worth waiting out. *)
Retry ==
  /\ pc = "agent" /\ attempt < MAX_TRANSIENT_ATTEMPTS
  /\ attempt' = attempt + 1
  /\ Reset
  /\ UNCHANGED <<world, pc, searches, lookups, scope, answer>>

(* AgentUnavailable, or the page goes away. *)
AgentFails ==
  /\ pc = "agent" /\ Fail
  /\ UNCHANGED <<world, attempt, searches, lookups, scope, passages, remembered, answer>>

-----------------------------------------------------------------------------
(* Verification, and the record of the turn. *)

(* The markers that name a passage retrieved in this turn. *)
Resolved(markers) == {m \in markers : m.index \in DOMAIN retrieved}

StatusOf(markers) ==
  IF retrieved = <<>> THEN "no_evidence"
  ELSE IF Resolved(markers) # {} THEN "grounded"
  ELSE IF markers # {} THEN "no_evidence" ELSE "degraded"

(* The model composes a draft; the markers it invented are taken out, and   *)
(* if no text is left there is no answer.                                   *)
Verify(d) ==
  /\ pc = "agent"
  /\ IF Resolved(d.markers) = {} /\ ~d.prose
     THEN Fail /\ UNCHANGED <<status, citations>>
     ELSE /\ pc' = "persist"
          /\ status' = StatusOf(d.markers)
          /\ citations' =
               {[marker |-> m, chunk |-> retrieved[m.index]] : m \in Resolved(d.markers)}
  /\ UNCHANGED <<world, attempt, searches, lookups, scope, passages, remembered, rows>>

(* Of two spellings of a number the plain one sorts last and is the one     *)
(* kept for the passage.                                                    *)
MarkerOf(c) ==
  LET cited == {d.marker : d \in {d \in citations : d.chunk = c}}
  IN IF cited = {} THEN None
     ELSE IF \E m \in cited : ~m.padded THEN CHOOSE m \in cited : ~m.padded
     ELSE CHOOSE m \in cited : TRUE

(* Mutant: the passages are ranked among those that were cited. *)
RankAmongCited(c) ==
  Cardinality({d.chunk : d \in {d \in citations : Position(d.chunk, retrieved) <= Position(c, retrieved)}})

Rank(c) == Position(c, retrieved)

RowOf(c) ==
  [rank |-> Rank(c), chunk |-> c, query |-> query,
   was_cited |-> c \in {d.chunk : d \in citations}, marker |-> MarkerOf(c)]

(* A row needs its chunk: one deleted meanwhile fails the turn. *)
Persist ==
  /\ pc = "persist"
  /\ IF ToSet(retrieved) \subseteq live
     THEN pc' = "stream" /\ rows' = {RowOf(c) : c \in ToSet(retrieved)}
     ELSE Fail /\ UNCHANGED rows
  /\ UNCHANGED <<world, attempt, searches, lookups, scope, passages, remembered,
                 status, citations>>

Stream ==
  /\ Goto("stream", "done")
  /\ UNCHANGED <<world, attempt, searches, lookups, scope, passages, remembered, answer>>

-----------------------------------------------------------------------------
(* What others do meanwhile. *)

Revoke(p) ==
  /\ p \in grants
  /\ grants' = grants \ {p}
  /\ UNCHANGED <<live, merged, pc, attempt, searches, lookups, scope, passages,
                 remembered, answer>>

(* The open paper is processed again, once: its chunks are replaced, and    *)
(* the rows that point at the old ones go with them.                        *)
Reprocess ==
  /\ live = Stored
  /\ live' = {c \in Chunks : (c \in Stored) # (PaperOf[c] = Active)}
  /\ rows' = {r \in rows : r.chunk \in live'}
  /\ UNCHANGED <<grants, merged, pc, attempt, searches, lookups, scope, passages,
                 remembered, status, citations>>

(* A first concept is merged into another. *)
Merge(k) ==
  /\ merged = {} /\ merged' = {k}
  /\ UNCHANGED <<grants, live, pc, attempt, searches, lookups, scope, passages,
                 remembered, answer>>

TurnStep ==
  \/ Scope
  \/ \E q \in Queries : Prefetch(q)
  \/ Gate
  \/ \E q \in Queries, k \in TopKs, role \in {RoleOf[c] : c \in Chunks} \cup {AnyRole} :
       Search(q, k, role)
  \/ \E q \in Queries, related, weak \in BOOLEAN : RetrieveMemory(Nearest(q), related, weak)
  \/ \E name \in Concepts, weak \in BOOLEAN : \E ids \in ByName(name) :
       RetrieveMemory(ids, TRUE, weak)
  \/ RetrieveMemory(Confident \cap Known, TRUE, FALSE)
  \/ \E name \in Concepts, depth \in 1..2 : GetConcept(name, depth)
  \/ Retry
  \/ AgentFails
  \/ \E d \in Draft : Cardinality(d.markers) <= MaxDraft /\ Verify(d)
  \/ Persist
  \/ Stream

OtherStep ==
  \/ \E p \in Papers : Revoke(p)
  \/ Reprocess
  \/ \E k \in Concepts : Merge(k)

(* The turn is over. *)
Over == pc \in {"done", "failed"} /\ UNCHANGED vars

Next == TurnStep \/ OtherStep \/ Over

Spec == Init /\ [][Next]_vars

-----------------------------------------------------------------------------
(* A citation the reader is shown points at the one passage the model was   *)
(* given under that number in the attempt that composed the answer: no      *)
(* later search moves a number, and no passage of a failed attempt can be   *)
(* cited (tools.py retrieve_paper_context, runner.py _reset_for_retry,      *)
(* citations.py verify).                                                    *)
CitedIsWhatWasHanded ==
  \A c \in citations :
    LET named == {p \in handed : p.index = c.marker.index}
    IN named # {} /\ \A p \in named : p.chunk = c.chunk

(* GET /api/turns/{turn_id}/citations *)
Listed == {[marker |-> r.marker, chunk |-> r.chunk] : r \in {r \in rows : r.was_cited}}

(* What a reload lists for an answer is what was streamed with it, as far   *)
(* as the cited chunks still exist: every listed citation was streamed,     *)
(* every streamed one is listed under one of its spellings and at the rank  *)
(* it names, and the answer claims to be grounded exactly when it cites     *)
(* (turns.py _persist, routers/memory.py list_turn_citations).              *)
ReloadShowsTheAnswer ==
  pc \in {"stream", "done"} =>
    /\ Listed \subseteq citations
    /\ \A r \in rows : r.was_cited <=> r.marker # None
    /\ \A c \in citations : c.chunk \in live =>
         \E r \in rows : /\ r.chunk = c.chunk /\ r.was_cited
                         /\ r.rank = c.marker.index /\ r.marker.index = r.rank
    /\ status = "grounded" <=> citations # {}

(* The concepts the turn reports it remembered are those of the records the *)
(* model was given, by whichever attempt and by whichever path              *)
(* (turns.py memory_read and MemoryUsedEvent, runner.py _reset_for_retry).  *)
MemoryIsAccountedFor == memory = {r.concept : r \in told}
=============================================================================
