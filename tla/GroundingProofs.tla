-------------------------- MODULE GroundingProofs --------------------------
(***************************************************************************)
(* Grounding for every reader, paper and concept graph: what a citation    *)
(* and a listed citation rest on, what the turn says it remembered, and    *)
(* what a deeper look at a concept adds.                                   *)
(***************************************************************************)
EXTENDS Grounding, TLAPS, FiniteSetTheorems, SequenceTheorems

-----------------------------------------------------------------------------
(* Sequences of passages. *)

(* An enumeration of a finite set in some order lists it once. *)
LEMMA InOrderLists ==
  ASSUME NEW S, IsFiniteSet(S), NEW s, NEW t \in InOrder(S, s)
  PROVE  t \in Seq(S) /\ IsInjective(t) /\ ToSet(t) = S
<1> DEFINE D == 1 .. Cardinality(S)
<1>1. Cardinality(S) \in Nat
  BY FS_CardinalityType
<1>2. t \in [D -> S] /\ \A i, j \in D : i # j => t[i] # t[j]
  BY DEF InOrder, SetToSeqs
<1>3. t \in Injection(D, S)
  BY <1>2 DEF Injection, IsInjective
<1>4. Cardinality(D) = Cardinality(S)
  BY <1>1, FS_Interval
<1>5. t \in Surjection(D, S)
  BY <1>3, <1>4, FS_Injection
<1>6. t \in Seq(S)
  BY <1>1, <1>2
<1> QED
  BY <1>2, <1>3, <1>5, <1>6 DEF Injection, Surjection, ToSet

(* The elements of a sequence are finitely many. *)
LEMMA ToSetFinite ==
  ASSUME NEW S, NEW s \in Seq(S)
  PROVE  IsFiniteSet(ToSet(s)) /\ ToSet(s) \subseteq S
<1>1. s \in [1 .. Len(s) -> S] /\ Len(s) \in Nat
  BY LenProperties
<1>2. s \in Surjection(1 .. Len(s), ToSet(s))
  BY <1>1 DEF Surjection, ToSet
<1>3. IsFiniteSet(1 .. Len(s))
  BY <1>1, FS_Interval
<1> QED
  BY <1>1, <1>2, <1>3, FS_Surjection DEF ToSet

(* An element of a sequence is at its position. *)
LEMMA PositionIs ==
  ASSUME NEW s, NEW e \in ToSet(s)
  PROVE  Position(e, s) \in DOMAIN s /\ s[Position(e, s)] = e
  BY DEF Position, ToSet

(* In a sequence without repetition it is at no other. *)
LEMMA PositionOf ==
  ASSUME NEW s, IsInjective(s), NEW i \in DOMAIN s
  PROVE  Position(s[i], s) = i
  BY DEF Position, IsInjective

(* What a search returns is a sequence of chunks. *)
LEMMA ResultsAreChunks ==
  ASSUME GroundingAssumption, live \subseteq Chunks, NEW q, NEW k \in TopKs, NEW role,
         NEW results \in Results(q, k, role)
  PROVE  results \in Seq(Chunks)
<1>1. PICK found \in RowsFor(q, k, role) :
             \E s \in InOrder(Relevant(q, found), found) : results = AtMost(k, s)
  BY DEF Results
<1>2. PICK s \in InOrder(Relevant(q, found), found) : results = AtMost(k, s)
  BY <1>1
<1>3. PICK S \in SUBSET Candidates(q, role) : found \in SetToSeqs(S)
  BY DEF RowsFor
<1>4. S \subseteq Chunks /\ found \in [1 .. Cardinality(S) -> S]
  BY <1>3 DEF SetToSeqs, Candidates
<1>5. IsFiniteSet(S) /\ Cardinality(S) \in Nat
  BY <1>4, FS_Subset, FS_CardinalityType DEF GroundingAssumption
<1>6. found \in Seq(Chunks)
  BY <1>4, <1>5
<1>7. Relevant(q, found) \subseteq Chunks /\ IsFiniteSet(Relevant(q, found))
  BY <1>6, ToSetFinite, FS_Subset DEF Relevant
<1>8. s \in Seq(Chunks)
  BY <1>2, <1>7, InOrderLists, SeqMonotonic
<1>9. k \in Nat
  BY DEF GroundingAssumption
<1> QED
  BY <1>2, <1>8, <1>9, LenProperties, SubSeqProperties DEF AtMost

-----------------------------------------------------------------------------
(* The inductive invariant. *)

(* A passage has the number it was handed over with, and no other; until    *)
(* the callback gate only the open paper is searched.                       *)
HandedInv ==
  /\ \A p \in handed : p.index \in DOMAIN retrieved /\ retrieved[p.index] = p.chunk
  /\ \A i \in DOMAIN retrieved : \E p \in handed : p.index = i
  /\ retrieved # <<>> => query \in Queries
  /\ pc \in {"scope", "prefetch", "gate"} => scope \subseteq {Active}

(* A citation is of the passage of its number, and the answer claims to be  *)
(* grounded when there is one.                                              *)
CitedInv ==
  /\ pc \in {"scope", "prefetch", "gate", "agent"} => citations = {}
  /\ \A c \in citations :
       c.marker.index \in DOMAIN retrieved /\ retrieved[c.marker.index] = c.chunk
  /\ pc \in {"persist", "stream", "done"} => (status = "grounded" <=> citations # {})

(* The rows are those of the passages whose chunks are still there, which   *)
(* is all of them until the paper is processed again.                       *)
RowsInv ==
  pc \in {"stream", "done"} =>
    /\ \A r \in rows : \E c \in ToSet(retrieved) : r = RowOf(c)
    /\ \A c \in ToSet(retrieved) \cap live : RowOf(c) \in rows
    /\ live = Stored => ToSet(retrieved) \subseteq live

IInv == TypeOK /\ HandedInv /\ CitedInv /\ RowsInv

LEMMA InitInv == GroundingAssumption /\ Init => IInv
<1> SUFFICES ASSUME GroundingAssumption, Init PROVE IInv
  OBVIOUS
<1>1. Cardinality(scope) <= 2
  BY FS_EmptySet DEF Init
<1>2. retrieved \in Seq(Chunks) /\ IsInjective(retrieved)
  BY DEF Init, IsInjective
<1>3. TypeOK
  BY <1>1, <1>2 DEF Init, TypeOK, GroundingAssumption
<1> QED
  BY <1>3 DEF Init, IInv, HandedInv, CitedInv, RowsInv

-----------------------------------------------------------------------------
(* Each step. *)

(* The memory records handed over are of concepts and papers. *)
LEMMA RememberTyped ==
  ASSUME TypeOK, NEW records, records \subseteq Record, Remember(records)
  PROVE  told' \subseteq Record /\ memory' \subseteq Concepts
  BY DEF TypeOK, Remember, Record

LEMMA RecordTyped ==
  ASSUME NEW k \in Concepts, NEW edges, \A e \in edges : e[2] \in Concepts,
         NEW sources \in SUBSET Papers
  PROVE  RecordOf(k, edges, sources) \in Record
  BY DEF RecordOf, Record

LEMMA NeighboursTyped ==
  ASSUME NEW ids, NEW depth
  PROVE  \A e \in Neighbours(ids, depth) : e[2] \in Concepts
  BY DEF Neighbours, Hop, Known

LEMMA RecordsTyped ==
  ASSUME NEW ids \in SUBSET Concepts, NEW related \in BOOLEAN
  PROVE  RecordsOf(ids, related) \subseteq Record
  BY RecordTyped, NeighboursTyped DEF RecordsOf

(* A step that touches neither passages nor answer, and stays before the    *)
(* answer.                                                                  *)
LEMMA MemoryStep ==
  ASSUME GroundingAssumption, IInv, NEW records, records \subseteq Record,
         Remember(records), pc \in {"prefetch", "agent"},
         pc' \in {"gate", "agent"}, pc = "agent" => pc' = "agent",
         lookups' \in 0..MaxLookups,
         UNCHANGED <<world, attempt, searches, scope, passages, answer>>
  PROVE  IInv'
<1>1. told' \subseteq Record /\ memory' \subseteq Concepts
  BY RememberTyped DEF IInv
<1>2. TypeOK'
  BY <1>1 DEF IInv, TypeOK, world, passages, answer
<1> QED
  BY <1>2 DEF IInv, HandedInv, CitedInv, RowsInv, world, passages, answer

LEMMA PrefetchInv ==
  ASSUME GroundingAssumption, IInv, NEW q \in Queries, Prefetch(q) PROVE IInv'
<1>1. RecordsOf(Nearest(q), TRUE) \subseteq Record
  BY RecordsTyped DEF Nearest, Known
<1> QED
  BY <1>1, MemoryStep DEF Prefetch, Goto, IInv, TypeOK

LEMMA RetrieveMemoryInv ==
  ASSUME GroundingAssumption, IInv, NEW ids \in SUBSET Concepts, NEW related \in BOOLEAN,
         NEW weak \in BOOLEAN, RetrieveMemory(ids, related, weak)
  PROVE  IInv'
<1>1. RecordsOf(IF weak THEN ids \cap Weak ELSE ids, related) \subseteq Record
  BY RecordsTyped
<1>2. lookups' \in 0..MaxLookups
  BY DEF RetrieveMemory, Lookup, IInv, TypeOK, GroundingAssumption
<1> QED
  BY <1>1, <1>2, MemoryStep DEF RetrieveMemory, Lookup

LEMMA ByNameTyped ==
  ASSUME NEW name \in Concepts, NEW ids \in ByName(name)
  PROVE  ids \in SUBSET Concepts
  BY DEF ByName, Known

LEMMA GetConceptInv ==
  ASSUME GroundingAssumption, IInv, NEW name \in Concepts, NEW depth, GetConcept(name, depth)
  PROVE  IInv'
<1>1. PICK ids \in ByName(name) :
        Remember({RecordOf(k, Neighbours(ids, depth), SourcesOf[k] \cap grants) : k \in ids})
  BY DEF GetConcept
<1>2. {RecordOf(k, Neighbours(ids, depth), SourcesOf[k] \cap grants) : k \in ids}
        \subseteq Record
  <2>1. \A k \in ids : k \in Concepts /\ SourcesOf[k] \cap grants \in SUBSET Papers
    BY ByNameTyped DEF IInv, TypeOK
  <2> DEFINE edges == Neighbours(ids, depth)
  <2>2. \A e \in edges : e[2] \in Concepts
    BY NeighboursTyped
  <2> HIDE DEF edges
  <2>3. \A k \in ids : RecordOf(k, edges, SourcesOf[k] \cap grants) \in Record
    BY <2>1, <2>2, RecordTyped
  <2> QED
    BY <2>3 DEF edges
<1>3. lookups' \in 0..MaxLookups
  BY DEF GetConcept, Lookup, IInv, TypeOK, GroundingAssumption
<1> QED
  BY <1>1, <1>2, <1>3, MemoryStep DEF GetConcept, Lookup

(* None or one is finitely many. *)
LEMMA NoneOrOne ==
  ASSUME NEW S, NEW x, S = {} \/ S = {x}
  PROVE  IsFiniteSet(S) /\ Cardinality(S) \in 0..1
<1>1. CASE S = {}
  <2>1. IsFiniteSet(S) /\ Cardinality(S) = 0
    BY <1>1, FS_EmptySet
  <2> QED
    BY <2>1
<1>2. CASE S = {x}
  <2>1. IsFiniteSet(S) /\ Cardinality(S) = 1
    BY <1>2, FS_Singleton
  <2> QED
    BY <2>1
<1> QED
  BY <1>1, <1>2

LEMMA ScopeInv == ASSUME GroundingAssumption, IInv, Scope PROVE IInv'
<1>1. scope' \subseteq {Active} /\ scope' \subseteq Papers
  BY DEF Scope, GroundingAssumption
<1>2. Cardinality(scope') <= 2
  <2>1. scope' = {} \/ scope' = {Active}
    BY <1>1
  <2> QED
    BY <2>1, NoneOrOne
<1>3. TypeOK'
  BY <1>1, <1>2 DEF Scope, Goto, IInv, TypeOK, world, passages, remembered, answer
<1> QED
  BY <1>1, <1>3 DEF Scope, Goto, IInv, HandedInv, CitedInv, RowsInv, world, passages, answer

LEMMA GateInv == ASSUME GroundingAssumption, IInv, Gate PROVE IInv'
<1>1. PICK prior \in {{}} \cup {{p} : p \in grants \ {Active}} : scope' = scope \cup prior
  BY DEF Gate
<1>2. scope \subseteq {Active} /\ scope \subseteq Papers /\ prior \subseteq Papers
  BY <1>1 DEF Gate, Goto, IInv, HandedInv, TypeOK
<1>3. Cardinality(scope') <= 2
  <2>1. /\ IsFiniteSet(scope) /\ Cardinality(scope) \in 0..1
        /\ IsFiniteSet(prior) /\ Cardinality(prior) \in 0..1
    <3>1. scope = {} \/ scope = {Active}
      BY <1>2
    <3>2. prior = {} \/ \E p \in grants : prior = {p}
      BY <1>1
    <3> QED
      BY <3>1, <3>2, NoneOrOne
  <2>2. Cardinality(scope \cap prior) \in Nat
    BY <2>1, FS_Intersection, FS_CardinalityType
  <2>3. Cardinality(scope \cup prior)
          = Cardinality(scope) + Cardinality(prior) - Cardinality(scope \cap prior)
    BY <2>1, FS_Union
  <2> QED
    BY <1>1, <2>1, <2>2, <2>3
<1>4. TypeOK'
  BY <1>1, <1>2, <1>3
     DEF Gate, Goto, IInv, TypeOK, world, passages, remembered, answer
<1> QED
  BY <1>4 DEF Gate, Goto, IInv, HandedInv, CitedInv, RowsInv, world, passages, answer

(* A search adds what it newly found, and moves no number. *)
LEMMA SearchNumbers ==
  ASSUME GroundingAssumption, IInv, NEW results \in Seq(Chunks),
         retrieved' \in Numbered(results)
  PROVE  /\ retrieved' \in Seq(Chunks) /\ IsInjective(retrieved')
         /\ \A i \in DOMAIN retrieved : i \in DOMAIN retrieved' /\ retrieved'[i] = retrieved[i]
         /\ ToSet(retrieved') = ToSet(retrieved) \cup ToSet(results)
<1> DEFINE New == ToSet(results) \ ToSet(retrieved)
<1>1. PICK fresh \in InOrder(New, results) : retrieved' = retrieved \o fresh
  BY DEF Numbered
<1>2. IsFiniteSet(New) /\ New \subseteq Chunks
  BY ToSetFinite, FS_Difference
<1>3. fresh \in Seq(New) /\ IsInjective(fresh) /\ ToSet(fresh) = New
  BY <1>2, InOrderLists
<1>4. fresh \in Seq(Chunks)
  BY <1>2, <1>3, SeqMonotonic
<1>5. retrieved \in Seq(Chunks) /\ IsInjective(retrieved)
  BY DEF IInv, TypeOK
<1> DEFINE m == Len(retrieved)  n == Len(fresh)
<1>6. /\ retrieved' \in Seq(Chunks) /\ Len(retrieved') = m + n
      /\ \A i \in 1 .. m + n : retrieved'[i] = IF i <= m THEN retrieved[i] ELSE fresh[i - m]
  BY <1>1, <1>4, <1>5, ConcatProperties
<1>7. /\ m \in Nat /\ n \in Nat
      /\ DOMAIN retrieved = 1 .. m /\ DOMAIN fresh = 1 .. n /\ DOMAIN retrieved' = 1 .. m + n
  BY <1>4, <1>5, <1>6, LenProperties
<1> HIDE DEF m, n
<1>8. \A i \in 1 .. m : retrieved'[i] = retrieved[i] /\ i \in 1 .. m + n
  BY <1>6, <1>7
<1>9. \A j \in 1 .. n : retrieved'[m + j] = fresh[j] /\ m + j \in 1 .. m + n
  BY <1>6, <1>7
<1>10. \A i \in 1 .. m + n : i \in 1 .. m \/ \E j \in 1 .. n : i = m + j
  <2> TAKE i \in 1 .. m + n
  <2>1. CASE i <= m
    BY <1>7, <2>1
  <2>2. CASE ~ (i <= m)
    <3>1. i - m \in 1 .. n /\ i = m + (i - m)
      BY <1>7, <2>2
    <3> QED
      BY <3>1
  <2> QED
    BY <2>1, <2>2
<1>11. \A i \in 1 .. m, j \in 1 .. n : retrieved[i] # fresh[j]
  BY <1>3, <1>7 DEF ToSet
<1>12. IsInjective(retrieved')
  <2> SUFFICES ASSUME NEW a \in 1 .. m + n, NEW b \in 1 .. m + n,
                      retrieved'[a] = retrieved'[b]
               PROVE  a = b
    BY <1>7 DEF IsInjective
  <2>1. CASE a \in 1 .. m /\ b \in 1 .. m
    BY <1>5, <1>7, <1>8, <2>1 DEF IsInjective
  <2>2. CASE (a \in 1 .. m) # (b \in 1 .. m)
    BY <1>8, <1>9, <1>10, <1>11, <2>2
  <2>3. CASE a \notin 1 .. m /\ b \notin 1 .. m
    <3>1. PICK i \in 1 .. n, j \in 1 .. n : a = m + i /\ b = m + j
      BY <1>10, <2>3
    <3> QED
      BY <1>3, <1>7, <1>9, <3>1 DEF IsInjective
  <2> QED
    BY <2>1, <2>2, <2>3
<1>13. ToSet(retrieved') = ToSet(retrieved) \cup ToSet(fresh)
  <2>1. \A x : x \in ToSet(retrieved') <=> \E i \in 1 .. m + n : x = retrieved'[i]
    BY <1>7 DEF ToSet
  <2>2. \A x : x \in ToSet(retrieved) <=> \E i \in 1 .. m : x = retrieved[i]
    BY <1>7 DEF ToSet
  <2>3. \A x : x \in ToSet(fresh) <=> \E i \in 1 .. n : x = fresh[i]
    BY <1>7 DEF ToSet
  <2>4. ToSet(retrieved') \subseteq ToSet(retrieved) \cup ToSet(fresh)
    BY <1>8, <1>9, <1>10, <2>1, <2>2, <2>3
  <2>5. ToSet(retrieved) \subseteq ToSet(retrieved')
    BY <1>8, <2>1, <2>2
  <2>6. ToSet(fresh) \subseteq ToSet(retrieved')
    BY <1>9, <2>1, <2>3
  <2> QED
    BY <2>4, <2>5, <2>6
<1> QED
  BY <1>3, <1>6, <1>7, <1>8, <1>12, <1>13

LEMMA SearchInv ==
  ASSUME GroundingAssumption, IInv, NEW q \in Queries, NEW k \in TopKs, NEW role,
         Search(q, k, role)
  PROVE  IInv'
<1>1. PICK results \in Results(q, k, role) :
        /\ retrieved' \in Numbered(results)
        /\ handed' = handed \cup
             {[index |-> Position(c, retrieved'), chunk |-> c] : c \in ToSet(results)}
  BY DEF Search
<1>2. results \in Seq(Chunks)
  BY ResultsAreChunks DEF IInv, TypeOK
<1>3. /\ retrieved' \in Seq(Chunks) /\ IsInjective(retrieved')
      /\ \A i \in DOMAIN retrieved :
           i \in DOMAIN retrieved' /\ retrieved'[i] = retrieved[i]
      /\ ToSet(retrieved') = ToSet(retrieved) \cup ToSet(results)
  BY <1>1, <1>2, SearchNumbers
<1>4. \A c \in ToSet(results) : /\ Position(c, retrieved') \in DOMAIN retrieved'
                                /\ retrieved'[Position(c, retrieved')] = c
  BY <1>3, PositionIs
<1>5. DOMAIN retrieved' \subseteq Nat /\ ToSet(results) \subseteq Chunks
  <2>1. DOMAIN retrieved' = 1 .. Len(retrieved')
    BY <1>3, LenProperties
  <2> QED
    BY <1>2, <2>1, ToSetFinite
<1>6. /\ pc = "agent" /\ pc' = "agent" /\ searches' \in 0..MaxSearches
      /\ query' \in Queries
      /\ UNCHANGED <<world, attempt, lookups, scope, remembered, answer>>
  BY DEF Search, IInv, TypeOK, GroundingAssumption
<1>7. handed' \subseteq Passage
  BY <1>1, <1>4, <1>5 DEF IInv, TypeOK, Passage
<1>8. TypeOK'
  BY <1>3, <1>6, <1>7 DEF IInv, TypeOK, world, remembered, answer
<1>9. \A p \in handed' : p.index \in DOMAIN retrieved' /\ retrieved'[p.index] = p.chunk
  BY <1>1, <1>3, <1>4 DEF IInv, HandedInv
<1>10. \A i \in DOMAIN retrieved' : \E p \in handed' : p.index = i
  <2> TAKE i \in DOMAIN retrieved'
  <2>1. retrieved'[i] \in ToSet(retrieved) \/ retrieved'[i] \in ToSet(results)
    BY <1>3 DEF ToSet
  <2>2. CASE retrieved'[i] \in ToSet(retrieved)
    <3>1. PICK j \in DOMAIN retrieved : retrieved[j] = retrieved'[i]
      BY <2>2 DEF ToSet
    <3>2. j = i
      BY <1>3, <3>1 DEF IsInjective
    <3> QED
      BY <1>1, <3>2 DEF IInv, HandedInv
  <2>3. CASE retrieved'[i] \in ToSet(results)
    <3>1. Position(retrieved'[i], retrieved') = i
      BY <1>3, PositionOf
    <3>2. [index |-> i, chunk |-> retrieved'[i]] \in handed'
      BY <1>1, <2>3, <3>1
    <3> QED
      BY <3>2
  <2> QED
    BY <2>1, <2>2, <2>3
<1>11. HandedInv'
  BY <1>6, <1>9, <1>10 DEF HandedInv
<1> QED
  BY <1>6, <1>8, <1>11 DEF IInv, CitedInv, RowsInv, answer

LEMMA RetryInv == ASSUME GroundingAssumption, IInv, Retry PROVE IInv'
<1>1. /\ retrieved' = <<>> /\ query' = None /\ handed' = {}
      /\ pc = "agent" /\ pc' = "agent" /\ attempt' \in 1..MAX_TRANSIENT_ATTEMPTS
      /\ UNCHANGED <<world, searches, lookups, scope, remembered, answer>>
  BY DEF Retry, Reset, IInv, TypeOK, GroundingAssumption
<1>2. retrieved' \in Seq(Chunks) /\ IsInjective(retrieved')
  BY <1>1 DEF IsInjective
<1>3. TypeOK'
  BY <1>1, <1>2 DEF IInv, TypeOK, world, remembered, answer
<1> QED
  BY <1>1, <1>3 DEF IInv, HandedInv, CitedInv, RowsInv, answer

LEMMA VerifyInv == ASSUME GroundingAssumption, IInv, NEW d \in Draft, Verify(d) PROVE IInv'
<1>1. /\ pc = "agent"
      /\ UNCHANGED <<world, attempt, searches, lookups, scope, passages, remembered, rows>>
  BY DEF Verify
<1>2. CASE Fail /\ UNCHANGED <<status, citations>>
  <2>1. TypeOK'
    BY <1>1, <1>2 DEF Fail, IInv, TypeOK, world, passages, remembered
  <2> QED
    BY <1>1, <1>2, <2>1 DEF Fail, IInv, HandedInv, CitedInv, RowsInv, passages
<1>3. CASE /\ pc' = "persist" /\ status' = StatusOf(d.markers)
           /\ citations' = {[marker |-> m, chunk |-> retrieved[m.index]] :
                             m \in Resolved(d.markers)}
  <2>1. d.markers \subseteq Marker
    BY DEF Draft
  <2>2. \A m \in Resolved(d.markers) :
          m \in Marker /\ m.index \in DOMAIN retrieved /\ retrieved[m.index] \in Chunks
    BY <2>1 DEF Resolved, IInv, TypeOK
  <2>3. citations' \subseteq Citation
    BY <1>3, <2>2 DEF Citation
  <2>4. status' \in {"grounded", "no_evidence", "degraded"}
    BY <1>3 DEF StatusOf
  <2>5. TypeOK'
    BY <1>1, <1>3, <2>3, <2>4 DEF IInv, TypeOK, world, passages, remembered
  <2>6. \A c \in citations' :
          c.marker.index \in DOMAIN retrieved /\ retrieved[c.marker.index] = c.chunk
    BY <1>3, <2>2
  <2>7. citations' # {} <=> Resolved(d.markers) # {}
    <3>1. \A m \in Resolved(d.markers) :
            [marker |-> m, chunk |-> retrieved[m.index]] \in citations'
      BY <1>3
    <3>2. \A c \in citations' : \E m \in Resolved(d.markers) : c.marker = m
      BY <1>3
    <3> QED
      BY <3>1, <3>2
  <2>8. Resolved(d.markers) # {} => retrieved # <<>>
    BY <2>2 DEF IInv, TypeOK
  <2>9. status' = "grounded" <=> citations' # {}
    BY <1>3, <2>7, <2>8 DEF StatusOf
  <2>10. CitedInv'
    BY <1>1, <1>3, <2>6, <2>9 DEF CitedInv, passages
  <2> QED
    BY <1>1, <1>3, <2>5, <2>10 DEF IInv, HandedInv, RowsInv, passages
<1> QED
  BY <1>2, <1>3 DEF Verify

(* The marker recorded for a cited passage is one it was cited under. *)
LEMMA MarkerOfCited ==
  ASSUME GroundingAssumption, IInv, NEW c
  PROVE  /\ MarkerOf(c) \in Marker \cup {None}
         /\ MarkerOf(c) # None <=> c \in {d.chunk : d \in citations}
         /\ MarkerOf(c) # None => [marker |-> MarkerOf(c), chunk |-> c] \in citations
<1> DEFINE cited == {d.marker : d \in {d \in citations : d.chunk = c}}
<1>1. citations \subseteq Citation /\ None \notin Marker
  BY DEF IInv, TypeOK, GroundingAssumption, Marker
<1>2. cited \subseteq Marker
  BY <1>1 DEF Citation
<1>3. \A m \in cited : [marker |-> m, chunk |-> c] \in citations
  <2> TAKE m \in cited
  <2>1. PICK d \in citations : d.chunk = c /\ d.marker = m
    OBVIOUS
  <2>2. d = [marker |-> m, chunk |-> c]
    BY <1>1, <2>1 DEF Citation
  <2> QED
    BY <2>2
<1>4. cited # {} <=> c \in {d.chunk : d \in citations}
  OBVIOUS
<1> HIDE DEF cited
<1>5. MarkerOf(c) = IF cited = {} THEN None
                    ELSE IF \E m \in cited : ~m.padded THEN CHOOSE m \in cited : ~m.padded
                    ELSE CHOOSE m \in cited : TRUE
  BY DEF MarkerOf, cited
<1>6. cited # {} => MarkerOf(c) \in cited
  BY <1>5
<1> QED
  BY <1>1, <1>2, <1>3, <1>4, <1>5, <1>6

LEMMA RowTyped ==
  ASSUME GroundingAssumption, IInv, NEW c \in ToSet(retrieved)
  PROVE  RowOf(c) \in Row
<1>1. retrieved \in Seq(Chunks)
  BY DEF IInv, TypeOK
<1>2. Position(c, retrieved) \in Nat /\ c \in Chunks
  BY <1>1, PositionIs, LenProperties, ToSetFinite
<1>3. query \in Queries
  BY DEF ToSet, IInv, HandedInv
<1>4. MarkerOf(c) \in Marker \cup {None}
  BY MarkerOfCited
<1> QED
  BY <1>2, <1>3, <1>4 DEF RowOf, Rank, Row

LEMMA PersistInv == ASSUME GroundingAssumption, IInv, Persist PROVE IInv'
<1>1. /\ pc = "persist"
      /\ UNCHANGED <<world, attempt, searches, lookups, scope, passages, remembered,
                     status, citations>>
  BY DEF Persist
<1>2. CASE Fail /\ UNCHANGED rows
  <2>1. TypeOK'
    BY <1>1, <1>2 DEF Fail, IInv, TypeOK, world, passages, remembered
  <2> QED
    BY <1>1, <1>2, <2>1 DEF Fail, IInv, HandedInv, CitedInv, RowsInv, passages
<1>3. CASE /\ ToSet(retrieved) \subseteq live /\ pc' = "stream"
           /\ rows' = {RowOf(c) : c \in ToSet(retrieved)}
  <2>1. rows' \subseteq Row
    BY <1>3, RowTyped
  <2>2. TypeOK'
    BY <1>1, <1>3, <2>1 DEF IInv, TypeOK, world, passages, remembered
  <2>3. \A c : RowOf(c)' = RowOf(c)
    BY <1>1 DEF RowOf, Rank, MarkerOf, passages
  <2>4. ToSet(retrieved)' = ToSet(retrieved) /\ live' = live
    BY <1>1 DEF passages, world
  <2>5. RowsInv'
    BY <1>3, <2>3, <2>4 DEF RowsInv
  <2> QED
    BY <1>1, <1>3, <2>2, <2>5 DEF IInv, HandedInv, CitedInv, passages
<1> QED
  BY <1>2, <1>3 DEF Persist

LEMMA ReprocessInv == ASSUME GroundingAssumption, IInv, Reprocess PROVE IInv'
<1>1. /\ live = Stored /\ live' \subseteq Chunks
      /\ rows' = {r \in rows : r.chunk \in live'}
      /\ UNCHANGED <<grants, merged, pc, attempt, searches, lookups, scope, passages,
                     remembered, status, citations>>
  BY DEF Reprocess
<1>2. TypeOK'
  BY <1>1 DEF IInv, TypeOK, passages, remembered
<1>3. RowsInv'
  <2>1. \A c : RowOf(c)' = RowOf(c)
    BY <1>1 DEF RowOf, Rank, MarkerOf, passages
  <2>2. ToSet(retrieved)' = ToSet(retrieved)
    BY <1>1 DEF passages
  <2> SUFFICES ASSUME pc \in {"stream", "done"}
               PROVE  /\ \A r \in rows' : \E c \in ToSet(retrieved) : r = RowOf(c)
                      /\ \A c \in ToSet(retrieved) \cap live' : RowOf(c) \in rows'
                      /\ live' = Stored => ToSet(retrieved) \subseteq live'
    BY <1>1, <2>1, <2>2 DEF RowsInv
  <2>3. /\ ToSet(retrieved) \subseteq live
        /\ \A c \in ToSet(retrieved) : RowOf(c) \in rows
        /\ \A r \in rows : \E c \in ToSet(retrieved) : r = RowOf(c)
    BY <1>1 DEF IInv, RowsInv
  <2>4. \A c : RowOf(c).chunk = c
    BY DEF RowOf
  <2> QED
    BY <1>1, <2>3, <2>4
<1> QED
  BY <1>1, <1>2, <1>3 DEF IInv, HandedInv, CitedInv, passages

(* The other steps leave the passages and the answer alone. *)
LEMMA OtherInv ==
  ASSUME IInv,
         AgentFails \/ Stream \/ (\E p \in Papers : Revoke(p))
         \/ (\E k \in Concepts : Merge(k)) \/ UNCHANGED vars
  PROVE  IInv'
<1>1. /\ UNCHANGED <<live, attempt, searches, lookups, scope, passages, remembered, answer>>
      /\ grants' \subseteq Papers /\ merged' \subseteq Concepts
      /\ \/ pc' = pc
         \/ pc = "agent" /\ pc' = "failed"
         \/ pc = "stream" /\ pc' = "done"
  BY DEF AgentFails, Fail, Stream, Goto, Revoke, Merge, vars, world, IInv, TypeOK
<1>2. TypeOK'
  BY <1>1 DEF IInv, TypeOK, passages, remembered, answer
<1>3. HandedInv'
  BY <1>1 DEF IInv, HandedInv, passages
<1>4. CitedInv'
  BY <1>1 DEF IInv, CitedInv, passages, answer
<1>5. RowsInv'
  <2>1. \A c : RowOf(c)' = RowOf(c)
    BY <1>1 DEF RowOf, Rank, MarkerOf, passages, answer
  <2>2. ToSet(retrieved)' = ToSet(retrieved) /\ rows' = rows
    BY <1>1 DEF passages, answer
  <2> QED
    BY <1>1, <2>1, <2>2 DEF IInv, RowsInv
<1> QED
  BY <1>2, <1>3, <1>4, <1>5 DEF IInv

LEMMA NextInv == GroundingAssumption /\ IInv /\ [Next]_vars => IInv'
<1> SUFFICES ASSUME GroundingAssumption, IInv, [Next]_vars PROVE IInv'
  OBVIOUS
<1>1. CASE \/ \E q \in Queries, related, weak \in BOOLEAN :
                RetrieveMemory(Nearest(q), related, weak)
           \/ \E name \in Concepts, weak \in BOOLEAN : \E ids \in ByName(name) :
                RetrieveMemory(ids, TRUE, weak)
           \/ RetrieveMemory(Confident \cap Known, TRUE, FALSE)
  <2>1. \A q : Nearest(q) \in SUBSET Concepts
    BY DEF Nearest, Known
  <2>2. Confident \cap Known \in SUBSET Concepts
    BY DEF Known
  <2>3. TRUE \in BOOLEAN /\ FALSE \in BOOLEAN
    OBVIOUS
  <2> QED
    BY <1>1, <2>1, <2>2, <2>3, ByNameTyped, RetrieveMemoryInv
<1>2. CASE \E name \in Concepts, depth \in 1..2 : GetConcept(name, depth)
  BY <1>2, GetConceptInv
<1>3. CASE \E q \in Queries, k \in TopKs,
              role \in {RoleOf[c] : c \in Chunks} \cup {AnyRole} : Search(q, k, role)
  BY <1>3, SearchInv
<1>4. CASE \E d \in Draft : Cardinality(d.markers) <= MaxDraft /\ Verify(d)
  BY <1>4, VerifyInv
<1>5. CASE \E q \in Queries : Prefetch(q)
  BY <1>5, PrefetchInv
<1>6. CASE Scope \/ Gate \/ Retry \/ Persist \/ Reprocess
  BY <1>6, ScopeInv, GateInv, RetryInv, PersistInv, ReprocessInv
<1>7. CASE AgentFails \/ Stream \/ (\E p \in Papers : Revoke(p))
           \/ (\E k \in Concepts : Merge(k)) \/ UNCHANGED vars
  BY <1>7, OtherInv
<1> QED
  BY <1>1, <1>2, <1>3, <1>4, <1>5, <1>6, <1>7 DEF Next, TurnStep, OtherStep, Over

LEMMA Invariance == Spec => []IInv
<1>1. GroundingAssumption
  BY GroundingAssumption
<1> QED
  BY <1>1, InitInv, NextInv, PTL DEF Spec

-----------------------------------------------------------------------------
(* What follows. *)

(* Every state is well formed: a passage is retrieved once, and at most two *)
(* papers are searched.                                                     *)
THEOREM GroundingTypes == Spec => []TypeOK
<1>1. IInv => TypeOK
  BY DEF IInv
<1> QED
  BY <1>1, Invariance, PTL

(* A citation is of the one passage the model was given under that number   *)
(* in the attempt that composed the answer, over any number of searches and *)
(* failed attempts (tools.py retrieve_paper_context, citations.py verify).  *)
THEOREM CitationsGrounded == Spec => []CitedIsWhatWasHanded
<1>1. IInv => CitedIsWhatWasHanded
  <2> SUFFICES ASSUME IInv, NEW c \in citations
               PROVE  LET named == {p \in handed : p.index = c.marker.index}
                      IN named # {} /\ \A p \in named : p.chunk = c.chunk
    BY DEF CitedIsWhatWasHanded
  <2>1. c.marker.index \in DOMAIN retrieved /\ retrieved[c.marker.index] = c.chunk
    BY DEF IInv, CitedInv
  <2> QED
    BY <2>1 DEF IInv, HandedInv
<1> QED
  BY <1>1, Invariance, PTL

(* The listed citations of an answer are those that were streamed with it,  *)
(* while papers are processed again and grants change (turns.py _persist,   *)
(* routers/memory.py list_turn_citations).                                  *)
THEOREM ReloadFaithful == Spec => []ReloadShowsTheAnswer
<1>1. GroundingAssumption
  BY GroundingAssumption
<1>2. GroundingAssumption /\ IInv => ReloadShowsTheAnswer
  <2> SUFFICES ASSUME GroundingAssumption, IInv, pc \in {"stream", "done"}
               PROVE  /\ Listed \subseteq citations
                      /\ \A r \in rows : r.was_cited <=> r.marker # None
                      /\ \A c \in citations : c.chunk \in live =>
                           \E r \in rows :
                             /\ r.chunk = c.chunk /\ r.was_cited
                             /\ r.rank = c.marker.index /\ r.marker.index = r.rank
                      /\ status = "grounded" <=> citations # {}
    BY DEF ReloadShowsTheAnswer
  <2>1. \A r \in rows : \E c \in ToSet(retrieved) : r = RowOf(c)
    BY DEF IInv, RowsInv
  <2>2. \A r \in rows : r = RowOf(r.chunk)
    BY <2>1 DEF RowOf
  <2>3. \A r \in rows : /\ r.was_cited <=> r.chunk \in {d.chunk : d \in citations}
                        /\ r.marker = MarkerOf(r.chunk)
    <3>1. \A c : /\ RowOf(c).was_cited = (c \in {d.chunk : d \in citations})
                 /\ RowOf(c).marker = MarkerOf(c)
      BY DEF RowOf
    <3> QED
      BY <2>2, <3>1
  <2>4. \A r \in rows : r.was_cited <=> r.marker # None
    BY <2>3, MarkerOfCited
  <2>5. Listed \subseteq citations
    BY <2>3, <2>4, MarkerOfCited DEF Listed
  <2>6. ASSUME NEW c \in citations, c.chunk \in live
        PROVE  \E r \in rows : /\ r.chunk = c.chunk /\ r.was_cited
                               /\ r.rank = c.marker.index /\ r.marker.index = r.rank
    <3>1. /\ c.marker.index \in DOMAIN retrieved /\ retrieved[c.marker.index] = c.chunk
          /\ IsInjective(retrieved)
      BY DEF IInv, CitedInv, TypeOK
    <3>2. c.chunk \in ToSet(retrieved)
      BY <3>1 DEF ToSet
    <3>3. RowOf(c.chunk) \in rows
      BY <2>6, <3>2 DEF IInv, RowsInv
    <3>4. Position(c.chunk, retrieved) = c.marker.index
      BY <3>1, PositionOf
    <3>5. [marker |-> MarkerOf(c.chunk), chunk |-> c.chunk] \in citations
      BY MarkerOfCited
    <3>6. MarkerOf(c.chunk).index \in DOMAIN retrieved
          /\ retrieved[MarkerOf(c.chunk).index] = c.chunk
      BY <3>5 DEF IInv, CitedInv
    <3>7. MarkerOf(c.chunk).index = c.marker.index
      BY <3>1, <3>6 DEF IsInjective
    <3> QED
      BY <3>3, <3>4, <3>7 DEF RowOf, Rank
  <2>7. status = "grounded" <=> citations # {}
    BY DEF IInv, CitedInv
  <2> QED
    BY <2>4, <2>5, <2>6, <2>7
<1> QED
  BY <1>1, <1>2, Invariance, PTL

-----------------------------------------------------------------------------
(* Memory. *)

(* Whatever the attempts, the concepts reported are those handed over. *)
LEMMA RememberAccounts ==
  ASSUME MemoryIsAccountedFor, NEW records, Remember(records)
  PROVE  MemoryIsAccountedFor'
  BY DEF MemoryIsAccountedFor, Remember

LEMMA NextAccounts == MemoryIsAccountedFor /\ [Next]_vars => MemoryIsAccountedFor'
<1> SUFFICES ASSUME MemoryIsAccountedFor, [Next]_vars
             PROVE  MemoryIsAccountedFor'
  OBVIOUS
<1>1. CASE \E q \in Queries : Prefetch(q)
  BY <1>1, RememberAccounts DEF Prefetch
<1>2. CASE \E q \in Queries, related, weak \in BOOLEAN : RetrieveMemory(Nearest(q), related, weak)
  BY <1>2, RememberAccounts DEF RetrieveMemory
<1>3. CASE \E name \in Concepts, weak \in BOOLEAN : \E ids \in ByName(name) :
             RetrieveMemory(ids, TRUE, weak)
  BY <1>3, RememberAccounts DEF RetrieveMemory
<1>4. CASE RetrieveMemory(Confident \cap Known, TRUE, FALSE)
  BY <1>4, RememberAccounts DEF RetrieveMemory
<1>5. CASE \E name \in Concepts, depth \in 1..2 : GetConcept(name, depth)
  BY <1>5, RememberAccounts DEF GetConcept
<1>6. ASSUME UNCHANGED remembered
      PROVE  MemoryIsAccountedFor'
  BY <1>6 DEF MemoryIsAccountedFor, remembered
<1>7. CASE \/ Scope \/ Gate \/ Retry \/ AgentFails \/ Persist \/ Stream \/ OtherStep
           \/ UNCHANGED vars
  BY <1>6, <1>7 DEF Scope, Gate, Retry, Reset, AgentFails, Persist, Stream, OtherStep,
     Revoke, Reprocess, Merge, vars
<1>8. CASE \E q \in Queries, k \in TopKs, role \in {RoleOf[c] : c \in Chunks} \cup {AnyRole} :
             Search(q, k, role)
  BY <1>6, <1>8 DEF Search
<1>9. CASE \E d \in Draft : Cardinality(d.markers) <= MaxDraft /\ Verify(d)
  BY <1>6, <1>9 DEF Verify
<1> QED
  BY <1>1, <1>2, <1>3, <1>4, <1>5, <1>7, <1>8, <1>9 DEF Next, TurnStep, Over

(* What a turn reports to the reader as remembered is what the model was    *)
(* told, over any number of lookups and failed attempts.                    *)
THEOREM MemoryAccounted == Spec => []MemoryIsAccountedFor
<1>1. Init => MemoryIsAccountedFor
  BY DEF Init, MemoryIsAccountedFor
<1> QED
  BY <1>1, NextAccounts, PTL DEF Spec

(* Asking for the neighbours of the neighbours of a concept tells the model *)
(* nothing more: the tool keeps only the edges at the concept itself        *)
(* (agent/tools.py get_concept_context).                                    *)
THEOREM DepthIsMoot ==
  ASSUME NEW k \in Concepts, NEW sources
  PROVE  RecordOf(k, Neighbours({k}, 2), sources) = RecordOf(k, Neighbours({k}, 1), sources)
<1> DEFINE Far == Hop({e[2] : e \in Hop({k})} \ {k})
<1>1. \A e \in Far : e[1] # k
  BY DEF Hop
<1>2. Neighbours({k}, 2) = Hop({k}) \cup Far /\ Neighbours({k}, 1) = Hop({k})
  BY DEF Neighbours
<1>3. {e \in Neighbours({k}, 2) : e[1] = k} = {e \in Neighbours({k}, 1) : e[1] = k}
  BY <1>1, <1>2
<1> QED
  BY <1>3 DEF RecordOf
=============================================================================
