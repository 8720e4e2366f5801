---------------------------- MODULE MCGrounding ----------------------------
(* An instance of Grounding for TLC: an open paper of two passages and a    *)
(* third that replaces them, another paper that repeats the text of the     *)
(* first, and three concepts in a line.                                     *)
EXTENDS Grounding, TLC

CONSTANTS p1, p2, c1, c2, c3, c4, k1, k2, k3, q1, q2

MCPaperOf == (c1 :> p1) @@ (c2 :> p1) @@ (c3 :> p2) @@ (c4 :> p1)
MCTextOf == (c1 :> "a") @@ (c2 :> "b") @@ (c3 :> "a") @@ (c4 :> "b")
MCRoleOf == (c1 :> "method") @@ (c2 :> "results") @@ (c3 :> "method") @@ (c4 :> "references")
MCStored == {c1, c2, c3}

(* The first query is nearest to the first passage, the second to the       *)
(* second; the repeated text ties with what it repeats.                     *)
MCScore == (q1 :> ((c1 :> 2) @@ (c2 :> 1) @@ (c3 :> 2) @@ (c4 :> 2)))
        @@ (q2 :> ((c1 :> 0) @@ (c2 :> 2) @@ (c3 :> 0) @@ (c4 :> 1)))

MCEdges == {<<k1, k2>>, <<k3, k2>>}
MCClose == (q1 :> {k1}) @@ (q2 :> {k2})
MCSourcesOf == (k1 :> {p1}) @@ (k2 :> {p1, p2}) @@ (k3 :> {p2})
MCWeak == {k1}
MCConfident == {k1, k2}

(* A turn that searches, while grants are revoked and the paper processed   *)
(* again.                                                                   *)
Searching == merged = {k3} /\ lookups = MaxLookups /\ searches = 0

(* A turn that reads memory, while concepts merge.                          *)
Reading == merged = {} /\ lookups = 0 /\ searches = MaxSearches

MCInit == Init /\ (Searching \/ Reading)

MCSpec == MCInit /\ [][Next]_vars
=============================================================================
