--------------------------- MODULE MCConceptGraph ---------------------------
(* Instances of ConceptGraph for TLC. *)
EXTENDS ConceptGraph, TLC

CONSTANTS d1, d2, pa, pb, elbo, bound, vae, flow, ELBO, VAE, FLOW

Entry(name, aliases, prerequisites) ==
  [name |-> name, aliases |-> aliases, prerequisites |-> prerequisites]

(* "ELBO" is the evidence lower bound, written two ways; VAE and flows are near. *)
NormOf == (elbo :> ELBO) @@ (bound :> ELBO) @@ (vae :> VAE) @@
          (flow :> FLOW)

Neighbours == {<<elbo, VAE>>, <<bound, VAE>>, <<vae, ELBO>>, <<flow, VAE>>}

(* Two papers name the same two concepts, in different orders. *)
TwoPapers == (d1 :> pa) @@ (d2 :> pb)
Analyses ==
  (pa :> <<Entry(elbo, {}, {}), Entry(vae, {}, {elbo})>>) @@
  (pb :> <<Entry(vae, {}, {}), Entry(bound, {elbo}, {vae}),
          Entry(flow, {}, {})>>)

=============================================================================
