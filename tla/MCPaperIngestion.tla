-------------------------- MODULE MCPaperIngestion --------------------------
(* Instances of PaperIngestion for TLC. *)
EXTENDS PaperIngestion, TLC

CONSTANTS u1, u2, alice, bob

Interchangeable == Permutations(Workers)

(* Alice uploads the file, Bob the same bytes. *)
AliceAlone == u1 :> alice
TwoReaders == (u1 :> alice) @@ (u2 :> bob)
=============================================================================
