----------------------------- MODULE MCPipeline -----------------------------
(* Small instances of Overtaken: the operators are interchangeable.            *)
EXTENDS Overtaken, TLC

Symmetry == Permutations(Operators)
=============================================================================
