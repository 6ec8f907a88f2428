------------------------------ MODULE MCManager ------------------------------
(* Manager.tla on small instances; the configurations choose the sizes.    *)
EXTENDS Manager, TLC

\* Requests and Process records are interchangeable.
Sym == Permutations(Reqs) \cup Permutations(Procs)
=============================================================================
