----------------------------- MODULE MCImagePull -----------------------------
(* ImagePull.tla on small instances; the configurations choose the sizes.  *)
EXTENDS ImagePull, TLC

\* Pullers are interchangeable, and so are viewers.
Sym == Permutations(Pullers) \cup Permutations(Viewers)
=============================================================================
