------------------------------- MODULE MCServer -------------------------------
(* Server.tla on small instances; the configurations choose the sizes.     *)
EXTENDS Server, TLC
=============================================================================
