------------------------------- MODULE MCDeploy -------------------------------
(* Deploy.tla on small instances.                                          *)
EXTENDS Deploy
=============================================================================
