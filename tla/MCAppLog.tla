------------------------------- MODULE MCAppLog -------------------------------
(* AppLog.tla on a small instance.                                         *)
EXTENDS AppLog, TLC
=============================================================================
