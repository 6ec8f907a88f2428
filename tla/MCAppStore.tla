----------------------------- MODULE MCAppStore -----------------------------
(* AppStore.tla on small instances; the configurations choose the sizes.   *)
EXTENDS AppStore, TLC
=============================================================================
