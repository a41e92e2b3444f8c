----------------------------- MODULE MCCmmApply -----------------------------
(* Instances of CmmApply: a client with one apply object on each thread.      *)
EXTENDS CmmApply

NoOutcome == {}
=============================================================================
