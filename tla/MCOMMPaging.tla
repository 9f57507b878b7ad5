---------------------------- MODULE MCOMMPaging ----------------------------
(* Instances of OMMPaging.                                                 *)
EXTENDS OMMPaging
==============================================================================
