----------------------------- MODULE MCMessages -----------------------------
(* Instances of Messages.                                                  *)
EXTENDS Messages
==============================================================================
