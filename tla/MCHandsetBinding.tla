-------------------------- MODULE MCHandsetBinding --------------------------
(* Small instances of HandsetBinding.                                      *)
EXTENDS HandsetBinding, TLC

Interchangeable ==
  Permutations(Handsets) \cup Permutations(Temps) \cup Permutations(Extensions)
==============================================================================
