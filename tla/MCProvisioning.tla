--------------------------- MODULE MCProvisioning ---------------------------
(* Small instances of Provisioning: sets of model values and kinds.        *)
EXTENDS Provisioning, TLC

CONSTANTS n1, n2, n3, u1, u2, u3, v1, v2, g1, g2

ThreeNumbers == {n1, n2, n3}
TwoNumbers == {n1, n2}
ThreeUids == {u1, u2, u3}
TwoUids == {u1, u2}
TwoVersions == {v1, v2}
TwoPasswords == {g1, g2}

AllKinds == {"SIP", "DECT", "GROUP", "OTHER", "delete", "rename", "members"}
DectKinds == {"DECT", "delete", "rename"}
UserKinds == DectKinds \cup {"SIP"}

Interchangeable ==
  Permutations(Numbers) \cup Permutations(Uids)
    \cup Permutations(Versions) \cup Permutations(Generated)
==============================================================================
