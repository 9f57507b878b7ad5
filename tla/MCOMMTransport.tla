--------------------------- MODULE MCOMMTransport ---------------------------
(* Small instances of OMMTransport: threads and names of requests.         *)
EXTENDS OMMTransport

CONSTANT d

TwoCallers == {"c1", "c2"}
GetOnly == {"GetPPUser"}
OnePings == [c \in TwoCallers |-> IF c = "c1" THEN {"Ping"} ELSE {}]
==============================================================================
