---------------------------- MODULE MCGuru3Events ----------------------------
(* Small instances of Guru3Events: the sets a configuration file names.    *)
EXTENDS Guru3Events

NoEvents == {}
LastPoison == {4}
==============================================================================
