----------------------------- MODULE HandsetLife -----------------------------
(***************************************************************************)
(* What becomes of a handset: it is subscribed, gets a temporary user, the *)
(* token of an extension is called with it, and it becomes the handset of  *)
(* this extension.  A handset is never attached to an extension it did not *)
(* call, nor collected while it is attached to somebody, and a user has at *)
(* most one handset.  Tasks, requests, accounts and POSTs are left out.    *)
(***************************************************************************)
CONSTANTS Handsets, Temps, Extensions

VARIABLES
  holder,  \* whose handset it is: a number, "unbound" or "gone"
  called   \* the tokens that were called with it

lifeVars == <<holder, called>>

Init ==
  /\ holder = [d \in Handsets |-> "gone"]
  /\ called = {}

Subscribe(d) ==
  /\ holder[d] = "gone"
  /\ holder' = [holder EXCEPT ![d] = "unbound"]
  /\ UNCHANGED called

Leave(d) ==
  /\ holder' = [holder EXCEPT ![d] = "gone"]
  /\ UNCHANGED called

Release(d) ==
  /\ holder[d] # "gone"
  /\ holder' = [holder EXCEPT ![d] = "unbound"]
  /\ UNCHANGED called

Collect(d, temp) ==
  /\ holder[d] = "unbound"
  /\ \A other \in Handsets : holder[other] # temp
  /\ holder' = [holder EXCEPT ![d] = temp]
  /\ UNCHANGED called

CallToken(d, extension) ==
  /\ holder[d] \in Temps
  /\ called' = called \cup {<<d, extension>>}
  /\ UNCHANGED holder

(* Another handset of the extension loses it.                              *)
Connect(d, extension) ==
  /\ holder[d] = "unbound"
  /\ <<d, extension>> \in called
  /\ holder' = [other \in Handsets |->
                  CASE other = d -> extension
                    [] other # d /\ holder[other] = extension -> "unbound"
                    [] OTHER -> holder[other]]
  /\ UNCHANGED called

Next ==
  \E d \in Handsets :
    \/ Subscribe(d) \/ Leave(d) \/ Release(d)
    \/ \E temp \in Temps : Collect(d, temp)
    \/ \E extension \in Extensions : CallToken(d, extension) \/ Connect(d, extension)

Spec == Init /\ [][Next]_lifeVars
==============================================================================
