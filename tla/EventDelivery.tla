---------------------------- MODULE EventDelivery ----------------------------
(***************************************************************************)
(* What hexidian promises Guru3 about the events it is handed, with the    *)
(* queue, the websocket, the restarts and the lost answers left out.       *)
(*                                                                         *)
(* Events are numbered in the order in which Guru3 creates them.  The      *)
(* first time an event takes effect, every older event already has, and    *)
(* an event leaves Guru3's list only after it took effect.  An event may   *)
(* take effect again while it is still on the list; that repetition is     *)
(* invisible at this level.                                                *)
(***************************************************************************)
EXTENDS Naturals

CONSTANT MaxEvents  \* how many events Guru3 creates at most

VARIABLES
  created,  \* Guru3 has created the events 1 .. created
  applied,  \* the events that have taken effect at least once
  backlog   \* the events not yet reported complete

deliveryVars == <<created, applied, backlog>>

Init ==
  /\ created = 0
  /\ applied = {}
  /\ backlog = {}

Create ==
  /\ created < MaxEvents
  /\ created' = created + 1
  /\ backlog' = backlog \cup {created + 1}
  /\ UNCHANGED applied

Apply(e) ==
  /\ e \notin applied
  /\ \A older \in 1 .. (e - 1) : older \in applied
  /\ applied' = applied \cup {e}
  /\ UNCHANGED <<created, backlog>>

Report(e) ==
  /\ e \in applied
  /\ backlog' = backlog \ {e}
  /\ UNCHANGED <<created, applied>>

Next ==
  \/ Create
  \/ \E e \in 1 .. created : Apply(e) \/ Report(e)

Spec == Init /\ [][Next]_deliveryVars
==============================================================================
