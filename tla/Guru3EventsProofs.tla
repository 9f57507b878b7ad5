-------------------------- MODULE Guru3EventsProofs --------------------------
(***************************************************************************)
(* Theorems about the path of events, for every number of events, crashes  *)
(* and lost reports, and every choice of the events whose handler raises.  *)
(* They rest on one inductive invariant, IInv, whose part FreshOrder says  *)
(* why the small set of known ids is enough: what is not yet known is      *)
(* newer than everything that is or was.                                   *)
(***************************************************************************)
EXTENDS Guru3Events, TLAPS

(* Where the tasks are when they hold the thread, the lock and an event.   *)
Control ==
  /\ guru3Task \in {"first", "connect", "recv", "fetch"} => requestLock = "free"
  /\ batch # {} => running = "guru3"
  /\ eventTask # "get" <=> current # NoEvent
  /\ eventTask # "get" => running = "distribute"
  /\ eventTask = "report" => current \in handledHere

(* What is queued is known, and ids increase from the handled events over  *)
(* the one in hand and the queue to the events not yet known.              *)
QueueOrder ==
  /\ \A i \in 1 .. Len(queue) : queue[i] \in ids
  /\ \A i, j \in 1 .. Len(queue) : i < j => queue[i] < queue[j]
  /\ \A i \in 1 .. Len(queue) : \A h \in handledHere : h < queue[i]

CurrentOrder ==
  current # NoEvent =>
    /\ current \in ids
    /\ \A i \in 1 .. Len(queue) : current < queue[i]
    /\ eventTask = "handle" => \A h \in handledHere : h < current

FreshOrder ==
  /\ \A new \in backlog \ ids : \A old \in ids \cup handledHere : old < new
  /\ \A new \in backlog \ (ids \cup batch) : \A old \in batch : old < new

IInv ==
  /\ TypeOK
  /\ ReportedWasApplied
  /\ KnownIsNotLost
  /\ NothingBeforeLogin
  /\ Control
  /\ QueueOrder
  /\ CurrentOrder
  /\ FreshOrder

------------------------------------------------------------------------------
LEMMA InitIInv == Init => IInv
<1> SUFFICES ASSUME Init PROVE IInv
  OBVIOUS
<1> USE DEF Init, ProcessInit, NoEvent
<1>1. TypeOK
  BY BoundsAssumption DEF BoundsAssumption, TypeOK
<1>2. ReportedWasApplied /\ KnownIsNotLost /\ NothingBeforeLogin
  BY DEF ReportedWasApplied, KnownIsNotLost, NothingBeforeLogin
<1>3. Control
  BY DEF Control
<1>4. QueueOrder /\ CurrentOrder /\ FreshOrder
  BY DEF QueueOrder, CurrentOrder, FreshOrder
<1>5. QED
  BY <1>1, <1>2, <1>3, <1>4 DEF IInv

(* A dead process holds nothing, so only Guru3's side of IInv is left.     *)
LEMMA DieIInv ==
  ASSUME IInv, Die, UNCHANGED <<created, applied>>,
         backlog' \subseteq backlog, backlog \ backlog' \subseteq applied,
         crashes' \in Nat, lostReports' \in Nat
  PROVE  IInv'
<1> USE DEF Die, NoEvent
<1>1. TypeOK'
  BY DEF IInv, TypeOK
<1>2. ReportedWasApplied'
  BY DEF IInv, ReportedWasApplied
<1>3. (KnownIsNotLost /\ NothingBeforeLogin /\ Control)'
  BY DEF KnownIsNotLost, NothingBeforeLogin, Control
<1>4. (QueueOrder /\ CurrentOrder /\ FreshOrder)'
  BY DEF QueueOrder, CurrentOrder, FreshOrder
<1>5. QED
  BY <1>1, <1>2, <1>3, <1>4 DEF IInv

(* The fetching task and the login move: the queue and what was handled stay, *)
(* and a fetch may begin.                                                  *)
LEMMA FetchTaskIInv ==
  ASSUME IInv, TypeOK', NothingBeforeLogin', Control',
         UNCHANGED <<created, backlog, queue, ids, current, eventTask,
                     applied, handledHere>>,
         batch' \in {batch, backlog}
  PROVE  IInv'
<1> USE DEF IInv
<1>1. ReportedWasApplied' /\ KnownIsNotLost'
  BY DEF ReportedWasApplied, KnownIsNotLost, QueuedEvents
<1>2. QueueOrder' /\ CurrentOrder'
  BY DEF QueueOrder, CurrentOrder
<1>3. FreshOrder'
  BY DEF FreshOrder
<1>4. QED
  BY <1>1, <1>2, <1>3

(* The actions of the fetching task and of the login, one lemma each.      *)
LEMMA RestartIInv == ASSUME IInv, Restart PROVE IInv'
<1> USE DEF IInv, Restart,
    guru3Vars, eventVars, historyVars, boundVars
<1>1. TypeOK'
  BY DEF TypeOK
<1>2. NothingBeforeLogin'
  BY DEF NothingBeforeLogin
<1>3. Control'
  BY DEF Control
<1>4. QED
  BY <1>1, <1>2, <1>3, FetchTaskIInv

LEMMA OmmLoginIInv == ASSUME IInv, OmmLogin PROVE IInv'
<1> USE DEF IInv, OmmLogin,
    guru3Vars, eventVars, historyVars, boundVars
<1>1. TypeOK'
  BY DEF TypeOK
<1>2. NothingBeforeLogin'
  BY DEF NothingBeforeLogin
<1>3. Control'
  BY DEF Control
<1>4. QED
  BY <1>1, <1>2, <1>3, FetchTaskIInv

LEMMA FirstFetchIInv == ASSUME IInv, FirstFetch PROVE IInv'
<1> USE DEF IInv, FirstFetch, RequestEvents,
    guru3Vars, eventVars, historyVars, boundVars
<1>1. TypeOK'
  BY DEF TypeOK
<1>2. NothingBeforeLogin'
  BY DEF NothingBeforeLogin
<1>3. Control'
  BY DEF Control
<1>4. QED
  BY <1>1, <1>2, <1>3, FetchTaskIInv

LEMMA FetchDoneIInv == ASSUME IInv, FetchDone PROVE IInv'
<1> USE DEF IInv, FetchDone,
    guru3Vars, eventVars, historyVars, boundVars
<1>1. TypeOK'
  BY DEF TypeOK
<1>2. NothingBeforeLogin'
  BY DEF NothingBeforeLogin
<1>3. Control'
  BY DEF Control, NothingBeforeLogin
<1>4. QED
  BY <1>1, <1>2, <1>3, FetchTaskIInv

LEMMA ConnectIInv == ASSUME IInv, Connect PROVE IInv'
<1> USE DEF IInv, Connect,
    eventVars, historyVars, boundVars
<1>1. TypeOK'
  <2>1. socket' \in Seq({0, 1})
    <3>1. <<0>> \in Seq({0, 1}) /\ <<1>> \in Seq({0, 1}) /\ <<>> \in Seq({0, 1})
      OBVIOUS
    <3>2. socket' = <<0>> \/ socket' = <<1>> \/ socket' = <<>>
      OBVIOUS
    <3>3. QED
      BY <3>1, <3>2
  <2>2. QED
    BY <2>1 DEF TypeOK
<1>2. NothingBeforeLogin'
  BY DEF NothingBeforeLogin
<1>3. Control'
  BY DEF Control
<1>4. QED
  BY <1>1, <1>2, <1>3, FetchTaskIInv

LEMMA ReceiveIInv == ASSUME IInv, Receive PROVE IInv'
<1> USE DEF IInv, Receive, RequestEvents,
    eventVars, historyVars, boundVars
<1>1. TypeOK'
  BY DEF TypeOK, Control
<1>2. NothingBeforeLogin'
  BY DEF NothingBeforeLogin, Control
<1>3. Control'
  BY DEF Control
<1>4. QED
  BY <1>1, <1>2, <1>3, FetchTaskIInv

(* A new event is the newest of all, and not known.                        *)
LEMMA CreateIInv == ASSUME IInv, Create PROVE IInv'
<1> USE DEF IInv, Create,
    fetchVars, eventVars, historyVars, boundVars
<1>1. TypeOK'
  BY BoundsAssumption DEF BoundsAssumption, TypeOK
<1>2. ReportedWasApplied'
  BY DEF ReportedWasApplied, TypeOK
<1>3. KnownIsNotLost'
  BY DEF KnownIsNotLost, QueuedEvents
<1>4. NothingBeforeLogin'
  BY DEF NothingBeforeLogin
<1>5. Control'
  BY DEF Control
<1>6. QueueOrder'
  BY DEF QueueOrder
<1>7. CurrentOrder'
  BY DEF CurrentOrder
<1>8. FreshOrder'
  BY DEF FreshOrder, TypeOK
<1>9. QED
  BY <1>1, <1>2, <1>3, <1>4, <1>5, <1>6, <1>7, <1>8


(* The loop of request_events works through its answer oldest first, so    *)
(* what it leaves is newer than what it looked at.                         *)
LEMMA SkipKnownIInv == ASSUME IInv, NEW e \in batch, SkipKnown(e) PROVE IInv'
<1> USE DEF IInv, SkipKnown, LookAt,
    guru3Vars, historyVars, boundVars
<1>1. TypeOK'
  BY DEF TypeOK
<1>2. ReportedWasApplied'
  BY DEF ReportedWasApplied
<1>3. KnownIsNotLost'
  BY DEF KnownIsNotLost, QueuedEvents
<1>4. NothingBeforeLogin'
  BY DEF NothingBeforeLogin
<1>5. Control'
  BY DEF Control
<1>6. QueueOrder'
  BY DEF QueueOrder
<1>7. CurrentOrder'
  BY DEF CurrentOrder
<1>8. FreshOrder'
  BY DEF FreshOrder
<1>9. QED
  BY <1>1, <1>2, <1>3, <1>4, <1>5, <1>6, <1>7, <1>8


(* By FreshOrder the event appended is newer than all the queue holds.     *)
LEMMA EnqueueIInv == ASSUME IInv, NEW e \in batch, Enqueue(e) PROVE IInv'
<1> USE DEF IInv, Enqueue, LookAt,
    guru3Vars, historyVars, boundVars
<1>1. TypeOK'
  BY DEF TypeOK
<1>2. ReportedWasApplied'
  BY DEF ReportedWasApplied
<1>3. KnownIsNotLost'
  BY DEF KnownIsNotLost, QueuedEvents
<1>4. NothingBeforeLogin'
  BY DEF NothingBeforeLogin
<1>5. Control'
  BY DEF Control
<1>6. QueueOrder'
  BY DEF QueueOrder, TypeOK, FreshOrder, Control
<1>7. CurrentOrder'
  BY DEF CurrentOrder, Control
<1>8. FreshOrder'
  BY DEF FreshOrder, TypeOK
<1>9. QED
  BY <1>1, <1>2, <1>3, <1>4, <1>5, <1>6, <1>7, <1>8


(* The event taken leaves the queue and is still known.                    *)
LEMMA TakeIInv == ASSUME IInv, Take PROVE IInv'
<1> USE DEF IInv, Take,
    guru3Vars, fetchVars, historyVars, boundVars
<1>1. TypeOK'
  BY DEF TypeOK
<1>2. ReportedWasApplied'
  BY DEF ReportedWasApplied
<1>3. KnownIsNotLost'
  <2>1. QueuedEvents = {Head(queue)} \cup QueuedEvents'
    <3>1. Len(queue') = Len(queue) - 1 /\ Len(queue) \in Nat
      OBVIOUS
    <3>2. \A i \in 1 .. Len(queue') : queue'[i] = queue[i + 1]
      OBVIOUS
    <3>3. \A i \in 1 .. Len(queue) : i = 1 \/ i - 1 \in 1 .. Len(queue')
      BY <3>1
    <3>4. Head(queue) = queue[1] /\ Len(queue) >= 1
      OBVIOUS
    <3>5. QueuedEvents \subseteq {Head(queue)} \cup QueuedEvents'
      BY <3>1, <3>2, <3>3, <3>4 DEF QueuedEvents
    <3>6. QED
      BY <3>1, <3>2, <3>4, <3>5 DEF QueuedEvents
  <2>2. QED
    BY <2>1 DEF KnownIsNotLost, Control, TypeOK, NoEvent
<1>4. NothingBeforeLogin'
  BY DEF NothingBeforeLogin
<1>5. Control'
  BY DEF Control, TypeOK, NoEvent
<1>6. QueueOrder'
  BY DEF QueueOrder
<1>7. CurrentOrder'
  BY DEF CurrentOrder, QueueOrder
<1>8. FreshOrder'
  BY DEF FreshOrder
<1>9. QED
  BY <1>1, <1>2, <1>3, <1>4, <1>5, <1>6, <1>7, <1>8


(* The event in hand is older than all that follows, so it may join the    *)
(* handled ones.                                                           *)
LEMMA HandleIInv == ASSUME IInv, Handle PROVE IInv'
<1> USE DEF IInv, Handle,
    guru3Vars, fetchVars, boundVars
<1>1. TypeOK'
  BY DEF TypeOK, NoEvent, Control
<1>2. ReportedWasApplied'
  BY DEF ReportedWasApplied
<1>3. KnownIsNotLost'
  BY DEF KnownIsNotLost, QueuedEvents
<1>4. NothingBeforeLogin'
  BY DEF NothingBeforeLogin
<1>5. Control'
  BY DEF Control
<1>6. QueueOrder'
  BY DEF QueueOrder, CurrentOrder, Control
<1>7. CurrentOrder'
  BY DEF CurrentOrder
<1>8. FreshOrder'
  BY DEF FreshOrder, Control, CurrentOrder
<1>9. QED
  BY <1>1, <1>2, <1>3, <1>4, <1>5, <1>6, <1>7, <1>8


(* The id leaves the known ones together with the event's place in Guru3's *)
(* list, so the unknown events stay the same.                              *)
LEMMA ReportIInv == ASSUME IInv, Report PROVE IInv'
<1> USE DEF IInv, Report, NextEvent,
    fetchVars, historyVars, boundVars
<1>1. TypeOK'
  BY DEF TypeOK, NoEvent, Control
<1>2. ReportedWasApplied'
  BY DEF ReportedWasApplied, TypeOK, Control
<1>3. KnownIsNotLost'
  BY DEF KnownIsNotLost, QueuedEvents
<1>4. NothingBeforeLogin'
  BY DEF NothingBeforeLogin
<1>5. Control'
  BY DEF Control
<1>6. QueueOrder'
  BY DEF QueueOrder, TypeOK, Control
<1>7. CurrentOrder'
  BY DEF CurrentOrder
<1>8. FreshOrder'
  BY DEF FreshOrder
<1>9. QED
  BY <1>1, <1>2, <1>3, <1>4, <1>5, <1>6, <1>7, <1>8


(* The id stays known: harmless for safety, since the event was handled.   *)
LEMMA ReportLostIInv == ASSUME IInv, ReportLost PROVE IInv'
<1> USE DEF IInv, ReportLost, NextEvent,
    fetchVars, historyVars
<1>1. TypeOK'
  <2>1. backlog' \subseteq backlog /\ batch = {}
    BY DEF Control
  <2>2. QED
    BY <2>1 DEF TypeOK, NoEvent
<1>2. ReportedWasApplied'
  BY DEF ReportedWasApplied, TypeOK, Control
<1>3. KnownIsNotLost'
  BY DEF KnownIsNotLost, QueuedEvents, Control
<1>4. NothingBeforeLogin'
  BY DEF NothingBeforeLogin
<1>5. Control'
  BY DEF Control
<1>6. QueueOrder'
  BY DEF QueueOrder
<1>7. CurrentOrder'
  BY DEF CurrentOrder
<1>8. FreshOrder'
  BY DEF FreshOrder
<1>9. QED
  BY <1>1, <1>2, <1>3, <1>4, <1>5, <1>6, <1>7, <1>8

(* One case per action of Next.                                            *)
LEMMA NextIInv == IInv /\ [Next]_vars => IInv'
<1> SUFFICES ASSUME IInv, [Next]_vars PROVE IInv'
  OBVIOUS
<1>1. CASE Create
  BY <1>1, CreateIInv
<1>2. CASE Crash
  <2>1. crashes' \in Nat /\ lostReports' \in Nat
    BY <1>2 DEF Crash, IInv, TypeOK
  <2>2. QED
    BY <1>2, <2>1, DieIInv DEF Crash
<1>3. CASE Restart
  BY <1>3, RestartIInv
<1>4. CASE OmmLogin
  BY <1>4, OmmLoginIInv
<1>5. CASE FirstFetch
  BY <1>5, FirstFetchIInv
<1>6. CASE LookAtBatch
  BY <1>6, SkipKnownIInv, EnqueueIInv DEF LookAtBatch
<1>7. CASE FetchDone
  BY <1>7, FetchDoneIInv
<1>8. CASE Connect
  BY <1>8, ConnectIInv
<1>9. CASE Receive
  BY <1>9, ReceiveIInv
<1>10. CASE Take
  BY <1>10, TakeIInv
<1>11. CASE HandleEvent
  <2>1. CASE Handle
    BY <2>1, HandleIInv
  <2>2. CASE HandlerRaises
    <3>1. crashes' \in Nat /\ lostReports' \in Nat
      BY <2>2 DEF HandlerRaises, boundVars, IInv, TypeOK
    <3>2. QED
      BY <2>2, <3>1, DieIInv DEF HandlerRaises
  <2>3. QED
    BY <1>11, <2>1, <2>2 DEF HandleEvent
<1>12. CASE ReportEvent
  BY <1>12, ReportIInv, ReportLostIInv DEF ReportEvent
<1>13. CASE ReportThenCrash
  <2>1. crashes' \in Nat /\ lostReports' \in Nat
    BY <1>13 DEF ReportThenCrash, IInv, TypeOK
  <2>2. current \in applied
    BY <1>13 DEF ReportThenCrash, IInv, TypeOK, Control
  <2>3. QED
    BY <1>13, <2>1, <2>2, DieIInv DEF ReportThenCrash
<1>14. CASE UNCHANGED vars
  BY <1>14 DEF vars, guru3Vars, fetchVars, eventVars, historyVars, boundVars,
     IInv, TypeOK, ReportedWasApplied, KnownIsNotLost, NothingBeforeLogin,
     Control, QueueOrder, CurrentOrder, FreshOrder, QueuedEvents
<1>15. QED
  BY <1>1, <1>2, <1>3, <1>4, <1>5, <1>6, <1>7, <1>8, <1>9, <1>10, <1>11,
     <1>12, <1>13, <1>14 DEF Next

LEMMA AlwaysIInv == Spec => []IInv
  BY InitIInv, NextIInv, PTL DEF Spec
------------------------------------------------------------------------------
(* Every variable keeps its type in every reachable state.                 *)
THEOREM TypeCorrect == Spec => []TypeOK
<1>1. IInv => TypeOK
  BY DEF IInv
<1>2. QED
  BY AlwaysIInv, <1>1, PTL

(* Guru3 never forgets an event whose handler did not run to its end       *)
(* (EventHandler.py:105), however often the process dies.                  *)
THEOREM NoEventLost == Spec => []ReportedWasApplied
<1>1. IInv => ReportedWasApplied
  BY DEF IInv
<1>2. QED
  BY AlwaysIInv, <1>1, PTL

(* event_queue_ids names no event that got lost between the fetch and its  *)
(* handler (Guru3Mgr.py:64-67).                                            *)
THEOREM KnownEventsAreHandled == Spec => []KnownIsNotLost
<1>1. IInv => KnownIsNotLost
  BY DEF IInv
<1>2. QED
  BY AlwaysIInv, <1>1, PTL

(* Handlers run only after the OMM login and read_users.                   *)
THEOREM LoginComesFirst == Spec => []NothingBeforeLogin
<1>1. IInv => NothingBeforeLogin
  BY DEF IInv
<1>2. QED
  BY AlwaysIInv, <1>1, PTL

(* One process runs the handler of an event at most once, whatever the     *)
(* fetches list again: ids in the queue, in hand and handled are strictly  *)
(* increasing.                                                             *)
THEOREM HandledOnce == Spec => []NoSecondHandling
<1>1. IInv => NoSecondHandling
  <2> SUFFICES ASSUME IInv PROVE NoSecondHandling
    OBVIOUS
  <2> USE DEF IInv, TypeOK
  <2>1. QueuedEvents \cap handledHere = {}
    BY DEF QueuedEvents, QueueOrder
  <2>2. ASSUME eventTask = "handle"
        PROVE  current \notin QueuedEvents \cup handledHere
    BY <2>2 DEF Control, CurrentOrder, QueuedEvents, NoEvent
  <2>3. ASSUME NEW i \in 1 .. Len(queue), NEW j \in 1 .. Len(queue),
               queue[i] = queue[j]
        PROVE  i = j
    <3>1. \/ i < j
          \/ j < i
          \/ i = j
      OBVIOUS
    <3>2. QED
      BY <2>3, <3>1 DEF QueueOrder
  <2>4. QED
    BY <2>1, <2>2, <2>3 DEF NoSecondHandling
<1>2. QED
  BY AlwaysIInv, <1>1, PTL

(* One process handles events in the order of their creation.              *)
THEOREM HandledOldestFirst == Spec => HandledInOrder
<1> DEFINE Ordered == \A e \in handledHere' \ handledHere :
                        \A earlier \in handledHere : earlier < e
<1>1. IInv /\ [Next]_vars => [Ordered]_vars
  <2> SUFFICES ASSUME IInv, Next PROVE Ordered
    OBVIOUS
  <2>1. CASE Handle
    BY <2>1 DEF Handle, IInv, Control, CurrentOrder, NoEvent
  <2>2. CASE handledHere' \subseteq handledHere
    BY <2>2
  <2>3. QED
    BY <2>1, <2>2 DEF Next, Create, Crash, Restart, OmmLogin, FirstFetch,
       LookAtBatch, SkipKnown, Enqueue, LookAt, FetchDone, Connect, Receive,
       Take, HandleEvent, HandlerRaises, ReportEvent, Report, ReportLost,
       ReportThenCrash, Die, historyVars
<1>2. QED
  BY AlwaysIInv, <1>1, PTL DEF Spec, HandledInOrder

(* Every event older than the one in hand has already taken effect: it is  *)
(* not unknown, not queued behind, so it was handled or was reported.      *)
LEMMA OlderApplied ==
  ASSUME IInv, eventTask = "handle"
  PROVE  \A older \in 1 .. (current - 1) : older \in applied
<1> SUFFICES ASSUME NEW older \in 1 .. (current - 1), older \notin applied
             PROVE  FALSE
  OBVIOUS
<1>1. current \in ids /\ older < current /\ older \in 1 .. created
  BY DEF IInv, TypeOK, Control, CurrentOrder
<1>2. older \in backlog
  BY <1>1 DEF IInv, ReportedWasApplied
<1>3. older \in ids
  BY <1>1, <1>2 DEF IInv, TypeOK, FreshOrder
<1>4. older \in QueuedEvents
  BY <1>1, <1>3 DEF IInv, TypeOK, KnownIsNotLost
<1>5. QED
  BY <1>1, <1>4 DEF IInv, TypeOK, CurrentOrder, QueuedEvents, NoEvent

(* The whole path, with its queue, restarts, repeated fetches and lost     *)
(* answers, implements in-order delivery: no event takes effect for the    *)
(* first time before an older one, and none is forgotten before its effect. *)
THEOREM PathImplementsDelivery == Spec => ImplementsDelivery
<1>1. Init => Delivery!Init
  BY DEF Init, Delivery!Init
<1>2. IInv /\ [Next]_vars => [Delivery!Next]_(Delivery!deliveryVars)
  <2> SUFFICES ASSUME IInv, [Next]_vars
               PROVE  Delivery!Next \/ UNCHANGED <<created, applied, backlog>>
    BY DEF Delivery!deliveryVars
  <2>1. CASE Create
    BY <2>1 DEF Create, historyVars, Delivery!Next, Delivery!Create
  <2>2. CASE Handle
    <3>1. current \in 1 .. created
      BY <2>2 DEF Handle, IInv, TypeOK, Control, NoEvent
    <3>2. CASE current \in applied
      BY <2>2, <3>2 DEF Handle, guru3Vars
    <3>3. CASE current \notin applied
      <4>1. Delivery!Apply(current)
        BY <2>2, <3>3, OlderApplied DEF Handle, guru3Vars, Delivery!Apply
      <4>2. QED
        BY <3>1, <4>1 DEF Delivery!Next
    <3>4. QED
      BY <3>2, <3>3
  <2>3. CASE Report \/ ReportLost \/ ReportThenCrash
    <3>1. current \in 1 .. created /\ current \in applied
      BY <2>3 DEF Report, ReportLost, ReportThenCrash, NextEvent, IInv,
         TypeOK, Control
    <3>2. CASE backlog' = backlog \ {current}
      <4>1. Delivery!Report(current)
        BY <2>3, <3>1, <3>2 DEF Report, ReportLost, ReportThenCrash,
           historyVars, Delivery!Report
      <4>2. QED
        BY <3>1, <4>1 DEF Delivery!Next
    <3>3. CASE UNCHANGED backlog
      BY <2>3, <3>3 DEF Report, ReportLost, ReportThenCrash, historyVars
    <3>4. QED
      BY <2>3, <3>2, <3>3 DEF Report, ReportLost, ReportThenCrash
  <2>4. CASE UNCHANGED <<created, applied, backlog>>
    BY <2>4
  <2>5. QED
    BY <2>1, <2>2, <2>3, <2>4 DEF Next, Crash, Restart, OmmLogin, FirstFetch,
       LookAtBatch, SkipKnown, Enqueue, LookAt, FetchDone, Connect, Receive,
       Take, HandleEvent, HandlerRaises, ReportEvent, Die, guru3Vars,
       historyVars, vars
<1>3. QED
  BY AlwaysIInv, <1>1, <1>2, PTL DEF Spec, ImplementsDelivery, Delivery!Spec
==============================================================================
