----------------------------- MODULE Guru3Events -----------------------------
(***************************************************************************)
(* The path of an event through hexidian: Guru3's list of unreported       *)
(* events, the REST fetch and the websocket of Guru3Mgr.py, the            *)
(* asyncio.Queue with its set of known ids, and the loop of                *)
(* EventHandler.distribute_guru3_messages that handles an event and        *)
(* reports it complete.  What a handler does to Asterisk and to the OMM is *)
(* the subject of module Provisioning; here it is one step that adds the   *)
(* event to "applied".                                                     *)
(*                                                                         *)
(* hexidian is one thread running asyncio tasks.  A task keeps the thread  *)
(* until it awaits something that is not there yet: requests.get and       *)
(* requests.post block the thread, Queue.put on an unbounded queue never   *)
(* suspends, and Queue.get suspends only on an empty queue.  The variable  *)
(* "running" says which task holds the thread.                             *)
(*                                                                         *)
(* External, modelled from how the code uses it: Guru3 lists its events    *)
(* oldest first, tells an open websocket about every event it creates and, *)
(* when GreetsOnConnect, tells a new websocket how many events wait.       *)
(* A supervisor restarts the process after it died.                        *)
(***************************************************************************)
EXTENDS Naturals, Sequences

CONSTANTS
  MaxEvents,       \* bound: Guru3 creates at most this many events
  MaxCrashes,      \* bound: the process is killed at most this often
  MaxLostReports,  \* bound: this many reports are not answered with 200
  Poison,          \* the events whose handler raises an exception
  GreetsOnConnect  \* Guru3 sends its queue length to a new websocket

ASSUME BoundsAssumption ==
  /\ MaxEvents \in Nat
  /\ MaxCrashes \in Nat
  /\ MaxLostReports \in Nat
ASSUME GreetsAssumption == GreetsOnConnect \in BOOLEAN

VARIABLES
  created,      \* Guru3: the events 1 .. created exist
  backlog,      \* Guru3: the events not reported complete
  socket,       \* unread queuelengths, 1 standing for any but 0
  guru3Task,    \* where Guru3Mgr.run is
  requestLock,  \* "free" once the OMM login is complete
  running,      \* the task that holds the thread
  batch,        \* request_events: the events of the answer still to look at
  queue,        \* event_queue
  ids,          \* event_queue_ids
  current,      \* distribute_guru3_messages: the event taken from the queue
  eventTask,    \* where distribute_guru3_messages is
  applied,      \* history: the events that took effect at least once
  handledHere,  \* history: the events handled since the process started
  crashes,      \* counters of the two bounds
  lostReports

guru3Vars == <<created, backlog, socket>>
fetchVars == <<guru3Task, requestLock, batch>>
eventVars == <<queue, ids, current, eventTask>>
historyVars == <<applied, handledHere>>
boundVars == <<crashes, lostReports>>
vars == <<guru3Vars, fetchVars, running, eventVars, historyVars, boundVars>>

Events == 1 .. MaxEvents
NoEvent == 0
QueuedEvents == {queue[i] : i \in 1 .. Len(queue)}

TypeOK ==
  /\ created \in 0 .. MaxEvents
  /\ backlog \subseteq 1 .. created
  /\ socket \in Seq({0, 1})
  /\ guru3Task \in {"down", "lock", "first", "connect", "recv", "fetch"}
  /\ requestLock \in {"held", "free"}
  /\ running \in {"none", "guru3", "distribute"}
  /\ batch \subseteq backlog
  /\ queue \in Seq(1 .. created)
  /\ ids \subseteq 1 .. created
  /\ current \in 0 .. created
  /\ eventTask \in {"get", "handle", "report"}
  /\ applied \subseteq 1 .. created
  /\ handledHere \subseteq applied
  /\ crashes \in Nat
  /\ lostReports \in Nat
------------------------------------------------------------------------------
(* The process starts with every task at its first await.                  *)

ProcessInit ==
  /\ guru3Task = "lock"
  /\ requestLock = "held"
  /\ running = "none"
  /\ batch = {}
  /\ queue = <<>>
  /\ ids = {}
  /\ current = NoEvent
  /\ eventTask = "get"

Init ==
  /\ created = 0
  /\ backlog = {}
  /\ socket = <<>>
  /\ ProcessInit
  /\ applied = {}
  /\ handledHere = {}
  /\ crashes = 0
  /\ lostReports = 0

(* Whatever the process held in memory is gone; its websocket is closed.   *)
Die ==
  /\ guru3Task' = "down"
  /\ requestLock' = "held"
  /\ running' = "none"
  /\ batch' = {}
  /\ queue' = <<>>
  /\ ids' = {}
  /\ current' = NoEvent
  /\ eventTask' = "get"
  /\ handledHere' = {}
  /\ socket' = <<>>
------------------------------------------------------------------------------
(* Guru3 and the supervisor: the environment.                              *)

Create ==
  /\ created < MaxEvents
  /\ created' = created + 1
  /\ backlog' = backlog \cup {created + 1}
  /\ socket' = IF guru3Task \in {"recv", "fetch"}
                 THEN Append(socket, 1)
                 ELSE socket
  /\ UNCHANGED <<fetchVars, running, eventVars, historyVars, boundVars>>

(* A kill, a lost database or websocket connection, a failed HTTP call.    *)
Crash ==
  /\ guru3Task # "down"
  /\ crashes < MaxCrashes
  /\ crashes' = crashes + 1
  /\ Die
  /\ UNCHANGED <<created, backlog, applied, lostReports>>

Restart ==
  /\ guru3Task = "down"
  /\ guru3Task' = "lock"
  /\ UNCHANGED <<guru3Vars, requestLock, batch, running, eventVars,
                 historyVars, boundVars>>
------------------------------------------------------------------------------
(* OMMMgr.start_communication: login, read_users, then the lock is free.   *)

OmmLogin ==
  /\ guru3Task # "down"
  /\ running = "none"
  /\ requestLock = "held"
  /\ requestLock' = "free"
  /\ UNCHANGED <<guru3Vars, guru3Task, batch, running, eventVars,
                 historyVars, boundVars>>
------------------------------------------------------------------------------
(* Guru3Mgr.run and request_events.                                        *)

(* request_events up to its loop: the GET answers with Guru3's list.       *)
RequestEvents(task) ==
  /\ running = "none"
  /\ running' = "guru3"
  /\ guru3Task' = task
  /\ batch' = backlog

(* Mutant: the first fetch does not wait for the lock.                     *)
FirstFetch_WithoutLock ==
  /\ guru3Task = "lock"
  /\ RequestEvents("first")
  /\ UNCHANGED <<guru3Vars, requestLock, eventVars, historyVars, boundVars>>

FirstFetch ==
  /\ guru3Task = "lock"
  /\ requestLock = "free"
  /\ RequestEvents("first")
  /\ UNCHANGED <<guru3Vars, requestLock, eventVars, historyVars, boundVars>>

(* Mutant: the answer is worked through newest first.                      *)
LookAt_NewestFirst(e) ==
  /\ running = "guru3"
  /\ e \in batch
  /\ \A other \in batch : e >= other
  /\ batch' = batch \ {e}
  /\ UNCHANGED <<guru3Vars, guru3Task, requestLock, running, current, eventTask,
                 historyVars, boundVars>>

(* One turn of the loop of request_events, for the oldest event left.      *)
LookAt(e) ==
  /\ running = "guru3"
  /\ e \in batch
  /\ \A other \in batch : e <= other
  /\ batch' = batch \ {e}
  /\ UNCHANGED <<guru3Vars, guru3Task, requestLock, running, current, eventTask,
                 historyVars, boundVars>>

(* Mutant: "break" in place of "continue" at a known event.                *)
SkipKnown_Breaks(e) ==
  /\ e \in ids
  /\ running = "guru3"
  /\ \A other \in batch : e <= other
  /\ batch' = {}
  /\ UNCHANGED <<guru3Vars, guru3Task, requestLock, running, eventVars,
                 historyVars, boundVars>>

SkipKnown(e) ==
  /\ e \in ids
  /\ LookAt(e)
  /\ UNCHANGED <<queue, ids>>

(* Mutant: the position of the event in place of its id.                   *)
Enqueue_NextId(e) ==
  /\ e \notin ids
  /\ LookAt(e)
  /\ queue' = Append(queue, e + 1)
  /\ ids' = ids \cup {e}

(* Mutant: a bounded queue that drops what does not fit.                   *)
Enqueue_DropsWhenFull(e) ==
  /\ e \notin ids
  /\ LookAt(e)
  /\ queue' = IF Len(queue) < 2 THEN Append(queue, e) ELSE queue
  /\ ids' = ids \cup {e}

Enqueue(e) ==
  /\ e \notin ids
  /\ LookAt(e)
  /\ queue' = Append(queue, e)
  /\ ids' = ids \cup {e}

(* request_events returns and the task runs on to its next await.          *)
FetchDone ==
  /\ running = "guru3"
  /\ batch = {}
  /\ running' = "none"
  /\ guru3Task' = IF guru3Task = "first" THEN "connect" ELSE "recv"
  /\ UNCHANGED <<guru3Vars, requestLock, batch, eventVars, historyVars, boundVars>>

Connect ==
  /\ guru3Task = "connect"
  /\ running = "none"
  /\ guru3Task' = "recv"
  /\ socket' = IF GreetsOnConnect THEN <<IF backlog = {} THEN 0 ELSE 1>> ELSE <<>>
  /\ UNCHANGED <<created, backlog, requestLock, batch, running, eventVars,
                 historyVars, boundVars>>

(* An empty queue asks for nothing; any other one for a fetch.             *)
Receive ==
  /\ guru3Task = "recv"
  /\ socket # <<>>
  /\ socket' = Tail(socket)
  /\ IF Head(socket) # 0
       THEN RequestEvents("fetch")
       ELSE running = "none" /\ UNCHANGED <<running, guru3Task, batch>>
  /\ UNCHANGED <<created, backlog, requestLock, eventVars, historyVars, boundVars>>
------------------------------------------------------------------------------
(* EventHandler.distribute_guru3_messages.                                 *)

(* Mutant: the event is reported before it is handled.                     *)
Take_ReportsFirst ==
  /\ running \in {"none", "distribute"}
  /\ eventTask = "get"
  /\ queue # <<>>
  /\ running' = "distribute"
  /\ current' = Head(queue)
  /\ queue' = Tail(queue)
  /\ eventTask' = "report"
  /\ UNCHANGED <<guru3Vars, fetchVars, ids, historyVars, boundVars>>

(* Mutant: the id is forgotten when the event leaves the queue.            *)
Take_ForgetsId ==
  /\ running \in {"none", "distribute"}
  /\ eventTask = "get"
  /\ queue # <<>>
  /\ running' = "distribute"
  /\ current' = Head(queue)
  /\ queue' = Tail(queue)
  /\ eventTask' = "handle"
  /\ ids' = ids \ {Head(queue)}
  /\ UNCHANGED <<guru3Vars, fetchVars, historyVars, boundVars>>

(* event_queue.get: at once when an event waits, even without an await.    *)
Take ==
  /\ running \in {"none", "distribute"}
  /\ eventTask = "get"
  /\ queue # <<>>
  /\ running' = "distribute"
  /\ current' = Head(queue)
  /\ queue' = Tail(queue)
  /\ eventTask' = "handle"
  /\ UNCHANGED <<guru3Vars, fetchVars, ids, historyVars, boundVars>>

(* The handler of the event returns; an event of one of ignored_msgtypes   *)
(* has none to run and takes effect by being passed over.                  *)
Handle ==
  /\ eventTask = "handle"
  /\ current \notin Poison
  /\ eventTask' = "report"
  /\ applied' = applied \cup {current}
  /\ handledHere' = handledHere \cup {current}
  /\ UNCHANGED <<guru3Vars, fetchVars, running, queue, ids, current, boundVars>>

(* Mutant: the loop catches the exception and goes on.                     *)
HandlerRaises_Swallowed ==
  /\ eventTask = "handle"
  /\ current \in Poison
  /\ eventTask' = "get"
  /\ current' = NoEvent
  /\ running' = IF queue = <<>> THEN "none" ELSE "distribute"
  /\ UNCHANGED <<guru3Vars, fetchVars, queue, ids, historyVars, boundVars>>

(* The handler raises: gather passes it on and the process ends.           *)
HandlerRaises ==
  /\ eventTask = "handle"
  /\ current \in Poison
  /\ Die
  /\ UNCHANGED <<created, backlog, applied, boundVars>>

(* After the report the loop runs on to the next event_queue.get.          *)
NextEvent ==
  /\ eventTask = "report"
  /\ eventTask' = "get"
  /\ current' = NoEvent
  /\ running' = IF queue = <<>> THEN "none" ELSE "distribute"

(* mark_event_complete, answered with 200.                                 *)
Report ==
  /\ NextEvent
  /\ backlog' = backlog \ {current}
  /\ ids' = ids \ {current}
  /\ UNCHANGED <<created, socket, fetchVars, queue, historyVars, boundVars>>

(* mark_event_complete with another status; Guru3 may have taken the report. *)
ReportLost ==
  /\ lostReports < MaxLostReports
  /\ lostReports' = lostReports + 1
  /\ NextEvent
  /\ \/ backlog' = backlog \ {current}
     \/ UNCHANGED backlog
  /\ UNCHANGED <<created, socket, fetchVars, queue, ids, historyVars, crashes>>

(* Guru3 takes the report and the connection breaks before the answer.     *)
ReportThenCrash ==
  /\ eventTask = "report"
  /\ crashes < MaxCrashes
  /\ crashes' = crashes + 1
  /\ backlog' = backlog \ {current}
  /\ Die
  /\ UNCHANGED <<created, applied, lostReports>>
------------------------------------------------------------------------------
LookAtBatch == \E e \in batch : SkipKnown(e) \/ Enqueue(e)
HandleEvent == Handle \/ HandlerRaises
ReportEvent == Report \/ ReportLost

Next ==
  \/ Create \/ Crash \/ Restart \/ OmmLogin
  \/ FirstFetch \/ LookAtBatch \/ FetchDone \/ Connect \/ Receive
  \/ Take \/ HandleEvent \/ ReportEvent \/ ReportThenCrash

Spec == Init /\ [][Next]_vars

(* A task that can run does, and the supervisor restarts a dead process.   *)
Fairness ==
  /\ WF_vars(Restart)
  /\ WF_vars(OmmLogin)
  /\ WF_vars(FirstFetch)
  /\ WF_vars(LookAtBatch)
  /\ WF_vars(FetchDone)
  /\ WF_vars(Connect)
  /\ WF_vars(Receive)
  /\ WF_vars(Take)
  /\ WF_vars(HandleEvent)
  /\ WF_vars(ReportEvent)

FairSpec == Spec /\ Fairness
------------------------------------------------------------------------------
(* Safety.                                                                 *)

(* Guru3 forgets an event only after it took effect: a crash, a lost       *)
(* answer or a second fetch never reports an event whose handler did not   *)
(* run to its end (the report follows the handler, EventHandler.py:105).   *)
ReportedWasApplied == 1 .. created \subseteq backlog \cup applied

(* An id that request_events will skip from now on belongs to an event     *)
(* that is queued, in hand, or was handled by this process: none is        *)
(* remembered whose event got lost on the way (Guru3Mgr.py:64-67).         *)
KnownIsNotLost == ids \subseteq QueuedEvents \cup {current} \cup handledHere

(* However often Guru3 lists an unreported event, one process handles it   *)
(* once: nothing queued or in hand awaits a second run of its handler      *)
(* (the check of event_queue_ids, and no await between GET and loop).      *)
NoSecondHandling ==
  /\ QueuedEvents \cap handledHere = {}
  /\ eventTask = "handle" => current \notin QueuedEvents \cup handledHere
  /\ \A i, j \in 1 .. Len(queue) : queue[i] = queue[j] => i = j

(* No event reaches the process before the OMM login and read_users, whose *)
(* cache the handlers consult (request_lock, EventHandler.py:36-50).       *)
NothingBeforeLogin ==
  batch # {} \/ queue # <<>> \/ current # NoEvent \/ running # "none" => requestLock = "free"

(* The events one process handles are handled in the order of their        *)
(* creation, whatever mixture of fetches and failed reports feeds it.      *)
HandledInOrder ==
  [][\A e \in handledHere' \ handledHere :
       \A earlier \in handledHere : earlier < e]_vars

(* The path implements its promise: a first effect never overtakes that of *)
(* an older event, in any process and across restarts, and Guru3 forgets   *)
(* an event only after its effect.                                         *)
Delivery == INSTANCE EventDelivery
              WITH MaxEvents <- MaxEvents,
                   created <- created, applied <- applied, backlog <- backlog
ImplementsDelivery == Delivery!Spec
------------------------------------------------------------------------------
(* Liveness.                                                               *)

(* Every event Guru3 creates takes effect, unless an event before it makes *)
(* its handler raise and so stops every process at that point: through     *)
(* restarts, lost reports, and an event created while no websocket is open. *)
EveryEventApplied ==
  \A e \in Events :
    (e <= created /\ \A p \in Poison : e < p) ~> e \in applied

(* README.md:9: an event is reported complete after it is processed.       *)
EveryEventReported ==
  \A e \in Events : e \in applied ~> e \notin backlog
==============================================================================
