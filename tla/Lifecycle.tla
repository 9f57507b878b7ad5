------------------------------ MODULE Lifecycle ------------------------------
(***************************************************************************)
(* The start and the end of the process: the five tasks of run_tasks, the  *)
(* POSTs of the web server, SIGTERM, and the session of OMMClient.         *)
(*                                                                         *)
(* The asyncio loop has one thread.  It runs the tasks that are ready      *)
(* first in, first out, each up to its next await.  The OMM client blocks  *)
(* that thread: a request that is not answered, and a logout that waits    *)
(* for a thread of the client that never ends, stop everything.  What      *)
(* tasks do between two awaits is in the other modules; here it succeeds,  *)
(* raises, or hangs.                                                       *)
(*                                                                         *)
(* Of a session that is open, OMMTransport tells how it may break: it is   *)
(* "mute" when no request is answered any more, and "stuck" when, besides, *)
(* the dispatcher thread waits for the answer to its own Subscribe.        *)
(*                                                                         *)
(* External, modelled from how the code uses it: asyncio.gather ends with  *)
(* the first task that fails or is cancelled; asyncio.run then cancels     *)
(* what is left and waits for it; the web server takes POSTs until the     *)
(* process is over.                                                        *)
(***************************************************************************)
EXTENDS Naturals, Sequences, SequencesExt

CONSTANTS
  LoginMayFail,  \* the OMM may be away or refuse the login
  MaxPosts       \* bound: POSTs from Asterisk

ASSUME BoundsAssumption == LoginMayFail \in BOOLEAN /\ MaxPosts \in Nat

VARIABLES
  at,          \* where each task is
  ready,       \* the loop's queue: tasks, "main", "sigterm" and POSTs, a POST
               \* that is cancelled as "refused"
  cancelling,  \* tasks to which a CancelledError is on the way
  main,        \* run_tasks: "gather", then asyncio.run: "ending", "ended"
  client,      \* OMMClient: "new", "in", "mute", "stuck" or "out"
  asterisk,    \* the database connection: "open" or "closed"
  hung,        \* who blocks the thread for ever: "nobody", a task, "post"
  late,        \* history: who used the database after it was closed
  signal,      \* SIGTERM: "none", "pending" or "handled"
  posts        \* counter of the bound

vars == <<at, ready, cancelling, main, client, asterisk, hung, late, signal, posts>>

(* Mutant: the handsets are collected by the first task.                   *)
Tasks_CollectFirst == <<"collect", "web", "guru3", "events", "omm">>

(* self.tasks, in the order of their creation.                             *)
Tasks == <<"web", "guru3", "events", "omm", "collect">>

TaskSet == {"web", "guru3", "events", "omm", "collect"}
Waits == {"bind", "lock", "connect", "recv", "closing", "failing", "queue", "sleep"}
Ends == {"done", "failed", "cancelled"}
Queueable == TaskSet \cup {"main", "post", "refused", "sigterm"}

TypeOK ==
  /\ at \in [TaskSet -> {"start"} \cup Waits \cup Ends]
  /\ ready \in Seq(Queueable)
  /\ cancelling \subseteq TaskSet
  /\ main \in {"gather", "ending", "ended"}
  /\ client \in {"new", "in", "mute", "stuck", "out"}
  /\ asterisk \in {"open", "closed"}
  /\ hung \in {"nobody", "omm", "events", "collect", "post"}
  /\ late \subseteq {"events", "collect", "post"}
  /\ signal \in {"none", "pending", "handled"}
  /\ posts \in 0 .. MaxPosts

Init ==
  /\ at = [t \in TaskSet |-> "start"]
  /\ ready = Tasks
  /\ cancelling = {}
  /\ main = "gather"
  /\ client = "new"
  /\ asterisk = "open"
  /\ hung = "nobody"
  /\ late = {}
  /\ signal = "none"
  /\ posts = 0
------------------------------------------------------------------------------
(* The loop.                                                               *)

Finished(t) == at[t] \in Ends
Queued(x) == Contains(ready, x)
Live == hung = "nobody" /\ main # "ended"

Turn(x) == Live /\ ready # <<>> /\ Head(ready) = x
TaskTurn(t) == Turn(t) /\ t \notin cancelling

(* The task comes to an await, and others may have become ready.           *)
Awaits(t, place, woken) ==
  /\ at' = [at EXCEPT ![t] = place]
  /\ ready' = Tail(ready) \o woken

(* The task is over.  gather wakes main for the first failure or           *)
(* cancellation, or for the last result; asyncio.run waits for the last.   *)
Over(t, how) ==
  LET AllOver == \A other \in TaskSet \ {t} : Finished(other)
      wakesMain == ~Queued("main") /\ (AllOver \/ (main = "gather" /\ how # "done"))
  IN /\ at' = [at EXCEPT ![t] = how]
     /\ ready' = Tail(ready) \o (IF wakesMain THEN <<"main">> ELSE <<>>)

(* task.cancel() for every task that is not over; queue is what is ready.  *)
Scheduled(t) == IF Finished(t) \/ Queued(t) THEN <<>> ELSE <<t>>

CancelAll(queue) ==
  /\ cancelling' = {t \in TaskSet : ~Finished(t)}
  /\ ready' = queue \o Scheduled(Tasks[1]) \o Scheduled(Tasks[2]) \o Scheduled(Tasks[3])
                   \o Scheduled(Tasks[4]) \o Scheduled(Tasks[5])

(* A timer, a queue or a socket makes a task ready.                        *)
Wake(t) ==
  /\ Live
  /\ at[t] \in Waits \ {"lock"}
  /\ t = "events" => at["guru3"] \notin {"start", "lock"}
  /\ ~Queued(t)
  /\ ready' = Append(ready, t)
  /\ UNCHANGED <<at, cancelling, main, client, asterisk, hung, late, signal, posts>>

(* The handlers of POSTs that have not run yet are cancelled.              *)
PostsRefused(queue) ==
  [i \in 1 .. Len(queue) |-> IF queue[i] = "post" THEN "refused" ELSE queue[i]]

(* gather raises or returns; a CancelledError closes the database.  Then   *)
(* asyncio.run cancels what is left, the POSTs at hand included.           *)
Main ==
  /\ Turn("main")
  /\ IF \A t \in TaskSet : Finished(t)
       THEN main' = "ended" /\ ready' = Tail(ready) /\ UNCHANGED cancelling
       ELSE /\ main' = "ending"
            /\ CancelAll(PostsRefused(Tail(ready)))
  /\ asterisk' \in IF main = "gather" /\ \E t \in TaskSet : at[t] = "cancelled"
                     THEN {asterisk, "closed"} ELSE {asterisk}
  /\ UNCHANGED <<at, client, hung, late, signal, posts>>
------------------------------------------------------------------------------
(* The tasks.                                                              *)

OnlyLoop == UNCHANGED <<cancelling, main, client, asterisk, hung, late, signal, posts>>

(* The turn never ends, and nothing moves any more.                        *)
Blocks(who) ==
  /\ hung' = who
  /\ UNCHANGED <<at, ready, cancelling, main, client, asterisk, late, signal, posts>>

(* Without a session, or in one that is broken, a request to the OMM does  *)
(* not come back.                                                          *)
AskingBlocks(who) == client # "in" /\ Blocks(who)

(* Without a connection statements to the database raise.                  *)
UsesDatabase(who) ==
  /\ late' = IF asterisk = "closed" THEN late \cup {who} ELSE late
  /\ UNCHANGED <<cancelling, main, client, asterisk, hung, signal, posts>>

UsesStores(who) == client = "in" /\ UsesDatabase(who)

(* RegistrationMgr.run_server returns once the port is bound.              *)
Web ==
  /\ TaskTurn("web")
  /\ \/ at["web"] = "start" /\ Awaits("web", "bind", <<>>)
     \/ at["web"] = "bind" /\ \E how \in {"done", "failed"} : Over("web", how)
  /\ OnlyLoop

(* Guru3Mgr.run: the lock, a GET, the websocket, and a GET per message.    *)
(* Whatever ends the last loop, the websocket is closed before the task is *)
(* over: "closing" after a cancellation, "failing" after an exception.     *)
Guru3 ==
  /\ TaskTurn("guru3")
  /\ \/ at["guru3"] = "start" /\ Awaits("guru3", "lock", <<>>)
     \/ at["guru3"] = "lock" /\ Awaits("guru3", "connect", <<>>)
     \/ at["guru3"] \in {"lock", "connect"} /\ Over("guru3", "failed")
     \/ at["guru3"] \in {"connect", "recv"} /\ Awaits("guru3", "recv", <<>>)
     \/ at["guru3"] = "recv" /\ Awaits("guru3", "failing", <<>>)
     \/ at["guru3"] = "failing" /\ Over("guru3", "failed")
     \/ at["guru3"] = "closing" /\ Over("guru3", "done")
  /\ OnlyLoop

(* distribute_guru3_messages: an event that came into the queue.  Some     *)
(* need the OMM, some only the database.                                   *)
Events ==
  /\ TaskTurn("events")
  /\ \/ at["events"] = "start" /\ Awaits("events", "queue", <<>>) /\ OnlyLoop
     \/ at["events"] = "queue" /\ AskingBlocks("events")
     \/ /\ at["events"] = "queue"
        /\ Awaits("events", "queue", <<>>) \/ Over("events", "failed")
        /\ UsesDatabase("events")

(* The OMM is away: logout joins a thread that was never started, and that *)
(* is the exception the task ends with.                                    *)
ConnectRefused ==
  /\ LoginMayFail
  /\ at["omm"] = "start"
  /\ Over("omm", "failed")
  /\ UNCHANGED <<client, hung>>

(* The answer to Open has no publicKey: KeyError, then logout.             *)
LoginRefused ==
  /\ LoginMayFail
  /\ at["omm"] = "start"
  /\ Over("omm", "failed")
  /\ client' = "out"
  /\ UNCHANGED hung

(* Something breaks the session in the midst of login and read_users.      *)
LoginBlocks ==
  /\ at["omm"] = "start"
  /\ hung' = "omm"
  /\ client' \in {"mute", "stuck"}
  /\ UNCHANGED <<at, ready>>

(* Mutant: the release of the lock makes nobody ready.                     *)
LogsIn_WakesLock ==
  /\ at["omm"] = "start"
  /\ Awaits("omm", "sleep", <<"lock">>)
  /\ client' = "in"
  /\ UNCHANGED hung

(* login and read_users; the release of the lock wakes the Guru3 task, and *)
(* the first set_subscription follows in the same turn.                    *)
LogsIn ==
  /\ at["omm"] = "start"
  /\ Awaits("omm", "sleep", IF at["guru3"] = "lock" THEN <<"guru3">> ELSE <<>>)
  /\ client' = "in"
  /\ UNCHANGED hung

(* Every 15 s set_subscription, which waits for an answer it has no use    *)
(* for.                                                                    *)
RenewSubscription ==
  /\ at["omm"] = "sleep"
  /\ \/ client = "in" /\ Awaits("omm", "sleep", <<>>) /\ UNCHANGED <<client, hung>>
     \/ AskingBlocks("omm")

Omm ==
  /\ TaskTurn("omm")
  /\ ConnectRefused \/ LoginRefused \/ LoginBlocks \/ LogsIn \/ RenewSubscription
  /\ UNCHANGED <<cancelling, main, asterisk, late, signal, posts>>

(* find_unbound_pps begins with a request, not with an await.              *)
Collect ==
  /\ TaskTurn("collect")
  /\ \/ AskingBlocks("collect")
     \/ /\ Awaits("collect", "sleep", <<>>) \/ Over("collect", "failed")
        /\ UsesStores("collect")

(* The connection closes, a thread of the client dies, an answer is        *)
(* dropped, or the dispatcher subscribes.                                  *)
Breaks ==
  /\ Live
  /\ client \in {"in", "mute"}
  /\ client' \in {"mute", "stuck"} \ {client}
  /\ UNCHANGED <<at, ready, cancelling, main, asterisk, hung, late, signal, posts>>
------------------------------------------------------------------------------
(* POSTs, cancellation and SIGTERM.                                        *)

PostArrives ==
  /\ Live
  /\ at["web"] = "done"
  /\ posts < MaxPosts
  /\ posts' = posts + 1
  /\ ready' = Append(ready, "post")
  /\ UNCHANGED <<at, cancelling, main, client, asterisk, hung, late, signal>>

(* The handler's task is none of self.tasks; what it raises is answered    *)
(* with 500.                                                               *)
Post ==
  /\ Turn("post")
  /\ \/ AskingBlocks("post")
     \/ ready' = Tail(ready) /\ UNCHANGED at /\ UsesStores("post")

(* A cancelled handler ends without a word to the stores.                  *)
PostRefused ==
  /\ Turn("refused")
  /\ ready' = Tail(ready)
  /\ UNCHANGED at
  /\ OnlyLoop

(* The error is raised in the task, and the turn ends.                     *)
Raised(t) ==
  /\ cancelling' = cancelling \ {t}
  /\ UNCHANGED <<main, asterisk, hung, late, signal, posts>>

(* A CancelledError that no try of the task catches.                       *)
CancelledUncaught(t) ==
  /\ at[t] \in {"start", "bind", "lock", "connect", "closing", "failing"}
  /\ Over(t, "cancelled")
  /\ UNCHANGED client
  /\ Raised(t)

(* Mutant: the OMM task has no finally.                                    *)
CancelledCaught_NoLogout(t) ==
  /\ at[t] \in {"recv", "queue", "sleep"}
  /\ IF at[t] = "recv" THEN Awaits(t, "closing", <<>>) ELSE Over(t, "done")
  /\ UNCHANGED client
  /\ Raised(t)

(* Guru3Mgr.run closes the websocket first, the OMM task logs out in its   *)
(* finally, the others just end.                                           *)
CancelledCaught(t) ==
  /\ at[t] \in {"recv", "queue", "sleep"}
  /\ t = "omm" => client # "stuck"
  /\ IF at[t] = "recv" THEN Awaits(t, "closing", <<>>) ELSE Over(t, "done")
  /\ client' = IF t = "omm" THEN "out" ELSE client
  /\ Raised(t)

(* logout joins the threads of the client without a timeout: one that      *)
(* waits for its own Subscribe never sees _terminate.                      *)
LogoutBlocks(t) ==
  /\ t = "omm"
  /\ at[t] = "sleep"
  /\ client = "stuck"
  /\ Blocks(t)

Cancel(t) ==
  /\ Turn(t)
  /\ t \in cancelling
  /\ CancelledUncaught(t) \/ CancelledCaught(t) \/ LogoutBlocks(t)

SignalArrives ==
  /\ Live
  /\ signal = "none"
  /\ signal' = "pending"
  /\ ready' = Append(ready, "sigterm")
  /\ UNCHANGED <<at, cancelling, main, client, asterisk, hung, late, posts>>

(* Mutant: the tasks are not cancelled.                                    *)
HandleSigterm_NoCancel ==
  /\ Turn("sigterm")
  /\ signal' = "handled"
  /\ asterisk' = "closed"
  /\ ready' = Tail(ready)
  /\ UNCHANGED <<at, cancelling, main, client, hung, late, posts>>

HandleSigterm ==
  /\ Turn("sigterm")
  /\ signal' = "handled"
  /\ asterisk' = "closed"
  /\ CancelAll(Tail(ready))
  /\ UNCHANGED <<at, main, client, hung, late, posts>>

Run ==
  \/ Web \/ Guru3 \/ Events \/ Omm \/ Collect
  \/ Main \/ Post \/ PostRefused \/ HandleSigterm
  \/ \E t \in TaskSet : Cancel(t)

Next ==
  \/ Run
  \/ \E t \in TaskSet : Wake(t)
  \/ PostArrives \/ SignalArrives \/ Breaks

Spec == Init /\ [][Next]_vars

(* The loop runs what is ready, and closing the websocket has a timeout.   *)
FairSpec ==
  /\ Spec
  /\ WF_vars(Run)
  /\ WF_vars(at["guru3"] \in {"closing", "failing"} /\ Wake("guru3"))
------------------------------------------------------------------------------
(* Properties.                                                             *)

(* Unless the login failed, no task of run_tasks blocks the loop before    *)
(* the session is begun or after it is over: the OMM task has its turn     *)
(* before another task asks for anything, and the logout comes with the    *)
(* cancellation of all.  A task is left waiting only in a session that     *)
(* broke.                                                                  *)
TasksAskInSession ==
  hung \in TaskSet => at["omm"] = "failed" \/ client \in {"mute", "stuck"}

(* handle_sigterm closes the database while tasks are still there, but no  *)
(* task runs a statement on it any more.                                   *)
NoTaskOnClosedDatabase == late \subseteq {"post"}

(* The process does not end with an open session at the OMM.               *)
LoggedOutAtEnd == main = "ended" => client \in {"new", "out"}

(* SIGTERM ends the process, but for two things: a POST blocks it with a   *)
(* request, or the logout waits for a dispatcher that is stuck.  The       *)
(* failure of a task ends it as well, unless somebody blocks it before     *)
(* that: a POST, or a task that asks although the login failed or the      *)
(* session broke.                                                          *)
EndsOrHangsForACause ==
  /\ signal = "handled" ~>
       main = "ended" \/ hung = "post" \/ (hung = "omm" /\ client = "stuck")
  /\ (\E t \in TaskSet : at[t] = "failed") ~>
       \/ main = "ended"
       \/ hung = "post"
       \/ hung # "nobody" /\ (at["omm"] = "failed" \/ client \in {"mute", "stuck"})

(* OMMClient.py:113-114: login comes before any command but get_versions.  *)
CommandsAfterLogin == hung \in TaskSet => client # "new"
==============================================================================
