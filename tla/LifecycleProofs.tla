---------------------------- MODULE LifecycleProofs ----------------------------
(***************************************************************************)
(* Proofs about Lifecycle, for every number of POSTs and every login.      *)
(*                                                                         *)
(* That a task uses the stores only while they are there is a matter of    *)
(* order.  The collector, which asks the OMM at once, stands behind the    *)
(* OMM task in the queue of the loop; the events wait for the Guru3 task,  *)
(* which waits for the lock of the OMM task.  And whatever ends the        *)
(* session or closes the database has cancelled all tasks before, so the   *)
(* next turn of each is its last but for the closing of the websocket.     *)
(* A session may break at any time; that it is broken changes nothing of   *)
(* this, but that who asks, or logs out, is kept for ever.                 *)
(***************************************************************************)
EXTENDS Lifecycle, SequenceTheorems, TLAPS

(* A task is in the queue at most once, and not after its end.             *)
OncePerTask(queue) ==
  \A i, j \in 1 .. Len(queue) : queue[i] \in TaskSet /\ queue[i] = queue[j] => i = j

QueueIsFit ==
  OncePerTask(ready) /\ \A t \in TaskSet : Queued(t) => ~Finished(t)

(* All tasks are over or have a CancelledError ahead; the Guru3 task may   *)
(* have taken its own and close the websocket.                             *)
AllCancelled ==
  \A t \in TaskSet : Finished(t) \/ t \in cancelling \/ (t = "guru3" /\ at[t] = "closing")

(* Only the Guru3 task has a websocket to read from.                        *)
RecvIsGuru3 == \A t \in TaskSet : at[t] = "recv" => t = "guru3"

CancelledTogether ==
  \/ cancelling # {} \/ signal = "handled" \/ main # "gather" \/ asterisk = "closed"
  \/ \E t \in TaskSet : at[t] \in {"cancelled", "closing"}
  => AllCancelled

Before(queue, x, y) ==
  \E i, j \in 1 .. Len(queue) : i < j /\ queue[i] = x /\ queue[j] = y

(* The OMM task is before the collector until it had its first turn.       *)
OmmBeforeCollector ==
  at["omm"] = "start" =>
    \/ AllCancelled
    \/ at["collect"] = "start" /\ Before(ready, "omm", "collect")

(* A session that was begun and is not over, whole or broken.              *)
Session == client \in {"in", "mute", "stuck"}

SessionAtHand == Session \/ at["omm"] = "failed" \/ AllCancelled

SessionIsOpened ==
  /\ Session => at["omm"] = "sleep" \/ hung = "omm"
  /\ at["omm"] # "start" => SessionAtHand

(* Only the login lets the Guru3 task pass the lock, and only that one     *)
(* lets events come.                                                       *)
LockHolds ==
  /\ at["guru3"] \notin {"start", "lock"} => SessionAtHand
  /\ at["guru3"] = "lock" /\ Queued("guru3") => SessionAtHand
  /\ at["events"] = "queue" /\ Queued("events") => SessionAtHand

IInv ==
  /\ TypeOK /\ QueueIsFit /\ RecvIsGuru3
  /\ CancelledTogether /\ OmmBeforeCollector /\ SessionIsOpened /\ LockHolds
  /\ TasksAskInSession /\ NoTaskOnClosedDatabase /\ LoggedOutAtEnd
------------------------------------------------------------------------------
(* What the operations on the queue keep.                                  *)

LEMMA TailKeeps ==
  ASSUME NEW q \in Seq(Queueable), q # <<>>, OncePerTask(q)
  PROVE  /\ Head(q) \in Queueable /\ Tail(q) \in Seq(Queueable) /\ OncePerTask(Tail(q))
         /\ \A x : Contains(Tail(q), x) => Contains(q, x)
         /\ Head(q) \in TaskSet => ~Contains(Tail(q), Head(q))
         /\ \A x, y : Before(q, x, y) /\ Head(q) # x => Before(Tail(q), x, y)
         /\ \A x, y : Before(q, x, y) /\ y \in TaskSet => Head(q) # y
<1>1. /\ Head(q) = q[1] /\ Len(q) \in Nat \ {0} /\ Head(q) \in Queueable
      /\ Tail(q) \in Seq(Queueable) /\ Len(Tail(q)) = Len(q) - 1
      /\ \A i \in 1 .. Len(Tail(q)) : Tail(q)[i] = q[i + 1]
  BY HeadTailProperties, EmptySeq
<1>2. OncePerTask(Tail(q))
  BY <1>1 DEF OncePerTask
<1>3. \A x : Contains(Tail(q), x) => Contains(q, x)
  BY <1>1 DEF Contains
<1>4. Head(q) \in TaskSet => ~Contains(Tail(q), Head(q))
  BY <1>1 DEF Contains, OncePerTask
<1>5. ASSUME NEW x, NEW y, Before(q, x, y), Head(q) # x
      PROVE  Before(Tail(q), x, y)
  <2>1. PICK i, j \in 1 .. Len(q) : i < j /\ q[i] = x /\ q[j] = y
    BY <1>5 DEF Before
  <2>2. /\ i - 1 \in 1 .. Len(Tail(q)) /\ j - 1 \in 1 .. Len(Tail(q)) /\ i - 1 < j - 1
        /\ Tail(q)[i - 1] = x /\ Tail(q)[j - 1] = y
    BY <1>1, <1>5, <2>1
  <2> QED
    BY <2>2 DEF Before
<1>6. ASSUME NEW x, NEW y, Before(q, x, y), y \in TaskSet
      PROVE  Head(q) # y
  BY <1>1, <1>6 DEF Before, OncePerTask
<1> QED
  BY <1>1, <1>2, <1>3, <1>4, <1>5, <1>6

LEMMA AppendKeeps ==
  ASSUME NEW q \in Seq(Queueable), OncePerTask(q),
         NEW e \in Queueable, e \in TaskSet => ~Contains(q, e)
  PROVE  /\ Append(q, e) \in Seq(Queueable) /\ OncePerTask(Append(q, e))
         /\ \A x : Contains(Append(q, e), x) => Contains(q, x) \/ x = e
         /\ \A x, y : Before(q, x, y) => Before(Append(q, e), x, y)
<1>1. /\ Append(q, e) \in Seq(Queueable) /\ Len(q) \in Nat
      /\ Len(Append(q, e)) = Len(q) + 1
      /\ \A i \in 1 .. Len(q) : Append(q, e)[i] = q[i]
      /\ Append(q, e)[Len(q) + 1] = e
  BY AppendProperties, LenProperties
<1>2. OncePerTask(Append(q, e))
  BY <1>1 DEF OncePerTask, Contains
<1>3. \A x : Contains(Append(q, e), x) => Contains(q, x) \/ x = e
  BY <1>1 DEF Contains
<1>4. \A x, y : Before(q, x, y) => Before(Append(q, e), x, y)
  BY <1>1 DEF Before
<1> QED
  BY <1>1, <1>2, <1>3, <1>4

LEMMA RefusingKeeps ==
  ASSUME NEW q \in Seq(Queueable), OncePerTask(q)
  PROVE  /\ PostsRefused(q) \in Seq(Queueable) /\ OncePerTask(PostsRefused(q))
         /\ \A x \in TaskSet : Contains(PostsRefused(q), x) => Contains(q, x)
         /\ \A x, y \in TaskSet : Before(q, x, y) => Before(PostsRefused(q), x, y)
<1>1. Len(q) \in Nat /\ \A i \in 1 .. Len(q) : q[i] \in Queueable
  BY LenProperties, ElementOfSeq
<1>2. /\ PostsRefused(q) \in Seq(Queueable) /\ Len(PostsRefused(q)) = Len(q)
      /\ \A i \in 1 .. Len(q) :
           PostsRefused(q)[i] = IF q[i] = "post" THEN "refused" ELSE q[i]
  BY <1>1 DEF PostsRefused, Queueable
<1>3. \A i \in 1 .. Len(q), x \in TaskSet : PostsRefused(q)[i] = x <=> q[i] = x
  BY <1>2 DEF TaskSet
<1>4. OncePerTask(PostsRefused(q))
  BY <1>2, <1>3 DEF OncePerTask
<1> QED
  BY <1>2, <1>3, <1>4 DEF Contains, Before

LEMMA SchedulingKeeps ==
  ASSUME NEW q \in Seq(Queueable), OncePerTask(q), NEW t \in TaskSet,
         Contains(q, t) => Finished(t) \/ Queued(t)
  PROVE  /\ q \o Scheduled(t) \in Seq(Queueable) /\ OncePerTask(q \o Scheduled(t))
         /\ \A x \in TaskSet : Contains(q \o Scheduled(t), x) =>
              Contains(q, x) \/ (x = t /\ ~Finished(t))
         /\ \A x, y \in TaskSet : Before(q, x, y) => Before(q \o Scheduled(t), x, y)
<1>1. CASE Finished(t) \/ Queued(t)
  BY <1>1, ConcatEmptySeq DEF Scheduled
<1>2. CASE ~(Finished(t) \/ Queued(t))
  <2>1. t \in Queueable /\ q \o Scheduled(t) = Append(q, t)
    BY <1>2, AppendIsConcat DEF Scheduled, Queueable
  <2> QED
    BY <1>2, <2>1, AppendKeeps
<1> QED
  BY <1>1, <1>2

LEMMA TasksAre ==
  /\ Tasks[1] = "web" /\ Tasks[2] = "guru3" /\ Tasks[3] = "events" /\ Tasks[4] = "omm"
  /\ Tasks[5] = "collect"
BY DEF Tasks

(* All tasks that are not over are in the queue, once, in the order they   *)
(* had.                                                                    *)
LEMMA CancelAllKeeps ==
  ASSUME NEW q \in Seq(Queueable), OncePerTask(q), CancelAll(q), at' = at,
         \A t \in TaskSet : Contains(q, t) => Queued(t) /\ ~Finished(t)
  PROVE  /\ ready' \in Seq(Queueable) /\ QueueIsFit'
         /\ \A x, y \in TaskSet : Before(q, x, y) => Before(ready', x, y)
         /\ cancelling' \subseteq TaskSet /\ AllCancelled'
<1> DEFINE q1 == q \o Scheduled("web")
           q2 == q1 \o Scheduled("guru3")
           q3 == q2 \o Scheduled("events")
           q4 == q3 \o Scheduled("omm")
           q5 == q4 \o Scheduled("collect")
           Good(r) == /\ r \in Seq(Queueable) /\ OncePerTask(r)
                      /\ \A x, y \in TaskSet : Before(q, x, y) => Before(r, x, y)
           New(r, S) == \A x \in TaskSet : Contains(r, x) => Contains(q, x) \/ (x \in S /\ ~Finished(x))
<1>1. ready' = q5
  BY TasksAre DEF CancelAll
<1>2. Good(q1) /\ New(q1, {"web"})
  BY SchedulingKeeps DEF TaskSet
<1> HIDE DEF q1
<1>3. Good(q2) /\ New(q2, {"web", "guru3"})
  BY <1>2, SchedulingKeeps DEF TaskSet
<1> HIDE DEF q2
<1>4. Good(q3) /\ New(q3, {"web", "guru3", "events"})
  BY <1>3, SchedulingKeeps DEF TaskSet
<1> HIDE DEF q3
<1>5. Good(q4) /\ New(q4, {"web", "guru3", "events", "omm"})
  BY <1>4, SchedulingKeeps DEF TaskSet
<1> HIDE DEF q4
<1>6. Good(q5) /\ New(q5, {"web", "guru3", "events", "omm", "collect"})
  BY <1>5, SchedulingKeeps DEF TaskSet
<1> HIDE DEF q5
<1>7. QueueIsFit'
  BY <1>1, <1>6 DEF QueueIsFit, Queued, Finished, OncePerTask, Contains
<1>8. cancelling' \subseteq TaskSet /\ AllCancelled'
  BY DEF CancelAll, AllCancelled, Finished
<1> QED
  BY <1>1, <1>6, <1>7, <1>8
------------------------------------------------------------------------------
(* What a turn of the loop does to the queue.                              *)

LEMMA TurnTakes ==
  ASSUME IInv, NEW x, Turn(x)
  PROVE  /\ Live /\ x \in Queueable
         /\ Tail(ready) \in Seq(Queueable) /\ OncePerTask(Tail(ready))
         /\ \A y : Contains(Tail(ready), y) => Queued(y)
         /\ x \in TaskSet => Queued(x) /\ ~Contains(Tail(ready), x) /\ ~Finished(x)
         /\ \A u, v : Before(ready, u, v) /\ x # u => Before(Tail(ready), u, v)
         /\ \A u, v : Before(ready, u, v) /\ v \in TaskSet => x # v
<1>1. ready \in Seq(Queueable) /\ ready # <<>> /\ Head(ready) = x /\ OncePerTask(ready)
  BY DEF IInv, TypeOK, QueueIsFit, Turn
<1>2. Queued(x)
  BY <1>1, HeadTailProperties, EmptySeq DEF Queued, Contains
<1> QED
  BY <1>1, <1>2, TailKeeps DEF IInv, QueueIsFit, Turn, Queued

(* The task that had its turn is not in the queue; the others are not      *)
(* there unless they were, and keep their order.                           *)
Stands(t) ==
  /\ ready' \in Seq(Queueable) /\ QueueIsFit'
  /\ \A u \in TaskSet : Queued(u)' => Queued(u) /\ u # t
  /\ \A u, v : Before(ready, u, v) /\ t # u => Before(ready', u, v)
  /\ \A u, v : Before(ready, u, v) /\ v \in TaskSet => t # v

Moves(t, place) ==
  /\ at' \in [TaskSet -> {"start"} \cup Waits \cup Ends]
  /\ at'[t] = place
  /\ \A u \in TaskSet \ {t} : at'[u] = at[u]

LEMMA AwaitsMoves ==
  ASSUME IInv, NEW t \in TaskSet, Turn(t), NEW place \in Waits, Awaits(t, place, <<>>)
  PROVE  Moves(t, place) /\ Stands(t)
<1>1. Moves(t, place)
  BY DEF IInv, TypeOK, Awaits, Moves
<1>2. ready' = Tail(ready)
  BY TurnTakes, ConcatEmptySeq DEF Awaits
<1>3. \A u \in TaskSet : Queued(u)' => Queued(u) /\ u # t
  BY <1>2, TurnTakes DEF Queued
<1>4. \A u \in TaskSet : Queued(u)' => ~Finished(u)'
  BY <1>1, <1>3 DEF IInv, QueueIsFit, Finished, Moves
<1> QED
  BY <1>1, <1>2, <1>3, <1>4, TurnTakes DEF Stands, QueueIsFit

LEMMA OverMoves ==
  ASSUME IInv, NEW t \in TaskSet, Turn(t), NEW how \in Ends, Over(t, how)
  PROVE  Moves(t, how) /\ Stands(t)
<1>1. Moves(t, how)
  BY DEF IInv, TypeOK, Over, Moves
<1>2. ready' = Tail(ready) \/ ready' = Append(Tail(ready), "main")
  <2>1. \/ ready' = Tail(ready) \o <<>>
        \/ ready' = Tail(ready) \o <<"main">>
    BY DEF Over
  <2>2. Tail(ready) \o <<>> = Tail(ready)
    BY TurnTakes, ConcatEmptySeq
  <2>3. Append(Tail(ready), "main") = Tail(ready) \o <<"main">>
    BY TurnTakes, AppendIsConcat DEF Queueable
  <2> QED
    BY <2>1, <2>2, <2>3
<1>3. /\ ready' \in Seq(Queueable) /\ OncePerTask(ready')
      /\ \A u \in TaskSet : Queued(u)' => Queued(u) /\ u # t
      /\ \A u, v : Before(ready, u, v) /\ t # u => Before(ready', u, v)
  <2>1. "main" \in Queueable /\ "main" \notin TaskSet
    BY DEF Queueable, TaskSet
  <2>2. CASE ready' = Tail(ready)
    BY <2>2, TurnTakes DEF Queued
  <2>3. CASE ready' = Append(Tail(ready), "main")
    BY <2>1, <2>3, TurnTakes, AppendKeeps DEF Queued
  <2> QED
    BY <1>2, <2>2, <2>3
<1>4. \A u \in TaskSet : Queued(u)' => ~Finished(u)'
  BY <1>1, <1>3 DEF IInv, QueueIsFit, Finished, Moves
<1> QED
  BY <1>1, <1>3, <1>4, TurnTakes DEF Stands, QueueIsFit

(* A task that has its turn without a CancelledError finds nothing         *)
(* cancelled, unless it is the Guru3 task on its way out.                  *)
LEMMA NothingIsCancelled ==
  ASSUME IInv, NEW t \in TaskSet, TaskTurn(t), ~(t = "guru3" /\ at[t] = "closing")
  PROVE  /\ ~AllCancelled /\ cancelling = {} /\ signal # "handled" /\ main = "gather"
         /\ asterisk = "open" /\ \A u \in TaskSet : at[u] \notin {"cancelled", "closing"}
<1>1. ~AllCancelled
  BY TurnTakes DEF TaskTurn, AllCancelled
<1> QED
  BY <1>1 DEF IInv, CancelledTogether, TypeOK
------------------------------------------------------------------------------
(* Each action preserves the invariant.                                    *)

(* A turn that never ends moves nothing.                                   *)
LEMMA BlocksPreserves ==
  ASSUME IInv, Live, NEW who \in {"omm", "events", "collect", "post"}, Blocks(who),
         who = "post" \/ at["omm"] = "failed" \/ client \in {"mute", "stuck"}
  PROVE  IInv'
<1>1. /\ at' = at /\ ready' = ready /\ cancelling' = cancelling /\ main' = main
      /\ client' = client /\ asterisk' = asterisk /\ late' = late /\ signal' = signal
      /\ posts' = posts /\ hung' = who /\ hung = "nobody"
  BY DEF Blocks, Live
<1>2. TypeOK'
  BY <1>1 DEF IInv, TypeOK
<1>3. QueueIsFit' /\ RecvIsGuru3'
  BY <1>1 DEF IInv, QueueIsFit, RecvIsGuru3, Queued, Finished
<1>4. (AllCancelled' <=> AllCancelled) /\ (SessionAtHand' <=> SessionAtHand)
  BY <1>1 DEF AllCancelled, SessionAtHand, Session, Finished
<1>5. CancelledTogether' /\ OmmBeforeCollector'
  BY <1>1, <1>4 DEF IInv, CancelledTogether, OmmBeforeCollector
<1>6. SessionIsOpened' /\ LockHolds'
  BY <1>1, <1>4 DEF IInv, SessionIsOpened, LockHolds, Session, Queued
<1>7. TasksAskInSession' /\ NoTaskOnClosedDatabase' /\ LoggedOutAtEnd'
  BY <1>1 DEF IInv, TasksAskInSession, NoTaskOnClosedDatabase, LoggedOutAtEnd, TaskSet
<1> QED
  BY <1>2, <1>3, <1>5, <1>6, <1>7 DEF IInv

LEMMA InitEstablishes == Init => IInv
<1> SUFFICES ASSUME Init PROVE IInv
  OBVIOUS
<1>1. /\ ready \in Seq(Queueable) /\ Len(ready) = 5
      /\ ready[1] = "web" /\ ready[2] = "guru3" /\ ready[3] = "events"
      /\ ready[4] = "omm" /\ ready[5] = "collect"
  BY DEF Init, Tasks, Queueable, TaskSet
<1>2. at \in [TaskSet -> {"start"} \cup Waits \cup Ends] /\ \A t \in TaskSet : at[t] = "start"
  BY DEF Init
<1>3. TypeOK
  BY <1>1, <1>2, BoundsAssumption DEF Init, TypeOK
<1>4. OncePerTask(ready)
  <2>1. \A i, j \in 1 .. 5 : ready[i] = ready[j] => i = j
    BY <1>1
  <2> QED
    BY <1>1, <2>1 DEF OncePerTask
<1>5. QueueIsFit
  BY <1>2, <1>4 DEF QueueIsFit, Finished, Ends
<1>6. Before(ready, "omm", "collect")
  <2>1. 4 \in 1 .. Len(ready) /\ 5 \in 1 .. Len(ready) /\ 4 < 5
    BY <1>1
  <2> QED
    BY <1>1, <2>1 DEF Before
<1>7. OmmBeforeCollector
  BY <1>2, <1>6 DEF OmmBeforeCollector, TaskSet
<1>8. CancelledTogether /\ RecvIsGuru3
  BY <1>2 DEF Init, CancelledTogether, RecvIsGuru3
<1>9. SessionIsOpened /\ LockHolds
  BY <1>2 DEF Init, SessionIsOpened, LockHolds, Session, TaskSet
<1>10. TasksAskInSession /\ NoTaskOnClosedDatabase /\ LoggedOutAtEnd
  BY DEF Init, TasksAskInSession, NoTaskOnClosedDatabase, LoggedOutAtEnd, TaskSet
<1> QED
  BY <1>3, <1>5, <1>7, <1>8, <1>9, <1>10 DEF IInv

(* The tasks that do no more than wait or end: what is known of the        *)
(* session stays known.                                                    *)
LEMMA WebPreserves == IInv /\ Web => IInv'
<1> SUFFICES ASSUME IInv, Web PROVE IInv'
  OBVIOUS
<1>1. PICK place \in {"bind", "done", "failed"} : Moves("web", place) /\ Stands("web")
  BY AwaitsMoves, OverMoves DEF Web, TaskTurn, TaskSet, Waits, Ends
<1>2. /\ ~AllCancelled /\ cancelling = {} /\ signal # "handled" /\ main = "gather"
      /\ asterisk = "open" /\ \A u \in TaskSet : at[u] \notin {"cancelled", "closing"}
  BY NothingIsCancelled DEF Web, TaskSet
<1>3. OnlyLoop
  BY DEF Web
<1>4. TypeOK'
  BY <1>1, <1>3 DEF IInv, TypeOK, OnlyLoop, Moves, Stands
<1>5. CancelledTogether'
  BY <1>1, <1>2, <1>3 DEF CancelledTogether, Moves, OnlyLoop
<1>6. OmmBeforeCollector'
  BY <1>1, <1>2 DEF IInv, OmmBeforeCollector, Moves, Stands, TaskSet
<1>7. SessionIsOpened' /\ LockHolds'
  BY <1>1, <1>2, <1>3 DEF IInv, SessionIsOpened, LockHolds, SessionAtHand, Session, Moves,
                          Stands, OnlyLoop, TaskSet
<1>8. TasksAskInSession' /\ NoTaskOnClosedDatabase' /\ LoggedOutAtEnd'
  BY <1>1, <1>3 DEF IInv, TasksAskInSession, NoTaskOnClosedDatabase, LoggedOutAtEnd, Moves,
                    OnlyLoop, TaskSet
<1>9. RecvIsGuru3'
  BY <1>1 DEF IInv, RecvIsGuru3, Moves
<1> QED
  BY <1>1, <1>4, <1>5, <1>6, <1>7, <1>8, <1>9 DEF IInv, Stands

(* The Guru3 task passes the lock only with the session at hand.           *)
LEMMA Guru3Preserves == IInv /\ Guru3 => IInv'
<1> SUFFICES ASSUME IInv, Guru3 PROVE IInv'
  OBVIOUS
<1>1. PICK place \in {"lock", "connect", "recv", "failing", "failed", "done"} :
        /\ Moves("guru3", place) /\ Stands("guru3")
        /\ place = "done" <=> at["guru3"] = "closing"
        /\ place = "lock" => at["guru3"] = "start"
        /\ place # "lock" => at["guru3"] # "start"
  BY AwaitsMoves, OverMoves DEF Guru3, TaskTurn, TaskSet, Waits, Ends
<1>2. OnlyLoop /\ Live /\ Queued("guru3")
  BY TurnTakes DEF Guru3, TaskTurn, TaskSet
<1>3. TypeOK'
  BY <1>1, <1>2 DEF IInv, TypeOK, OnlyLoop, Moves, Stands
<1>4. \/ AllCancelled /\ AllCancelled'
      \/ /\ ~AllCancelled /\ cancelling = {} /\ signal # "handled" /\ main = "gather"
         /\ asterisk = "open" /\ \A u \in TaskSet : at[u] \notin {"cancelled", "closing"}
         /\ at["guru3"] # "closing"
  <2>1. CASE at["guru3"] = "closing"
    <3>1. AllCancelled
      BY <2>1 DEF IInv, CancelledTogether, TaskSet
    <3>2. AllCancelled'
      BY <1>1, <1>2, <2>1, <3>1 DEF AllCancelled, Finished, Moves, OnlyLoop, Ends
    <3> QED
      BY <3>1, <3>2
  <2>2. CASE at["guru3"] # "closing"
    BY <2>2, NothingIsCancelled DEF Guru3, TaskSet
  <2> QED
    BY <2>1, <2>2
<1>5. CancelledTogether'
  BY <1>1, <1>2, <1>4 DEF CancelledTogether, Moves, OnlyLoop
<1>6. OmmBeforeCollector'
  BY <1>1, <1>4 DEF IInv, OmmBeforeCollector, Moves, Stands, TaskSet
<1>7. SessionAtHand => SessionAtHand'
  BY <1>1, <1>2, <1>4 DEF SessionAtHand, Session, Moves, OnlyLoop, TaskSet
<1>8. SessionIsOpened'
  BY <1>1, <1>2, <1>7 DEF IInv, SessionIsOpened, Session, Moves, OnlyLoop, TaskSet
<1>9. at'["guru3"] # "lock" => SessionAtHand
  BY <1>1, <1>2 DEF IInv, LockHolds, Moves
<1>10. LockHolds'
  BY <1>1, <1>7, <1>9 DEF IInv, LockHolds, Moves, Stands, TaskSet
<1>11. TasksAskInSession' /\ NoTaskOnClosedDatabase' /\ LoggedOutAtEnd'
  BY <1>1, <1>2 DEF IInv, TasksAskInSession, NoTaskOnClosedDatabase, LoggedOutAtEnd, Moves,
                    OnlyLoop, TaskSet
<1>12. RecvIsGuru3'
  BY <1>1 DEF IInv, RecvIsGuru3, Moves
<1> QED
  BY <1>1, <1>3, <1>5, <1>6, <1>8, <1>10, <1>11, <1>12 DEF IInv, Stands

(* An event that is there came after the login.                            *)
LEMMA EventsPreserves == IInv /\ Events => IInv'
<1> SUFFICES ASSUME IInv, Events PROVE IInv'
  OBVIOUS
<1>1. /\ ~AllCancelled /\ cancelling = {} /\ signal # "handled" /\ main = "gather"
      /\ asterisk = "open" /\ \A u \in TaskSet : at[u] \notin {"cancelled", "closing"}
  BY NothingIsCancelled DEF Events, TaskSet
<1>2. Live /\ Queued("events")
  BY TurnTakes DEF Events, TaskTurn, TaskSet
<1>3. CASE at["events"] = "queue" /\ AskingBlocks("events")
  <2>1. client # "in" /\ SessionAtHand /\ Blocks("events")
    BY <1>2, <1>3 DEF IInv, LockHolds, AskingBlocks
  <2>2. at["omm"] = "failed" \/ client \in {"mute", "stuck"}
    BY <1>1, <2>1 DEF SessionAtHand, Session
  <2> QED
    BY <1>2, <2>1, <2>2, BlocksPreserves
<1>4. CASE ~(at["events"] = "queue" /\ AskingBlocks("events"))
  <2>1. PICK place \in {"queue", "failed"} : Moves("events", place) /\ Stands("events")
    BY <1>4, AwaitsMoves, OverMoves DEF Events, TaskTurn, TaskSet, Waits, Ends
  <2>2. UNCHANGED <<cancelling, main, client, asterisk, hung, late, signal, posts>>
    BY <1>1, <1>4 DEF Events, OnlyLoop, UsesDatabase
  <2>3. TypeOK'
    BY <2>1, <2>2 DEF IInv, TypeOK, Moves, Stands
  <2>4. CancelledTogether'
    BY <1>1, <2>1, <2>2 DEF CancelledTogether, Moves
  <2>5. OmmBeforeCollector'
    BY <1>1, <2>1 DEF IInv, OmmBeforeCollector, Moves, Stands, TaskSet
  <2>6. SessionIsOpened' /\ LockHolds'
    BY <1>1, <2>1, <2>2 DEF IInv, SessionIsOpened, LockHolds, SessionAtHand, Session, Moves,
                            Stands, TaskSet
  <2>7. TasksAskInSession' /\ NoTaskOnClosedDatabase' /\ LoggedOutAtEnd'
    BY <2>1, <2>2 DEF IInv, TasksAskInSession, NoTaskOnClosedDatabase, LoggedOutAtEnd,
                      Moves, TaskSet
  <2>8. RecvIsGuru3'
    BY <2>1 DEF IInv, RecvIsGuru3, Moves
  <2> QED
    BY <2>1, <2>3, <2>4, <2>5, <2>6, <2>7, <2>8 DEF IInv, Stands
<1> QED
  BY <1>3, <1>4

(* The collector has its turn after the OMM task had its first.            *)
LEMMA CollectPreserves == IInv /\ Collect => IInv'
<1> SUFFICES ASSUME IInv, Collect PROVE IInv'
  OBVIOUS
<1>1. /\ ~AllCancelled /\ cancelling = {} /\ signal # "handled" /\ main = "gather"
      /\ asterisk = "open" /\ \A u \in TaskSet : at[u] \notin {"cancelled", "closing"}
  BY NothingIsCancelled DEF Collect, TaskSet
<1>2. /\ Live /\ at["omm"] # "start"
  BY <1>1, TurnTakes DEF IInv, OmmBeforeCollector, Collect, TaskTurn, TaskSet
<1>3. CASE AskingBlocks("collect")
  <2>1. client # "in" /\ SessionAtHand /\ Blocks("collect")
    BY <1>2, <1>3 DEF IInv, SessionIsOpened, AskingBlocks
  <2>2. at["omm"] = "failed" \/ client \in {"mute", "stuck"}
    BY <1>1, <2>1 DEF SessionAtHand, Session
  <2> QED
    BY <1>2, <2>1, <2>2, BlocksPreserves
<1>4. CASE ~AskingBlocks("collect")
  <2>1. PICK place \in {"sleep", "failed"} : Moves("collect", place) /\ Stands("collect")
    BY <1>4, AwaitsMoves, OverMoves DEF Collect, TaskTurn, TaskSet, Waits, Ends
  <2>2. UNCHANGED <<cancelling, main, client, asterisk, hung, late, signal, posts>>
    BY <1>1, <1>4 DEF Collect, UsesStores, UsesDatabase
  <2>3. TypeOK'
    BY <2>1, <2>2 DEF IInv, TypeOK, Moves, Stands
  <2>4. CancelledTogether'
    BY <1>1, <2>1, <2>2 DEF CancelledTogether, Moves
  <2>5. OmmBeforeCollector'
    BY <1>2, <2>1 DEF OmmBeforeCollector, Moves, TaskSet
  <2>6. SessionIsOpened' /\ LockHolds'
    BY <1>1, <2>1, <2>2 DEF IInv, SessionIsOpened, LockHolds, SessionAtHand, Session, Moves,
                            Stands, TaskSet
  <2>7. TasksAskInSession' /\ NoTaskOnClosedDatabase' /\ LoggedOutAtEnd'
    BY <2>1, <2>2 DEF IInv, TasksAskInSession, NoTaskOnClosedDatabase, LoggedOutAtEnd,
                      Moves, TaskSet
  <2>8. RecvIsGuru3'
    BY <2>1 DEF IInv, RecvIsGuru3, Moves
  <2> QED
    BY <2>1, <2>3, <2>4, <2>5, <2>6, <2>7, <2>8 DEF IInv, Stands
<1> QED
  BY <1>3, <1>4

(* The login: it finds the Guru3 task at the lock, and not in the queue.   *)
LEMMA LogsInMoves ==
  ASSUME IInv, TaskTurn("omm"), LogsIn
  PROVE  Moves("omm", "sleep") /\ ready' \in Seq(Queueable) /\ QueueIsFit'
<1>1. CASE at["guru3"] # "lock"
  <2>1. Awaits("omm", "sleep", <<>>)
    BY <1>1 DEF LogsIn
  <2> QED
    BY <2>1, AwaitsMoves DEF TaskTurn, TaskSet, Waits, Stands
<1>2. CASE at["guru3"] = "lock"
  <2>1. Moves("omm", "sleep")
    BY <1>2 DEF IInv, TypeOK, LogsIn, Awaits, Moves, TaskSet, Waits
  <2>2. /\ "guru3" \in Queueable /\ "omm" \in TaskSet /\ Tail(ready) \in Seq(Queueable)
        /\ OncePerTask(Tail(ready)) /\ ~Contains(Tail(ready), "omm")
        /\ \A y : Contains(Tail(ready), y) => Queued(y)
    BY TurnTakes DEF TaskTurn, TaskSet, Queueable
  <2>3. ready' = Append(Tail(ready), "guru3")
    <3>1. ready' = Tail(ready) \o <<"guru3">>
      BY <1>2 DEF LogsIn, Awaits
    <3> QED
      BY <2>2, <3>1, AppendIsConcat
  <2>4. ~Queued("guru3")
    BY <1>2, NothingIsCancelled, TurnTakes
       DEF IInv, LockHolds, SessionIsOpened, SessionAtHand, Session, LogsIn, TaskTurn, Live,
           TaskSet
  <2>5. /\ ready' \in Seq(Queueable) /\ OncePerTask(ready')
        /\ \A y : Contains(ready', y) => Contains(Tail(ready), y) \/ y = "guru3"
    BY <2>2, <2>3, <2>4, AppendKeeps
  <2>6. QueueIsFit'
    BY <1>2, <2>1, <2>2, <2>5 DEF IInv, QueueIsFit, Queued, Finished, Moves, TaskSet, Ends
  <2> QED
    BY <2>1, <2>5, <2>6
<1> QED
  BY <1>1, <1>2

(* The session breaks before the login is through.                         *)
LEMMA LoginBlocksPreserves ==
  ASSUME IInv, Omm, LoginBlocks
  PROVE  IInv'
<1>1. /\ at["omm"] = "start" /\ hung' = "omm" /\ client' \in {"mute", "stuck"}
      /\ at' = at /\ ready' = ready
      /\ cancelling' = cancelling /\ main' = main /\ asterisk' = asterisk /\ late' = late
      /\ signal' = signal /\ posts' = posts
  BY DEF Omm, LoginBlocks
<1>2. main = "gather"
  BY NothingIsCancelled DEF Omm, TaskSet
<1>3. TypeOK'
  BY <1>1 DEF IInv, TypeOK
<1>4. QueueIsFit' /\ RecvIsGuru3'
  BY <1>1 DEF IInv, QueueIsFit, RecvIsGuru3, Queued, Finished
<1>5. CancelledTogether' /\ OmmBeforeCollector'
  BY <1>1 DEF IInv, CancelledTogether, OmmBeforeCollector, AllCancelled, Finished
<1>6. SessionIsOpened' /\ LockHolds'
  BY <1>1 DEF SessionIsOpened, LockHolds, SessionAtHand, Session
<1>7. TasksAskInSession' /\ NoTaskOnClosedDatabase' /\ LoggedOutAtEnd'
  BY <1>1, <1>2 DEF IInv, TasksAskInSession, NoTaskOnClosedDatabase, LoggedOutAtEnd
<1> QED
  BY <1>3, <1>4, <1>5, <1>6, <1>7 DEF IInv

LEMMA OmmPreserves == IInv /\ Omm => IInv'
<1> SUFFICES ASSUME IInv, Omm PROVE IInv'
  OBVIOUS
<1>1. /\ ~AllCancelled /\ cancelling = {} /\ signal # "handled" /\ main = "gather"
      /\ asterisk = "open" /\ \A u \in TaskSet : at[u] \notin {"cancelled", "closing"}
  BY NothingIsCancelled DEF Omm, TaskSet
<1>2. Live
  BY TurnTakes DEF Omm, TaskTurn, TaskSet
<1>3. CASE at["omm"] = "sleep" /\ AskingBlocks("omm")
  <2>1. client # "in" /\ SessionAtHand /\ Blocks("omm") /\ at["omm"] # "failed"
    BY <1>3 DEF IInv, SessionIsOpened, AskingBlocks
  <2>2. client \in {"mute", "stuck"}
    BY <1>1, <2>1 DEF SessionAtHand, Session
  <2> QED
    BY <1>2, <2>1, <2>2, BlocksPreserves
<1>4. CASE ConnectRefused \/ LoginRefused \/ LogsIn
             \/ (RenewSubscription /\ ~AskingBlocks("omm"))
  <2>1. PICK place \in {"sleep", "failed"} :
          /\ Moves("omm", place) /\ ready' \in Seq(Queueable) /\ QueueIsFit'
          /\ place = "failed" => at["omm"] = "start" /\ client' \in {client, "out"}
          /\ place = "sleep" => client' = "in"
    <3>1. CASE ConnectRefused \/ LoginRefused
      BY <3>1, OverMoves DEF Omm, ConnectRefused, LoginRefused, TaskTurn, TaskSet, Ends, Stands
    <3>2. CASE LogsIn
      <4>1. client' = "in"
        BY <3>2 DEF LogsIn
      <4> QED
        BY <3>2, <4>1, LogsInMoves DEF Omm, Stands
    <3>3. CASE RenewSubscription /\ ~AskingBlocks("omm")
      BY <3>3, AwaitsMoves DEF Omm, RenewSubscription, TaskTurn, TaskSet, Waits, Stands
    <3> QED
      BY <1>4, <3>1, <3>2, <3>3
  <2>2. UNCHANGED <<cancelling, main, asterisk, hung, late, signal, posts>>
    BY <1>4 DEF Omm, ConnectRefused, LoginRefused, LogsIn, RenewSubscription
  <2>3. TypeOK'
    BY <2>1, <2>2 DEF IInv, TypeOK, Moves
  <2>4. CancelledTogether'
    BY <1>1, <2>1, <2>2 DEF CancelledTogether, Moves
  <2>5. OmmBeforeCollector'
    BY <2>1 DEF OmmBeforeCollector, Moves
  <2>6. SessionAtHand'
    BY <2>1 DEF SessionAtHand, Session, Moves, TaskSet
  <2>7. (Session => at["omm"] = "sleep") /\ (Session' => at'["omm"] = "sleep")
    BY <1>2, <2>1 DEF IInv, SessionIsOpened, Session, Live, Moves
  <2>8. SessionIsOpened' /\ LockHolds'
    BY <2>1, <2>6, <2>7 DEF SessionIsOpened, LockHolds, Moves
  <2>9. TasksAskInSession' /\ NoTaskOnClosedDatabase' /\ LoggedOutAtEnd'
    BY <1>1, <1>2, <2>2 DEF IInv, TasksAskInSession, NoTaskOnClosedDatabase,
                            LoggedOutAtEnd, Live, TaskSet
  <2>10. RecvIsGuru3'
    BY <2>1 DEF IInv, RecvIsGuru3, Moves
  <2> QED
    BY <2>1, <2>3, <2>4, <2>5, <2>8, <2>9, <2>10 DEF IInv
<1>5. CASE LoginBlocks
  BY <1>5, LoginBlocksPreserves
<1> QED
  BY <1>3, <1>4, <1>5 DEF Omm, RenewSubscription

(* Whatever comes of a CancelledError, all tasks stay cancelled.           *)
LEMMA CancelPreserves == ASSUME NEW t \in TaskSet PROVE IInv /\ Cancel(t) => IInv'
<1> SUFFICES ASSUME IInv, Cancel(t) PROVE IInv'
  OBVIOUS
<1>1. Live
  BY TurnTakes DEF Cancel
<1>2. CASE LogoutBlocks(t)
  BY <1>1, <1>2, BlocksPreserves DEF LogoutBlocks
<1>3. CASE CancelledUncaught(t) \/ CancelledCaught(t)
  <2>1. PICK place \in {"closing", "cancelled", "done"} :
          /\ Moves(t, place) /\ Stands(t)
          /\ place = "closing" => at[t] = "recv"
    <3>1. CASE CancelledUncaught(t)
      BY <3>1, OverMoves DEF Cancel, CancelledUncaught, Ends
    <3>2. CASE CancelledCaught(t)
      BY <3>2, AwaitsMoves, OverMoves DEF Cancel, CancelledCaught, Waits, Ends
    <3> QED
      BY <1>3, <3>1, <3>2
  <2>2. /\ cancelling' = cancelling \ {t}
        /\ UNCHANGED <<main, asterisk, hung, late, signal, posts>>
    BY <1>3 DEF CancelledUncaught, CancelledCaught, Raised
  <2>3. client' \in {client, "out"} /\ (t = "omm" /\ at[t] = "sleep" => client' = "out")
    BY <1>3 DEF CancelledUncaught, CancelledCaught
  <2>4. AllCancelled'
    <3>1. AllCancelled
      BY DEF IInv, CancelledTogether, Cancel
    <3>2. place = "closing" => t = "guru3"
      BY <2>1 DEF IInv, RecvIsGuru3
    <3> QED
      BY <2>1, <2>2, <3>1, <3>2 DEF AllCancelled, Finished, Moves, Ends
  <2>5. TypeOK'
    BY <2>1, <2>2, <2>3 DEF IInv, TypeOK, Moves, Stands
  <2>6. CancelledTogether' /\ OmmBeforeCollector'
    BY <2>4 DEF CancelledTogether, OmmBeforeCollector
  <2>7. Session' => at'["omm"] = "sleep"
    <3>1. Session' => Session /\ at["omm"] = "sleep" /\ t # "omm"
      BY <1>1, <2>3 DEF IInv, SessionIsOpened, Session, Live
    <3> QED
      BY <2>1, <3>1 DEF Moves, TaskSet
  <2>8. SessionIsOpened' /\ LockHolds'
    BY <2>4, <2>7 DEF SessionIsOpened, LockHolds, SessionAtHand
  <2>9. TasksAskInSession' /\ NoTaskOnClosedDatabase' /\ LoggedOutAtEnd'
    BY <1>1, <2>2 DEF IInv, TasksAskInSession, NoTaskOnClosedDatabase, LoggedOutAtEnd,
                      Live, TaskSet
  <2>10. RecvIsGuru3'
    BY <2>1 DEF IInv, RecvIsGuru3, Moves
  <2> QED
    BY <2>1, <2>5, <2>6, <2>8, <2>9, <2>10 DEF IInv, Stands
<1> QED
  BY <1>2, <1>3 DEF Cancel

(* The end of gather and of asyncio.run.                                   *)
LEMMA MainPreserves == IInv /\ Main => IInv'
<1> SUFFICES ASSUME IInv, Main PROVE IInv'
  OBVIOUS
<1>1. UNCHANGED <<at, client, hung, late, signal, posts>> /\ at' = at
  BY DEF Main
<1>2. /\ Live /\ Tail(ready) \in Seq(Queueable) /\ OncePerTask(Tail(ready))
      /\ \A x : Contains(Tail(ready), x) => Queued(x)
  BY TurnTakes DEF Main
<1>3. /\ ready' \in Seq(Queueable) /\ QueueIsFit' /\ cancelling' \subseteq TaskSet
      /\ AllCancelled'
      /\ main' \in {"ending", "ended"}
      /\ main' = "ended" => \A t \in TaskSet : Finished(t)
  <2>1. CASE \A t \in TaskSet : Finished(t)
    <3>1. main' = "ended" /\ ready' = Tail(ready) /\ cancelling' = cancelling
      BY <2>1 DEF Main
    <3> QED
      BY <1>1, <1>2, <2>1, <3>1 DEF IInv, TypeOK, QueueIsFit, Queued, Finished, AllCancelled
  <2>2. CASE ~\A t \in TaskSet : Finished(t)
    <3> DEFINE q == PostsRefused(Tail(ready))
    <3>1. main' = "ending" /\ CancelAll(q)
      BY <2>2 DEF Main
    <3>2. /\ q \in Seq(Queueable) /\ OncePerTask(q)
          /\ \A x \in TaskSet : Contains(q, x) => Queued(x)
      BY <1>2, RefusingKeeps
    <3>3. \A x \in TaskSet : Contains(q, x) => Queued(x) /\ ~Finished(x)
      BY <3>2 DEF IInv, QueueIsFit
    <3> HIDE DEF q
    <3> QED
      BY <1>1, <3>1, <3>2, <3>3, CancelAllKeeps
  <2> QED
    BY <2>1, <2>2
<1>4. TypeOK'
  BY <1>1, <1>3 DEF IInv, TypeOK, Main
<1>5. CancelledTogether' /\ OmmBeforeCollector'
  BY <1>3 DEF CancelledTogether, OmmBeforeCollector
<1>6. SessionIsOpened' /\ LockHolds' /\ RecvIsGuru3'
  BY <1>1, <1>3 DEF IInv, SessionIsOpened, LockHolds, SessionAtHand, Session, RecvIsGuru3
<1>7. TasksAskInSession' /\ NoTaskOnClosedDatabase'
  BY <1>1 DEF IInv, TasksAskInSession, NoTaskOnClosedDatabase
<1>8. LoggedOutAtEnd'
  <2>1. main' = "ended" => client \notin {"in", "mute", "stuck"}
    BY <1>2, <1>3 DEF IInv, SessionIsOpened, Session, Live, Finished, TaskSet, Ends
  <2> QED
    BY <1>1, <2>1 DEF IInv, TypeOK, LoggedOutAtEnd
<1> QED
  BY <1>3, <1>4, <1>5, <1>6, <1>7, <1>8 DEF IInv

(* SIGTERM closes the database and cancels every task in the same turn.    *)
LEMMA HandleSigtermPreserves == IInv /\ HandleSigterm => IInv'
<1> SUFFICES ASSUME IInv, HandleSigterm PROVE IInv'
  OBVIOUS
<1>1. /\ UNCHANGED <<at, main, client, hung, late, posts>> /\ at' = at
      /\ signal' = "handled" /\ asterisk' = "closed" /\ CancelAll(Tail(ready))
  BY DEF HandleSigterm
<1>2. /\ Live /\ Tail(ready) \in Seq(Queueable) /\ OncePerTask(Tail(ready))
      /\ \A x : Contains(Tail(ready), x) => Queued(x)
  BY TurnTakes DEF HandleSigterm
<1>3. /\ ready' \in Seq(Queueable) /\ QueueIsFit' /\ cancelling' \subseteq TaskSet
      /\ AllCancelled'
  <2>1. \A x \in TaskSet : Contains(Tail(ready), x) => Queued(x) /\ ~Finished(x)
    BY <1>2 DEF IInv, QueueIsFit
  <2> QED
    BY <1>1, <1>2, <2>1, CancelAllKeeps
<1>4. TypeOK'
  BY <1>1, <1>3 DEF IInv, TypeOK
<1>5. CancelledTogether' /\ OmmBeforeCollector'
  BY <1>3 DEF CancelledTogether, OmmBeforeCollector
<1>6. SessionIsOpened' /\ LockHolds' /\ RecvIsGuru3'
  BY <1>1, <1>3 DEF IInv, SessionIsOpened, LockHolds, SessionAtHand, Session, RecvIsGuru3
<1>7. TasksAskInSession' /\ NoTaskOnClosedDatabase' /\ LoggedOutAtEnd'
  BY <1>1 DEF IInv, TasksAskInSession, NoTaskOnClosedDatabase, LoggedOutAtEnd
<1> QED
  BY <1>3, <1>4, <1>5, <1>6, <1>7 DEF IInv

(* A step after which the tasks stand as before, and no task is in the     *)
(* queue that may not be.                                                  *)
LEMMA QueueStepPreserves ==
  ASSUME IInv, UNCHANGED <<at, cancelling, main, client, asterisk>>,
         ready' \in Seq(Queueable), QueueIsFit',
         \A t \in TaskSet : Queued(t)' =>
           \/ Queued(t)
           \/ /\ t = "guru3" => at[t] # "lock"
              /\ t = "events" => at["guru3"] \notin {"start", "lock"},
         \A x, y \in TaskSet : Before(ready, x, y) => Before(ready', x, y),
         hung' = hung, late' \in {late, late \cup {"post"}},
         signal' \in {signal, "pending"}, posts' \in 0 .. MaxPosts
  PROVE  IInv'
<1>1. at' = at /\ cancelling' = cancelling /\ main' = main /\ client' = client
      /\ asterisk' = asterisk
  OBVIOUS
<1>2. TypeOK'
  BY <1>1 DEF IInv, TypeOK
<1>3. (AllCancelled' <=> AllCancelled) /\ (SessionAtHand' <=> SessionAtHand)
  BY <1>1 DEF AllCancelled, SessionAtHand, Session, Finished
<1>4. CancelledTogether' /\ RecvIsGuru3'
  BY <1>1, <1>3 DEF IInv, CancelledTogether, RecvIsGuru3
<1>5. OmmBeforeCollector'
  BY <1>1, <1>3 DEF IInv, OmmBeforeCollector, TaskSet
<1>6. SessionIsOpened'
  BY <1>1, <1>3 DEF IInv, SessionIsOpened, Session
<1>7. LockHolds'
  BY <1>1, <1>3 DEF IInv, LockHolds, TaskSet
<1>8. TasksAskInSession' /\ NoTaskOnClosedDatabase' /\ LoggedOutAtEnd'
  BY <1>1 DEF IInv, TasksAskInSession, NoTaskOnClosedDatabase, LoggedOutAtEnd
<1> QED
  BY <1>2, <1>4, <1>5, <1>6, <1>7, <1>8 DEF IInv

LEMMA WakePreserves == ASSUME NEW t \in TaskSet PROVE IInv /\ Wake(t) => IInv'
<1> SUFFICES ASSUME IInv, Wake(t) PROVE IInv'
  OBVIOUS
<1>1. /\ UNCHANGED <<at, cancelling, main, client, asterisk, hung, late, signal, posts>>
      /\ ready' = Append(ready, t) /\ ~Queued(t) /\ at[t] \in Waits \ {"lock"}
      /\ t = "events" => at["guru3"] \notin {"start", "lock"}
  BY DEF Wake
<1>2. /\ ready' \in Seq(Queueable) /\ OncePerTask(ready')
      /\ \A x : Contains(ready', x) => Queued(x) \/ x = t
      /\ \A x, y : Before(ready, x, y) => Before(ready', x, y)
  BY <1>1, AppendKeeps DEF IInv, TypeOK, QueueIsFit, Queued, Queueable
<1>3. QueueIsFit'
  BY <1>1, <1>2 DEF IInv, QueueIsFit, Queued, Finished, Waits, Ends
<1>4. posts' \in 0 .. MaxPosts
  BY <1>1 DEF IInv, TypeOK
<1> QED
  BY <1>1, <1>2, <1>3, <1>4, QueueStepPreserves DEF Queued

(* A POST or the signal comes into the queue.                              *)
LEMMA ArrivalKeeps ==
  ASSUME IInv, NEW e \in Queueable \ TaskSet, ready' = Append(ready, e), at' = at
  PROVE  /\ ready' \in Seq(Queueable) /\ QueueIsFit'
         /\ \A t \in TaskSet : Queued(t)' => Queued(t)
         /\ \A x, y \in TaskSet : Before(ready, x, y) => Before(ready', x, y)
<1>1. /\ ready' \in Seq(Queueable) /\ OncePerTask(ready')
      /\ \A t \in TaskSet : Queued(t)' => Queued(t)
      /\ \A x, y \in TaskSet : Before(ready, x, y) => Before(ready', x, y)
  BY AppendKeeps DEF IInv, TypeOK, QueueIsFit, Queued
<1>2. QueueIsFit'
  BY <1>1 DEF IInv, QueueIsFit, Finished
<1> QED
  BY <1>1, <1>2

LEMMA ArrivalsPreserve == IInv /\ (PostArrives \/ SignalArrives) => IInv'
<1> SUFFICES ASSUME IInv, PostArrives \/ SignalArrives PROVE IInv'
  OBVIOUS
<1>1. /\ UNCHANGED <<at, cancelling, main, client, asterisk, hung, late>> /\ at' = at
      /\ \E e \in {"post", "sigterm"} : ready' = Append(ready, e)
      /\ signal' \in {signal, "pending"}
  BY DEF PostArrives, SignalArrives
<1>2. posts' \in 0 .. MaxPosts
  BY BoundsAssumption DEF IInv, TypeOK, PostArrives, SignalArrives
<1>3. "post" \in Queueable \ TaskSet /\ "sigterm" \in Queueable \ TaskSet
  BY DEF Queueable, TaskSet
<1> QED
  BY <1>1, <1>2, <1>3, ArrivalKeeps, QueueStepPreserves

LEMMA PostsPreserve == IInv /\ (Post \/ PostRefused) => IInv'
<1> SUFFICES ASSUME IInv, Post \/ PostRefused PROVE IInv'
  OBVIOUS
<1>1. PICK x \in {"post", "refused"} : Turn(x)
  BY DEF Post, PostRefused
<1>2. CASE AskingBlocks("post")
  BY <1>1, <1>2, TurnTakes, BlocksPreserves DEF AskingBlocks
<1>3. CASE ~AskingBlocks("post")
  <2>1. /\ UNCHANGED <<at, cancelling, main, client, asterisk, hung, signal, posts>>
        /\ at' = at /\ hung' = hung /\ ready' = Tail(ready)
        /\ late' \in {late, late \cup {"post"}}
    BY <1>3 DEF Post, PostRefused, OnlyLoop, UsesStores, UsesDatabase
  <2>2. /\ ready' \in Seq(Queueable) /\ OncePerTask(ready')
        /\ \A t \in TaskSet : Queued(t)' => Queued(t)
        /\ \A u, v \in TaskSet : Before(ready, u, v) => Before(ready', u, v)
    BY <1>1, <2>1, TurnTakes DEF Queued, TaskSet
  <2>3. QueueIsFit'
    BY <2>1, <2>2 DEF IInv, QueueIsFit, Finished
  <2>4. posts' \in 0 .. MaxPosts
    BY <2>1 DEF IInv, TypeOK
  <2> QED
    BY <2>1, <2>2, <2>3, <2>4, QueueStepPreserves
<1> QED
  BY <1>2, <1>3

(* A session that breaks is still the session that was begun.              *)
LEMMA BreaksPreserves == IInv /\ Breaks => IInv'
<1> SUFFICES ASSUME IInv, Breaks PROVE IInv'
  OBVIOUS
<1>1. /\ client \in {"in", "mute"} /\ client' \in {"mute", "stuck"} /\ Live
      /\ at' = at /\ ready' = ready /\ cancelling' = cancelling /\ main' = main
      /\ asterisk' = asterisk /\ late' = late /\ signal' = signal /\ posts' = posts
      /\ hung' = hung
  BY DEF Breaks
<1>2. TypeOK'
  BY <1>1 DEF IInv, TypeOK
<1>3. QueueIsFit' /\ RecvIsGuru3'
  BY <1>1 DEF IInv, QueueIsFit, RecvIsGuru3, Queued, Finished
<1>4. (AllCancelled' <=> AllCancelled) /\ SessionAtHand' /\ Session
  BY <1>1 DEF AllCancelled, SessionAtHand, Session, Finished
<1>5. CancelledTogether' /\ OmmBeforeCollector'
  BY <1>1, <1>4 DEF IInv, CancelledTogether, OmmBeforeCollector
<1>6. SessionIsOpened' /\ LockHolds'
  BY <1>1, <1>4 DEF IInv, SessionIsOpened, LockHolds
<1>7. TasksAskInSession' /\ NoTaskOnClosedDatabase' /\ LoggedOutAtEnd'
  BY <1>1 DEF IInv, TasksAskInSession, NoTaskOnClosedDatabase, LoggedOutAtEnd, Live
<1> QED
  BY <1>2, <1>3, <1>5, <1>6, <1>7 DEF IInv
------------------------------------------------------------------------------
(* The theorems.                                                           *)

LEMMA NextPreserves == IInv /\ [Next]_vars => IInv'
<1>1. IInv /\ UNCHANGED vars => IInv'
  BY DEF vars, IInv, TypeOK, QueueIsFit, RecvIsGuru3, CancelledTogether, AllCancelled,
         OmmBeforeCollector, SessionIsOpened, SessionAtHand, Session, LockHolds, TasksAskInSession,
         NoTaskOnClosedDatabase, LoggedOutAtEnd, Queued, Finished
<1> QED
  BY <1>1, WebPreserves, Guru3Preserves, EventsPreserves, CollectPreserves, OmmPreserves,
     CancelPreserves, MainPreserves, HandleSigtermPreserves, WakePreserves,
     ArrivalsPreserve, PostsPreserve, BreaksPreserves DEF Next, Run

LEMMA Invariance == Spec => []IInv
BY InitEstablishes, NextPreserves, PTL DEF Spec

(* The queue of the loop, the tasks and the session keep their types.      *)
THEOREM TypeCorrect == Spec => []TypeOK
<1>1. IInv => TypeOK
  BY DEF IInv
<1> QED
  BY <1>1, Invariance, PTL

(* Unless the login failed, a task of run_tasks blocks the loop only in a  *)
(* session that was begun, is not over, and broke: the collector comes     *)
(* after the OMM task in the queue, events after the lock of Guru3Mgr.run, *)
(* and the logout of the OMM task after the cancellation of all.           *)
THEOREM TasksAskOnlyInSession == Spec => []TasksAskInSession
<1>1. IInv => TasksAskInSession
  BY DEF IInv
<1> QED
  BY <1>1, Invariance, PTL

(* handle_sigterm closes the database and cancels the tasks in one turn,   *)
(* and none of them runs a statement after that.                           *)
THEOREM TasksSpareTheClosedDatabase == Spec => []NoTaskOnClosedDatabase
<1>1. IInv => NoTaskOnClosedDatabase
  BY DEF IInv
<1> QED
  BY <1>1, Invariance, PTL

(* asyncio.run returns only after the OMM task is over, and its finally    *)
(* has logged out.                                                         *)
THEOREM NoSessionIsLeft == Spec => []LoggedOutAtEnd
<1>1. IInv => LoggedOutAtEnd
  BY DEF IInv
<1> QED
  BY <1>1, Invariance, PTL
==============================================================================
