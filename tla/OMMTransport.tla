---------------------------- MODULE OMMTransport ----------------------------
(***************************************************************************)
(* The request path of OMMClient.py: callers put a request into _send_q    *)
(* and wait for an entry of _events; the worker thread moves bytes between *)
(* the queues and the TLS socket; the dispatcher thread parses what was    *)
(* read and sets the Event of the entry it is named for.                   *)
(*                                                                         *)
(* hexidian itself has one calling thread.  The client takes care of many  *)
(* (_sequencelock, _eventlock), so the number of callers is a parameter.   *)
(* The dispatcher is a caller too: the first EventDECTSubscriptionMode     *)
(* makes it subscribe (__getattr__).                                       *)
(*                                                                         *)
(* A read may return what is not exactly one message, part of one or more  *)
(* than one, unless WholeReads: it ends the dispatcher, which parses it,   *)
(* or the worker, which decodes it, so the rest of the part comes too late *)
(* to matter.  A send that times out ends the worker too.                  *)
(*                                                                         *)
(* External, modelled from how the code uses it: the OMM answers a request *)
(* under its name and with its seq, in any order, until the connection     *)
(* closes.                                                                 *)
(* Login and logout are in module Lifecycle: here the client is logged in. *)
(***************************************************************************)
EXTENDS Naturals, Sequences

CONSTANTS
  Callers,      \* the threads that call the client's methods
  Dispatcher,   \* the dispatcher thread
  None,         \* no entry
  Sequenced,    \* requests with a seq attribute (GetPPUser, SetPP, ...)
  Plain,        \* by caller, requests without one (Ping, GetVersions, ...)
  WholeReads,   \* every read returns one message
  MayClose,     \* the OMM may close the connection
  MaxRequests,  \* bound: requests, the last one left to the dispatcher
  MaxNotices    \* bound: events the OMM sends without being asked

Threads == Callers \cup {Dispatcher}
PlainNames == UNION {Plain[c] : c \in Callers}
Names == Sequenced \cup PlainNames \cup {"Subscribe"}

ASSUME ThreadsAssumption == Dispatcher \notin Callers
(* Two threads never make the same request without a seq: the second would *)
(* be refused as long as the first one waits.                              *)
ASSUME NamesAssumption ==
  /\ Sequenced \cap PlainNames = {}
  /\ \A c1, c2 \in Callers : c1 # c2 => Plain[c1] \cap Plain[c2] = {}
  /\ {"Subscribe", "EventDECTSubscriptionMode"} \cap (Sequenced \cup PlainNames) = {}
ASSUME NoneAssumption == None \notin [event : Nat, response : Nat]
ASSUME BoundsAssumption == MaxRequests \in Nat /\ MaxNotices \in Nat

VARIABLES
  requests,    \* how many requests were made; numbers them
  sequence,    \* _sequence
  pc,          \* where a thread is in _sendrequest and _awaitresponse
  request,     \* the request of the call it is in: number and response name
  waitsOn,     \* the Event it waits for, named by the request it is for
  sendq,       \* _send_q
  omm,         \* the requests at the OMM
  executed,    \* history: the requests the OMM executed, in order
  stream,      \* answers and events on the socket
  recvq,       \* _recv_q: what one read returned
  entry,       \* _events: by response name, the Event and the response
  flags,       \* the Events that are set
  answer,      \* history: the request whose answer a call got
  dropped,     \* history: the requests whose answer nobody was waiting for
  worker,      \* "runs" or "dead"
  dispatcher,  \* "runs", "subscribes" or "dead"
  connection,  \* "open" or "closed"
  notices      \* counter of the bound

callVars == <<requests, sequence, request, sendq>>
threadVars == <<pc, waitsOn, answer>>
wireVars == <<omm, executed, stream, connection, notices>>
tableVars == <<entry, flags, dropped>>
vars == <<callVars, threadVars, wireVars, recvq, tableVars, worker, dispatcher>>

Ids == 1 .. MaxRequests
Keys == Names \X (0 .. MaxRequests)
Requests == [id : Ids, key : Keys]
NoticeKey == <<"EventDECTSubscriptionMode", 0>>
Messages == [to : 0 .. MaxRequests, key : Keys \cup {NoticeKey}]
Reads == [whole : {"yes", "no"}, messages : Seq(Messages)]

TypeOK ==
  /\ requests \in 0 .. MaxRequests
  /\ sequence \in 0 .. requests
  /\ pc \in [Threads -> {"idle", "check", "register", "lookup", "wait", "pop", "raised"}]
  /\ request \in [Threads -> Requests \cup {None}]
  /\ waitsOn \in [Threads -> 0 .. MaxRequests]
  /\ sendq \in Seq(Requests)
  /\ omm \subseteq Requests
  /\ executed \in Seq(1 .. requests)
  /\ stream \in Seq(Messages)
  /\ recvq \in Seq(Reads)
  /\ entry \in [Keys -> [event : Ids, response : 0 .. MaxRequests] \cup {None}]
  /\ flags \subseteq Ids
  /\ answer \in [Threads -> 0 .. MaxRequests]
  /\ dropped \subseteq 1 .. requests
  /\ worker \in {"runs", "dead"}
  /\ dispatcher \in {"runs", "subscribes", "dead"}
  /\ connection \in {"open", "closed"}
  /\ notices \in 0 .. MaxNotices

Init ==
  /\ requests = 0 /\ sequence = 0 /\ notices = 0
  /\ pc = [t \in Threads |-> "idle"]
  /\ request = [t \in Threads |-> None]
  /\ waitsOn = [t \in Threads |-> 0]
  /\ answer = [t \in Threads |-> 0]
  /\ sendq = <<>> /\ stream = <<>> /\ recvq = <<>> /\ executed = <<>>
  /\ omm = {} /\ flags = {} /\ dropped = {}
  /\ entry = [k \in Keys |-> None]
  /\ worker = "runs" /\ dispatcher = "runs" /\ connection = "open"
------------------------------------------------------------------------------
(* A thread in _sendrequest and _awaitresponse.                            *)

Goto(t, from, to) == pc[t] = from /\ pc' = [pc EXCEPT ![t] = to]

(* Mutant: _get_sequence hands out the same number again.                  *)
NextSequence_Constant == 1

(* Mutant: _sequence is incremented twice.                                 *)
NextSequence_Twice == sequence + 2

NextSequence == sequence + 1

(* The request is queued before its response is waited for.                *)
SendRequest(t, name) ==
  LET seq == IF name \in Sequenced THEN NextSequence ELSE 0
  IN /\ requests < MaxRequests
     /\ Goto(t, "idle", "check")
     /\ requests' = requests + 1
     /\ sequence' = IF name \in Sequenced THEN seq ELSE sequence
     /\ request' = [request EXCEPT ![t] = [id |-> requests + 1, key |-> <<name, seq>>]]
     /\ sendq' = Append(sendq, request'[t])

Call(c) ==
  /\ requests + 1 < MaxRequests
  /\ \E name \in Sequenced \cup Plain[c] : SendRequest(c, name)
  /\ UNCHANGED <<waitsOn, answer, wireVars, recvq, tableVars, worker, dispatcher>>

Entry(t) == entry[request[t].key]
InTable == UNCHANGED <<callVars, wireVars, recvq, dropped, worker>>

(* An exception ends the thread's call, and the dispatcher itself.         *)
Fails(t, from) ==
  /\ Goto(t, from, "raised")
  /\ dispatcher' = IF t = Dispatcher THEN "dead" ELSE dispatcher

(* "Already waiting for": looked at outside of the lock.                   *)
Check(t) ==
  /\ IF Entry(t) = None
       THEN Goto(t, "check", "register") /\ UNCHANGED dispatcher
       ELSE Fails(t, "check")
  /\ UNCHANGED <<entry, flags, waitsOn, answer>>
  /\ InTable

Register(t) ==
  /\ Goto(t, "register", "lookup")
  /\ entry' = [entry EXCEPT ![request[t].key] =
                 [event |-> request[t].id, response |-> 0]]
  /\ UNCHANGED <<flags, waitsOn, answer, dispatcher>>
  /\ InTable

(* self._events[message]["event"], read again after the lock is released.  *)
Lookup(t) ==
  /\ IF Entry(t) # None
       THEN /\ Goto(t, "lookup", "wait")
            /\ waitsOn' = [waitsOn EXCEPT ![t] = Entry(t).event]
            /\ UNCHANGED dispatcher
       ELSE Fails(t, "lookup") /\ UNCHANGED waitsOn
  /\ UNCHANGED <<entry, flags, answer>>
  /\ InTable

(* Event.wait returns and the response is read from the table.             *)
Wake(t) ==
  /\ waitsOn[t] \in flags
  /\ IF Entry(t) # None /\ Entry(t).response # 0
       THEN /\ Goto(t, "wait", "pop")
            /\ answer' = [answer EXCEPT ![t] = Entry(t).response]
            /\ UNCHANGED dispatcher
       ELSE Fails(t, "wait") /\ UNCHANGED answer
  /\ UNCHANGED <<entry, flags, waitsOn>>
  /\ InTable

(* The variables of the call are gone.                                     *)
Returned(t) ==
  /\ request' = [request EXCEPT ![t] = None]
  /\ waitsOn' = [waitsOn EXCEPT ![t] = 0]
  /\ answer' = [answer EXCEPT ![t] = 0]

Pop(t) ==
  /\ IF Entry(t) # None
       THEN /\ Goto(t, "pop", "idle")
            /\ dispatcher' = IF t = Dispatcher THEN "runs" ELSE dispatcher
            /\ Returned(t)
       ELSE Fails(t, "pop") /\ UNCHANGED <<request, waitsOn, answer>>
  /\ entry' = [entry EXCEPT ![request[t].key] = None]
  /\ UNCHANGED <<requests, sequence, sendq, wireVars, recvq, flags, dropped, worker>>

Step(t) ==
  /\ request[t] # None
  /\ Check(t) \/ Register(t) \/ Lookup(t) \/ Wake(t) \/ Pop(t)
------------------------------------------------------------------------------
(* The OMM and the connection.                                             *)

Message(to, key) == [to |-> to, key |-> key]

Execute(r) ==
  /\ connection = "open"
  /\ r \in omm
  /\ omm' = omm \ {r}
  /\ executed' = Append(executed, r.id)
  /\ stream' = Append(stream, Message(r.id, r.key))
  /\ UNCHANGED <<callVars, threadVars, connection, notices, recvq, tableVars,
                 worker, dispatcher>>

Notice ==
  /\ connection = "open"
  /\ notices < MaxNotices
  /\ notices' = notices + 1
  /\ stream' = Append(stream, Message(0, NoticeKey))
  /\ UNCHANGED <<callVars, threadVars, omm, executed, connection, recvq, tableVars,
                 worker, dispatcher>>

Close ==
  /\ MayClose
  /\ connection = "open"
  /\ connection' = "closed"
  /\ UNCHANGED <<callVars, threadVars, omm, executed, stream, notices, recvq,
                 tableVars, worker, dispatcher>>
------------------------------------------------------------------------------
(* The worker thread.                                                      *)

(* Mutant: the item is sent, but stays in the queue.                       *)
WorkerSend_Peeks ==
  /\ worker = "runs"
  /\ sendq # <<>>
  /\ connection = "open"
  /\ omm' = omm \cup {Head(sendq)}
  /\ UNCHANGED <<callVars, threadVars, executed, stream, connection, notices, recvq,
                 tableVars, worker, dispatcher>>

(* A send under the 0.1 s timeout of the last recv may raise, and ends the *)
(* thread with the request in its hand; on a closed connection it raises   *)
(* or goes nowhere.                                                        *)
WorkerSend ==
  /\ worker = "runs"
  /\ sendq # <<>>
  /\ sendq' = Tail(sendq)
  /\ \/ connection = "open" /\ omm' = omm \cup {Head(sendq)} /\ UNCHANGED worker
     \/ connection = "closed" /\ UNCHANGED <<omm, worker>>
     \/ worker' = "dead" /\ UNCHANGED omm
  /\ UNCHANGED <<requests, sequence, request, threadVars, executed, stream, connection,
                 notices, recvq, tableVars, dispatcher>>

(* Mutant: one slot in place of a queue.                                   *)
WorkerReceive_Overwrites ==
  /\ worker = "runs"
  /\ stream # <<>>
  /\ recvq' = <<[whole |-> "yes", messages |-> <<Head(stream)>>]>>
  /\ stream' = Tail(stream)
  /\ UNCHANGED <<callVars, threadVars, omm, executed, connection, notices, tableVars,
                 worker, dispatcher>>

(* Whatever one recv returns is one item.  Of a closed connection it       *)
(* returns nothing, and the loop goes on.                                  *)
WorkerReceive ==
  /\ worker = "runs"
  /\ \E n \in 1 .. Len(stream), whole \in {"yes", "no"} :
       /\ IF whole = "yes" THEN n = 1 ELSE ~WholeReads
       /\ recvq' = Append(recvq, [whole |-> whole, messages |-> SubSeq(stream, 1, n)])
       /\ stream' = SubSeq(stream, n + 1, Len(stream))
  /\ UNCHANGED <<callVars, threadVars, omm, executed, connection, notices, tableVars,
                 worker, dispatcher>>

(* What was read is decoded outside of the try: a read that ends within a  *)
(* character of several bytes ends the thread, and with it what it read.   *)
WorkerCannotDecode ==
  /\ worker = "runs"
  /\ ~WholeReads
  /\ \E n \in 1 .. Len(stream) : stream' = SubSeq(stream, n + 1, Len(stream))
  /\ worker' = "dead"
  /\ UNCHANGED <<callVars, threadVars, omm, executed, connection, notices, recvq,
                 tableVars, dispatcher>>

(* Only a timeout of recv is caught, not the reset of the connection.      *)
WorkerIsReset ==
  /\ worker = "runs"
  /\ connection = "closed"
  /\ worker' = "dead"
  /\ UNCHANGED <<callVars, threadVars, wireVars, recvq, tableVars, dispatcher>>

WorkerDies == WorkerCannotDecode \/ WorkerIsReset
------------------------------------------------------------------------------
(* The dispatcher thread.                                                  *)

(* _recv_q.get: parse_message takes one message, no more and no less.      *)
WholeMessage == Head(recvq).whole = "yes"
Item == Head(recvq).messages[1]

TakeItem ==
  /\ dispatcher = "runs"
  /\ recvq # <<>>
  /\ recvq' = Tail(recvq)

DispatchGarbage ==
  /\ TakeItem
  /\ ~WholeMessage
  /\ dispatcher' = "dead"
  /\ UNCHANGED <<callVars, threadVars, wireVars, tableVars, worker>>

TakeResponse ==
  /\ TakeItem
  /\ WholeMessage
  /\ Item.key # NoticeKey
  /\ UNCHANGED <<callVars, threadVars, wireVars, worker, dispatcher>>

(* Mutant: the response is stored, but its Event is not set.               *)
Respond_NoSet(key, id) ==
  /\ entry[key] # None
  /\ entry' = [entry EXCEPT ![key].response = id]
  /\ UNCHANGED <<flags, dropped>>

(* Mutant: any waiting caller will do.                                     *)
Respond_First(key, id) ==
  /\ \E k \in Keys :
       /\ entry[k] # None
       /\ entry' = [entry EXCEPT ![k].response = id]
       /\ flags' = flags \cup {entry[k].event}
  /\ UNCHANGED dropped

Respond(key, id) ==
  /\ entry[key] # None
  /\ entry' = [entry EXCEPT ![key].response = id]
  /\ flags' = flags \cup {entry[key].event}
  /\ UNCHANGED dropped

Drop(key, id) ==
  /\ entry[key] = None
  /\ dropped' = dropped \cup {id}
  /\ UNCHANGED <<entry, flags>>

(* A response goes to the entry of its name; without one it is dropped.    *)
DispatchResponse ==
  /\ TakeResponse
  /\ Respond(Item.key, Item.to) \/ Drop(Item.key, Item.to)

(* The first look at on_DECTSubscriptionMode subscribes to the event, in   *)
(* the thread that would have to dispatch the answer.                      *)
DispatchNotice ==
  /\ TakeItem
  /\ WholeMessage
  /\ Item.key = NoticeKey
  /\ SendRequest(Dispatcher, "Subscribe")
  /\ dispatcher' = "subscribes"
  /\ UNCHANGED <<waitsOn, answer, wireVars, tableVars, worker>>

Dispatch == DispatchGarbage \/ DispatchResponse \/ DispatchNotice
------------------------------------------------------------------------------
Next ==
  \/ \E c \in Callers : Call(c)
  \/ \E t \in Threads : Step(t)
  \/ \E r \in omm : Execute(r)
  \/ Notice \/ Close \/ WorkerSend \/ WorkerReceive \/ WorkerDies \/ Dispatch

Spec == Init /\ [][Next]_vars

(* Threads run, and the OMM answers while the connection is open.          *)
FairSpec ==
  /\ Spec
  /\ \A t \in Threads : WF_vars(Step(t))
  /\ WF_vars(\E r \in omm : Execute(r))
  /\ WF_vars(WorkerSend)
  /\ WF_vars(WorkerReceive)
  /\ WF_vars(Dispatch)
------------------------------------------------------------------------------
(* Properties.                                                             *)

(* A caller gets the answer to its own request, whatever other callers,    *)
(* late answers and answers in another order do to the table.              *)
AnswersAreOwn ==
  \A t \in Threads : pc[t] = "pop" => answer[t] = request[t].id

(* No call raises: neither "Already waiting" nor a KeyError in the table.  *)
NoCallRaises == \A t \in Threads : pc[t] # "raised"

InItems(items, i) == \E j \in 1 .. Len(items) : items[j].to = i
OnTheWay(i) ==
  \/ \E j \in 1 .. Len(sendq) : sendq[j].id = i
  \/ \E r \in omm : r.id = i
  \/ InItems(stream, i)
  \/ \E j \in 1 .. Len(recvq) : InItems(recvq[j].messages, i)

(* The client loses no answer by itself but in the one window the code     *)
(* leaves: a request that is waited for is under way in one of the queues, *)
(* answered in the table, or its answer came before the caller registered. *)
(* (Only a dead thread, an unparsable read or a closed connection end it.) *)
Accounted ==
  dispatcher # "dead" /\ worker = "runs" /\ connection = "open" =>
    \A t \in Threads : pc[t] \in {"check", "register", "lookup", "wait"} =>
      LET i == request[t].id
      IN OnTheWay(i) \/ i \in dropped \/ i \in flags

(* A call is a remote call: the OMM executes a request once, and the call  *)
(* returns only after its own request was executed.                        *)
Remote == INSTANCE RemoteCalls
            WITH Callers <- Threads,
                 MaxRequests <- MaxRequests,
                 calls <- requests,
                 call <- [t \in Threads |->
                            IF pc[t] = "idle" THEN 0 ELSE request[t].id],
                 executed <- executed
ImplementsRemoteCalls == Remote!Spec

(* A call returns, or one of five things keeps it: its answer overtook the *)
(* registration, the worker died of a send or of what it read, the         *)
(* dispatcher died of a read that was no whole message, the dispatcher     *)
(* itself waits for an answer, or the connection is closed.                *)
CallsReturnOrHangForACause ==
  \A c \in Callers :
    pc[c] # "idle" ~>
      \/ pc[c] \in {"idle", "raised"}
      \/ request[c].id \in dropped
      \/ worker = "dead"
      \/ dispatcher \in {"dead", "subscribes"}
      \/ connection = "closed"
==============================================================================
