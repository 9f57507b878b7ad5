------------------------- MODULE OMMTransportProofs -------------------------
(***************************************************************************)
(* Proofs about OMMTransport, for every number of callers, requests and    *)
(* events of the OMM, and every choice of names.                           *)
(*                                                                         *)
(* The invariant follows a request: until its Event is set it is in at     *)
(* most one place on its way, and the thread that made it still waits for  *)
(* it; from then on it is nowhere.  So what arrives under a name is the    *)
(* answer to the one request of that name a thread is in.                  *)
(*                                                                         *)
(* That it does arrive is a second invariant: while the threads of the     *)
(* client live and whole messages are read, a request that is not answered *)
(* is in one of those places, or its answer came too early.                *)
(***************************************************************************)
EXTENDS OMMTransport, SequenceTheorems, TLAPS

InLog(i) == \E j \in 1 .. Len(executed) : executed[j] = i

OwnNames(t) ==
  Sequenced \cup (IF t = Dispatcher THEN {"Subscribe"} ELSE Plain[t])

InCall(t) == pc[t] # "idle"
Registered(t) == pc[t] \in {"lookup", "wait", "pop"}

(* The request of a call has a name of its thread, and a seq that was      *)
(* handed out.                                                             *)
RequestsMade ==
  \A t \in Threads : InCall(t) =>
    /\ request[t] \in Requests
    /\ request[t].id <= requests
    /\ request[t].key[1] \in OwnNames(t)
    /\ IF request[t].key[1] \in Sequenced
         THEN request[t].key[2] \in 1 .. sequence
         ELSE request[t].key[2] = 0

(* No two threads wait under one name.                                     *)
OwnRequests ==
  \A t1, t2 \in Threads : t1 # t2 /\ InCall(t1) /\ InCall(t2) =>
    request[t1].id # request[t2].id /\ request[t1].key # request[t2].key

(* The table holds the entries of the registered calls and no others; an   *)
(* entry has a response when its Event is set, and then its own.           *)
TableOfCalls ==
  /\ \A t \in Threads : Registered(t) =>
       entry[request[t].key] =
         [event |-> request[t].id,
          response |-> IF request[t].id \in flags THEN request[t].id ELSE 0]
  /\ \A k \in Keys : entry[k] # None =>
       \E t \in Threads : Registered(t) /\ request[t].key = k

Places ==
  \A t \in Threads :
    /\ pc[t] # "raised"
    /\ pc[t] \in {"check", "register"} => request[t].id \notin flags
    /\ pc[t] = "wait" => waitsOn[t] = request[t].id
    /\ pc[t] = "pop" => request[t].id \in flags /\ answer[t] = request[t].id

FlagsOfExecuted == \A i \in flags : i <= requests /\ InLog(i)

Calls == RequestsMade /\ OwnRequests /\ TableOfCalls /\ Places /\ FlagsOfExecuted

(* A thread waits for the message, and has not got it yet.                 *)
Awaited(i, k) ==
  /\ i \notin flags
  /\ \E t \in Threads : InCall(t) /\ request[t].id = i /\ request[t].key = k

Unsent ==
  /\ \A j \in 1 .. Len(sendq) : Awaited(sendq[j].id, sendq[j].key) /\ ~InLog(sendq[j].id)
  /\ \A j1, j2 \in 1 .. Len(sendq) : sendq[j1].id = sendq[j2].id => j1 = j2
  /\ \A j \in 1 .. Len(sendq), r \in omm : sendq[j].id # r.id

AtOmm ==
  /\ \A r \in omm : Awaited(r.id, r.key) /\ ~InLog(r.id)
  /\ \A r1, r2 \in omm : r1.id = r2.id => r1 = r2

IsAnswer(m) == m.key # NoticeKey
OnSocket(j) == j \in 1 .. Len(stream) /\ IsAnswer(stream[j])

Answered ==
  /\ \A j \in 1 .. Len(stream) : OnSocket(j) =>
       Awaited(stream[j].to, stream[j].key) /\ InLog(stream[j].to)
  /\ \A j1, j2 \in 1 .. Len(stream) :
       OnSocket(j1) /\ OnSocket(j2) /\ stream[j1].to = stream[j2].to => j1 = j2

(* The dispatcher survives only reads of one message.                      *)
WasRead(j) ==
  j \in 1 .. Len(recvq) /\ recvq[j].whole = "yes" /\ IsAnswer(recvq[j].messages[1])
ReadAt(j) == recvq[j].messages[1]

Received ==
  /\ \A j \in 1 .. Len(recvq) : WasRead(j) =>
       Awaited(ReadAt(j).to, ReadAt(j).key) /\ InLog(ReadAt(j).to)
  /\ \A j1, j2 \in 1 .. Len(recvq) :
       WasRead(j1) /\ WasRead(j2) /\ ReadAt(j1).to = ReadAt(j2).to => j1 = j2
  /\ \A j1 \in 1 .. Len(stream), j2 \in 1 .. Len(recvq) :
       OnSocket(j1) /\ WasRead(j2) => stream[j1].to # ReadAt(j2).to

Wire == Unsent /\ AtOmm /\ Answered /\ Received

IInv == TypeOK /\ Calls /\ Wire
------------------------------------------------------------------------------
LEMMA InitEstablishes == Init => IInv
<1> SUFFICES ASSUME Init PROVE IInv
  OBVIOUS
<1>1. TypeOK
  BY BoundsAssumption, EmptySeq
     DEF Init, TypeOK, Requests, Reads, Messages
<1>2. Calls
  BY DEF Init, Calls, RequestsMade, OwnRequests, TableOfCalls, Places, FlagsOfExecuted,
         InCall, Registered
<1>3. Wire
  BY DEF Init, Wire, Unsent, AtOmm, Answered, Received
<1> QED
  BY <1>1, <1>2, <1>3 DEF IInv

(* What is on its way stays there as long as its calls do.                 *)
LEMMA RequestsStay ==
  ASSUME Wire, UNCHANGED <<sendq, omm, executed>>,
         \A i, k : Awaited(i, k) => Awaited(i, k)'
  PROVE  Unsent' /\ AtOmm'
BY DEF Wire, Unsent, AtOmm, InLog

LEMMA AnswersStay ==
  ASSUME Wire, UNCHANGED <<executed, stream, recvq>>,
         \A i, k : Awaited(i, k) => Awaited(i, k)'
  PROVE  Answered' /\ Received'
BY DEF Wire, Answered, Received, OnSocket, WasRead, ReadAt, IsAnswer, InLog, NoticeKey

LEMMA WireStays ==
  ASSUME Wire, UNCHANGED <<sendq, omm, executed, stream, recvq>>,
         \A i, k : Awaited(i, k) => Awaited(i, k)'
  PROVE  Wire'
BY RequestsStay, AnswersStay DEF Wire

(* A step of a thread within its call: all calls go on.                    *)
LEMMA CallGoesOn ==
  ASSUME IInv, NEW t \in Threads, InCall(t), InCall(t)', pc' = [pc EXCEPT ![t] = pc'[t]],
         UNCHANGED <<request, flags, sendq, omm, executed, stream, recvq>>
  PROVE  Wire'
<1>1. \A i, k : Awaited(i, k) => Awaited(i, k)'
  BY DEF Awaited, InCall, IInv, TypeOK
<1> QED
  BY <1>1, WireStays DEF IInv

LEMMA CheckPreserves ==
  ASSUME IInv, NEW t \in Threads, Check(t)
  PROVE  IInv'
<1> USE DEF InTable, callVars, wireVars
<1>1. /\ pc[t] = "check" /\ request[t].key \in Keys
      /\ pc[t] \notin {"idle", "lookup", "wait", "pop"}
  BY DEF Check, Goto, Fails, IInv, Calls, RequestsMade, InCall, Requests
<1>2. Entry(t) = None
  BY <1>1 DEF Entry, IInv, Calls, TableOfCalls, OwnRequests, Registered, InCall
<1>3. Goto(t, "check", "register") /\ UNCHANGED dispatcher
  BY <1>2 DEF Check
<1>4. TypeOK'
  BY <1>3 DEF IInv, TypeOK, Goto, Check
<1>5. \A u \in Threads : /\ InCall(u)' <=> InCall(u)
                         /\ Registered(u)' <=> Registered(u)
                         /\ u # t => pc'[u] = pc[u]
  BY <1>1, <1>3 DEF IInv, TypeOK, Goto, InCall, Registered
<1>6. RequestsMade' /\ OwnRequests'
  BY <1>5 DEF IInv, Check, Calls, RequestsMade, OwnRequests
<1>7. TableOfCalls'
  BY <1>5 DEF IInv, Check, Calls, TableOfCalls
<1>8. Places'
  BY <1>1, <1>3, <1>5 DEF IInv, TypeOK, Goto, Check, Calls, Places
<1>9. FlagsOfExecuted'
  BY DEF IInv, Check, Calls, FlagsOfExecuted, InLog
<1>10. Wire'
  BY <1>1, <1>3, <1>5, CallGoesOn DEF Check, Goto, InCall
<1> QED
  BY <1>4, <1>6, <1>7, <1>8, <1>9, <1>10 DEF IInv, Calls

LEMMA RegisterPreserves ==
  ASSUME IInv, NEW t \in Threads, Register(t)
  PROVE  IInv'
<1> USE DEF InTable, callVars, wireVars
<1>1. /\ pc[t] = "register" /\ request[t] \in Requests
      /\ request[t].id \notin flags
  BY DEF Register, Goto, IInv, Calls, RequestsMade, Places, InCall
<1>2. /\ request[t].key \in Keys /\ request[t].id \in Ids
      /\ entry' = [entry EXCEPT ![request[t].key] = [event |-> request[t].id, response |-> 0]]
  BY <1>1 DEF Register, Requests
<1>3. TypeOK'
  BY <1>1, <1>2, BoundsAssumption DEF IInv, TypeOK, Goto, Register
<1>4. \A u \in Threads : /\ InCall(u)' <=> InCall(u)
                         /\ Registered(u)' <=> Registered(u) \/ u = t
                         /\ u # t => pc'[u] = pc[u]
  BY <1>1 DEF IInv, TypeOK, Register, Goto, InCall, Registered
<1>5. RequestsMade' /\ OwnRequests'
  BY <1>4 DEF IInv, Register, Calls, RequestsMade, OwnRequests
<1>6. TableOfCalls'
  <2>1. ASSUME NEW u \in Threads, Registered(u)'
        PROVE  entry'[request[u].key] =
                 [event |-> request[u].id,
                  response |-> IF request[u].id \in flags THEN request[u].id ELSE 0]
    <3>1. CASE u = t
      BY <1>1, <1>2, <3>1 DEF IInv, TypeOK
    <3>2. CASE u # t
      <4>1. Registered(u) /\ InCall(u) /\ InCall(t)
        BY <1>1, <1>4, <2>1, <3>2 DEF Registered, InCall
      <4>2. request[u].key # request[t].key /\ request[u].key \in Keys
        BY <3>2, <4>1 DEF IInv, Calls, OwnRequests, RequestsMade, Requests
      <4> QED
        BY <1>2, <4>1, <4>2 DEF IInv, TypeOK, Calls, TableOfCalls
    <3> QED
      BY <3>1, <3>2
  <2>2. ASSUME NEW k \in Keys, entry'[k] # None
        PROVE  \E u \in Threads : Registered(u)' /\ request[u].key = k
    BY <1>2, <1>4, <2>2 DEF IInv, TypeOK, Calls, TableOfCalls
  <2> QED
    BY <2>1, <2>2 DEF TableOfCalls, Register, Keys
<1>7. Places'
  BY <1>1, <1>4 DEF IInv, TypeOK, Goto, Register, Calls, Places
<1>8. FlagsOfExecuted'
  BY DEF IInv, Register, Calls, FlagsOfExecuted, InLog
<1>9. Wire'
  BY <1>1, <1>4, CallGoesOn DEF Register, Goto, InCall
<1> QED
  BY <1>3, <1>5, <1>6, <1>7, <1>8, <1>9 DEF IInv, Calls

(* A registered call finds its entry.                                      *)
LEMMA EntryOfCall ==
  ASSUME IInv, NEW t \in Threads, Registered(t)
  PROVE  /\ InCall(t) /\ request[t] \in Requests /\ request[t].key \in Keys
         /\ request[t].id \in Ids
         /\ Entry(t) # None
         /\ Entry(t).event = request[t].id
         /\ Entry(t).response = IF request[t].id \in flags THEN request[t].id ELSE 0
<1>1. InCall(t) /\ request[t] \in Requests
  BY DEF Registered, InCall, IInv, Calls, RequestsMade
<1>2. request[t].key \in Keys /\ request[t].id \in Ids
  BY <1>1 DEF Requests
<1>3. Entry(t) = [event |-> request[t].id,
                  response |-> IF request[t].id \in flags THEN request[t].id ELSE 0]
  BY DEF Entry, IInv, Calls, TableOfCalls
<1>4. Entry(t) \in [event : Nat, response : Nat]
  BY <1>2, <1>3, BoundsAssumption DEF Ids
<1> QED
  BY <1>1, <1>2, <1>3, <1>4, NoneAssumption

LEMMA LookupPreserves ==
  ASSUME IInv, NEW t \in Threads, Lookup(t)
  PROVE  IInv'
<1> USE DEF InTable, callVars, wireVars
<1>1. pc[t] = "lookup" /\ Registered(t)
  BY DEF Lookup, Goto, Fails, Registered
<1>2. /\ Goto(t, "lookup", "wait") /\ UNCHANGED dispatcher
      /\ waitsOn' = [waitsOn EXCEPT ![t] = request[t].id]
      /\ request[t].id \in Ids
  BY <1>1, EntryOfCall DEF Lookup
<1>3. TypeOK'
  BY <1>2, BoundsAssumption DEF IInv, TypeOK, Goto, Lookup, Ids
<1>4. \A u \in Threads : /\ InCall(u)' <=> InCall(u)
                         /\ Registered(u)' <=> Registered(u)
                         /\ u # t => pc'[u] = pc[u]
  BY <1>1, <1>2 DEF IInv, TypeOK, Goto, InCall, Registered
<1>5. RequestsMade' /\ OwnRequests'
  BY <1>4 DEF IInv, Lookup, Calls, RequestsMade, OwnRequests
<1>6. TableOfCalls'
  BY <1>4 DEF IInv, Lookup, Calls, TableOfCalls
<1>7. Places'
  BY <1>1, <1>2, <1>4 DEF IInv, TypeOK, Goto, Lookup, Calls, Places
<1>8. FlagsOfExecuted'
  BY DEF IInv, Lookup, Calls, FlagsOfExecuted, InLog
<1>9. Wire'
  BY <1>1, <1>2, <1>4, CallGoesOn DEF Lookup, Goto, InCall
<1> QED
  BY <1>3, <1>5, <1>6, <1>7, <1>8, <1>9 DEF IInv, Calls

LEMMA WakePreserves ==
  ASSUME IInv, NEW t \in Threads, Wake(t)
  PROVE  IInv'
<1> USE DEF InTable, callVars, wireVars
<1>1. pc[t] = "wait" /\ Registered(t) /\ request[t].id \in flags
  BY DEF Wake, Goto, Fails, Registered, IInv, Calls, Places
<1>2. /\ Goto(t, "wait", "pop") /\ UNCHANGED dispatcher
      /\ answer' = [answer EXCEPT ![t] = request[t].id]
      /\ request[t].id \in Ids
  BY <1>1, EntryOfCall, BoundsAssumption DEF Wake, Ids
<1>3. TypeOK'
  BY <1>2, BoundsAssumption DEF IInv, TypeOK, Goto, Wake, Ids
<1>4. \A u \in Threads : /\ InCall(u)' <=> InCall(u)
                         /\ Registered(u)' <=> Registered(u)
                         /\ u # t => pc'[u] = pc[u]
  BY <1>1, <1>2 DEF IInv, TypeOK, Goto, InCall, Registered
<1>5. RequestsMade' /\ OwnRequests'
  BY <1>4 DEF IInv, Wake, Calls, RequestsMade, OwnRequests
<1>6. TableOfCalls'
  BY <1>4 DEF IInv, Wake, Calls, TableOfCalls
<1>7. Places'
  BY <1>1, <1>2, <1>4 DEF IInv, TypeOK, Goto, Wake, Calls, Places
<1>8. FlagsOfExecuted'
  BY DEF IInv, Wake, Calls, FlagsOfExecuted, InLog
<1>9. Wire'
  BY <1>1, <1>2, <1>4, CallGoesOn DEF Wake, Goto, InCall
<1> QED
  BY <1>3, <1>5, <1>6, <1>7, <1>8, <1>9 DEF IInv, Calls

(* The call is over: its request is nowhere any more.                      *)
LEMMA PopPreserves ==
  ASSUME IInv, NEW t \in Threads, Pop(t)
  PROVE  IInv'
<1> USE DEF wireVars
<1>1. pc[t] = "pop" /\ Registered(t) /\ request[t].id \in flags
  BY DEF Pop, Goto, Fails, Registered, IInv, Calls, Places
<1>2. /\ Goto(t, "pop", "idle") /\ Returned(t)
      /\ dispatcher' = IF t = Dispatcher THEN "runs" ELSE dispatcher
      /\ request[t].key \in Keys
      /\ entry' = [entry EXCEPT ![request[t].key] = None]
  BY <1>1, EntryOfCall DEF Pop
<1>3. TypeOK'
  BY <1>2, BoundsAssumption DEF IInv, TypeOK, Goto, Pop, Returned
<1>4. /\ ~InCall(t)' /\ ~Registered(t)'
      /\ \A u \in Threads \ {t} :
           /\ pc'[u] = pc[u] /\ request'[u] = request[u]
           /\ waitsOn'[u] = waitsOn[u] /\ answer'[u] = answer[u]
  BY <1>1, <1>2 DEF IInv, TypeOK, Goto, InCall, Registered, Returned
<1>5. RequestsMade' /\ OwnRequests'
  <2>1. RequestsMade'
    BY <1>4 DEF IInv, Pop, Calls, RequestsMade, InCall
  <2>2. OwnRequests'
    BY <1>4 DEF IInv, Pop, Calls, OwnRequests, InCall
  <2> QED
    BY <2>1, <2>2
<1>6. TableOfCalls'
  <2>1. \A u \in Threads : Registered(u)' => u # t /\ Registered(u)
    BY <1>4 DEF Registered
  <2>2. ASSUME NEW u \in Threads, Registered(u)'
        PROVE  request[u].key # request[t].key /\ request[u].key \in Keys
    <3>1. u # t /\ InCall(u) /\ InCall(t)
      BY <1>1, <2>1, <2>2 DEF Registered, InCall
    <3> QED
      BY <3>1 DEF IInv, Calls, OwnRequests, RequestsMade, Requests
  <2>3. \A k \in Keys : k # request[t].key => entry'[k] = entry[k]
    BY <1>2 DEF IInv, TypeOK
  <2>4. ASSUME NEW u \in Threads, Registered(u)'
        PROVE  entry'[request'[u].key] =
                 [event |-> request'[u].id,
                  response |-> IF request'[u].id \in flags' THEN request'[u].id ELSE 0]
    <3>1. request'[u] = request[u] /\ entry'[request[u].key] = entry[request[u].key]
      BY <1>4, <2>1, <2>2, <2>3, <2>4
    <3>2. flags' = flags /\ Registered(u)
      BY <2>1, <2>4 DEF Pop
    <3> QED
      BY <3>1, <3>2 DEF IInv, Calls, TableOfCalls
  <2>5. ASSUME NEW k \in Keys, entry'[k] # None
        PROVE  \E u \in Threads : Registered(u)' /\ request'[u].key = k
    <3>1. k # request[t].key /\ entry[k] # None
      BY <1>2, <2>3, <2>5 DEF IInv, TypeOK
    <3>2. PICK u \in Threads : Registered(u) /\ request[u].key = k
      BY <3>1 DEF IInv, Calls, TableOfCalls
    <3>3. u # t
      BY <3>1, <3>2
    <3> QED
      BY <1>4, <3>2, <3>3 DEF Registered
  <2> QED
    BY <2>4, <2>5 DEF TableOfCalls, Keys
<1>7. Places'
  BY <1>2, <1>4 DEF IInv, TypeOK, Goto, Pop, Calls, Places
<1>8. FlagsOfExecuted'
  BY DEF IInv, Pop, Calls, FlagsOfExecuted, InLog
<1>9. Wire'
  <2>1. ASSUME NEW i, NEW k, Awaited(i, k)
        PROVE  Awaited(i, k)'
    <3>1. PICK u \in Threads : InCall(u) /\ request[u].id = i /\ request[u].key = k
      BY <2>1 DEF Awaited
    <3>2. u # t
      BY <1>1, <2>1, <3>1 DEF Awaited
    <3>3. InCall(u)' /\ request'[u].id = i /\ request'[u].key = k
      BY <1>4, <3>1, <3>2 DEF InCall
    <3> QED
      BY <2>1, <3>3 DEF Awaited, Pop
  <2> QED
    BY <2>1, WireStays DEF IInv, Pop
<1> QED
  BY <1>3, <1>5, <1>6, <1>7, <1>8, <1>9 DEF IInv, Calls
------------------------------------------------------------------------------
(* A thread begins a call: the request is new, and so is its key.          *)
LEMMA SendRequestPreserves ==
  ASSUME IInv, NEW t \in Threads, NEW name \in OwnNames(t), SendRequest(t, name),
         UNCHANGED <<entry, flags, omm, executed, waitsOn, answer>>
  PROVE  /\ requests' \in 0 .. MaxRequests /\ requests' = requests + 1
         /\ sequence' \in 0 .. requests'
         /\ pc' \in [Threads -> {"idle", "check", "register", "lookup", "wait", "pop", "raised"}]
         /\ request' \in [Threads -> Requests \cup {None}]
         /\ sendq' \in Seq(Requests)
         /\ Calls' /\ Unsent' /\ AtOmm'
         /\ \A i, k : Awaited(i, k) => Awaited(i, k)'
<1> DEFINE seq == IF name \in Sequenced THEN NextSequence ELSE 0
           new == [id |-> requests + 1, key |-> <<name, seq>>]
<1>1. /\ requests < MaxRequests
      /\ pc[t] = "idle" /\ pc' = [pc EXCEPT ![t] = "check"]
      /\ requests' = requests + 1
      /\ sequence' = IF name \in Sequenced THEN sequence + 1 ELSE sequence
      /\ request' = [request EXCEPT ![t] = new]
      /\ sendq' = Append(sendq, request'[t])
  BY DEF SendRequest, Goto, NextSequence
<1>2. /\ requests \in Nat /\ sequence \in 0 .. requests /\ requests + 1 \in Ids
      /\ seq \in 0 .. MaxRequests /\ seq <= sequence'
  BY <1>1, BoundsAssumption DEF IInv, TypeOK, Ids, NextSequence
<1>3. name \in Names
  BY ThreadsAssumption DEF OwnNames, Names, PlainNames, Threads
<1>4. new \in Requests /\ request'[t] = new
  BY <1>1, <1>2, <1>3 DEF IInv, TypeOK, Requests, Keys
<1>5. /\ InCall(t)' /\ ~Registered(t)' /\ ~InCall(t) /\ ~Registered(t)
      /\ pc'[t] = "check"
      /\ \A u \in Threads \ {t} : pc'[u] = pc[u] /\ request'[u] = request[u]
  BY <1>1 DEF IInv, TypeOK, InCall, Registered
<1>6. sequence' >= sequence /\ sequence' \in Nat
  BY <1>1, <1>2
<1>7. ASSUME NEW u \in Threads \ {t}, InCall(u)
      PROVE  /\ request[u] \in Requests /\ request[u].id <= requests
             /\ request[u].key[1] \in OwnNames(u)
             /\ IF request[u].key[1] \in Sequenced
                  THEN request[u].key[2] \in 1 .. sequence
                  ELSE request[u].key[2] = 0
  BY <1>7 DEF IInv, Calls, RequestsMade
<1>8. RequestsMade'
  <2>1. ASSUME NEW u \in Threads \ {t}, InCall(u)'
        PROVE  /\ request'[u] \in Requests /\ request'[u].id <= requests'
               /\ request'[u].key[1] \in OwnNames(u)
               /\ IF request'[u].key[1] \in Sequenced
                    THEN request'[u].key[2] \in 1 .. sequence'
                    ELSE request'[u].key[2] = 0
    <3>1. InCall(u) /\ request'[u] = request[u]
      BY <1>5, <2>1 DEF InCall
    <3> QED
      BY <1>1, <1>2, <1>6, <1>7, <3>1 DEF Requests, Ids
  <2>2. /\ new.id <= requests'
        /\ new.key[1] \in OwnNames(t)
        /\ IF new.key[1] \in Sequenced THEN new.key[2] \in 1 .. sequence'
                                       ELSE new.key[2] = 0
    BY <1>1, <1>2 DEF NextSequence
  <2> QED
    BY <1>4, <2>1, <2>2 DEF RequestsMade
<1>9. ASSUME NEW u \in Threads \ {t}, InCall(u)
      PROVE  request[u].id # new.id /\ request[u].key # new.key
  <2>1. request[u].id # new.id
    BY <1>2, <1>7, <1>9 DEF Requests, Ids
  <2>2. CASE name \in Sequenced
    BY <1>2, <1>7, <1>9, <2>2 DEF NextSequence
  <2>3. CASE name \notin Sequenced
    <3>1. request[u].key[1] # name
      BY <1>7, <1>9, <2>3, NamesAssumption DEF OwnNames, Threads, PlainNames
    <3> QED
      BY <2>1, <3>1
  <2> QED
    BY <2>1, <2>2, <2>3
<1>10. OwnRequests'
  <2>1. ASSUME NEW u1 \in Threads, NEW u2 \in Threads, u1 # u2, InCall(u1)', InCall(u2)'
        PROVE  request'[u1].id # request'[u2].id /\ request'[u1].key # request'[u2].key
    <3>1. CASE u1 = t \/ u2 = t
      BY <1>4, <1>5, <1>9, <2>1, <3>1 DEF InCall
    <3>2. CASE u1 # t /\ u2 # t
      BY <1>5, <2>1, <3>2 DEF InCall, IInv, Calls, OwnRequests
    <3> QED
      BY <3>1, <3>2
  <2> QED
    BY <2>1 DEF OwnRequests
<1>11. TableOfCalls'
  <2>1. \A u \in Threads : Registered(u)' <=> Registered(u)
    BY <1>5 DEF Registered
  <2>2. \A u \in Threads : Registered(u) => request'[u] = request[u]
    BY <1>5
  <2> QED
    BY <2>1, <2>2 DEF IInv, Calls, TableOfCalls, Keys
<1>12. Places'
  <2>1. new.id \notin flags
    BY <1>2 DEF IInv, Calls, FlagsOfExecuted
  <2> QED
    BY <1>4, <1>5, <2>1 DEF IInv, Calls, Places
<1>13. FlagsOfExecuted'
  <2>1. \A i \in flags : i \in Nat /\ i <= requests /\ InLog(i)
    BY DEF IInv, TypeOK, Ids, Calls, FlagsOfExecuted
  <2> QED
    BY <1>1, <1>2, <2>1 DEF FlagsOfExecuted, InLog
<1>14. \A i, k : Awaited(i, k) => Awaited(i, k)'
  BY <1>5 DEF Awaited, InCall
<1>15. AtOmm'
  BY <1>14 DEF IInv, Wire, AtOmm, InLog
<1>16. Unsent'
  <2>1. /\ sendq \in Seq(Requests) /\ Len(sendq) \in Nat
        /\ Len(sendq') = Len(sendq) + 1
        /\ \A j \in 1 .. Len(sendq) : sendq'[j] = sendq[j]
        /\ sendq'[Len(sendq) + 1] = new
    BY <1>1, <1>4, AppendProperties, LenProperties DEF IInv, TypeOK
  <2>2. \A i, k : Awaited(i, k) => i # new.id
    BY <1>2, <1>5, <1>9 DEF Awaited
  <2>3. \A i, k : i = new.id /\ k = new.key => Awaited(i, k)'
    BY <1>4, <1>5, <1>12 DEF Awaited, Places
  <2>4. ~InLog(new.id)
    BY <1>2 DEF InLog, IInv, TypeOK
  <2>5. \A j \in 1 .. Len(sendq') : j \in 1 .. Len(sendq) \/ j = Len(sendq) + 1
    BY <2>1
  <2>6. ASSUME NEW j \in 1 .. Len(sendq')
        PROVE  Awaited(sendq[j].id, sendq[j].key)' /\ ~InLog(sendq[j].id)'
    <3>1. CASE j \in 1 .. Len(sendq)
      <4>1. Awaited(sendq[j].id, sendq[j].key) /\ ~InLog(sendq[j].id)
        BY <3>1 DEF IInv, Wire, Unsent
      <4> QED
        BY <1>14, <2>1, <3>1, <4>1 DEF InLog
    <3>2. CASE j = Len(sendq) + 1
      BY <2>1, <2>3, <2>4, <3>2 DEF InLog
    <3> QED
      BY <2>5, <3>1, <3>2
  <2>7. \A j1, j2 \in 1 .. Len(sendq') : sendq'[j1].id = sendq'[j2].id => j1 = j2
    BY <2>1, <2>2, <2>5 DEF IInv, Wire, Unsent
  <2>8. \A j \in 1 .. Len(sendq'), r \in omm : sendq'[j].id # r.id
    BY <2>1, <2>2, <2>5 DEF IInv, Wire, Unsent, AtOmm
  <2> QED
    BY <2>6, <2>7, <2>8 DEF Unsent
<1>17. sendq' \in Seq(Requests)
  BY <1>1, <1>4, AppendProperties DEF IInv, TypeOK
<1>18. /\ requests' \in 0 .. MaxRequests /\ sequence' \in 0 .. requests'
       /\ pc' \in [Threads -> {"idle", "check", "register", "lookup", "wait", "pop", "raised"}]
       /\ request' \in [Threads -> Requests \cup {None}]
  BY <1>1, <1>2, <1>4, BoundsAssumption DEF IInv, TypeOK
<1> QED
  BY <1>1, <1>8, <1>10, <1>11, <1>12, <1>13, <1>14, <1>15, <1>16, <1>17, <1>18 DEF Calls

LEMMA CallPreserves ==
  ASSUME IInv, NEW c \in Callers, Call(c)
  PROVE  IInv'
<1> USE DEF wireVars, tableVars
<1>1. PICK name \in Sequenced \cup Plain[c] : SendRequest(c, name)
  BY DEF Call
<1>2. c \in Threads /\ name \in OwnNames(c)
  BY ThreadsAssumption DEF Threads, OwnNames
<1>3. UNCHANGED <<entry, flags, omm, executed, waitsOn, answer, stream, recvq>>
  BY DEF Call
<1>4. /\ requests' \in 0 .. MaxRequests /\ requests' = requests + 1
      /\ sequence' \in 0 .. requests'
      /\ pc' \in [Threads -> {"idle", "check", "register", "lookup", "wait", "pop", "raised"}]
      /\ request' \in [Threads -> Requests \cup {None}]
      /\ sendq' \in Seq(Requests)
      /\ Calls' /\ Unsent' /\ AtOmm'
      /\ \A i, k : Awaited(i, k) => Awaited(i, k)'
  BY <1>1, <1>2, <1>3, SendRequestPreserves
<1>5. executed' \in Seq(1 .. requests') /\ dropped' \subseteq 1 .. requests'
  BY <1>4, SeqMonotonic DEF IInv, TypeOK, Call
<1>6. TypeOK'
  BY <1>4, <1>5 DEF IInv, TypeOK, Call
<1>7. Answered' /\ Received'
  BY <1>3, <1>4, AnswersStay DEF IInv
<1> QED
  BY <1>4, <1>6, <1>7 DEF IInv, Wire
------------------------------------------------------------------------------
(* The OMM, the worker and the dispatcher leave the calls alone.           *)
LEMMA CallsStay ==
  ASSUME IInv, UNCHANGED <<requests, sequence, pc, request, waitsOn, answer, entry, flags>>,
         \A i : InLog(i) => InLog(i)'
  PROVE  Calls' /\ \A i, k : Awaited(i, k) <=> Awaited(i, k)'
<1>1. RequestsMade' /\ OwnRequests'
  BY DEF IInv, Calls, RequestsMade, OwnRequests, InCall
<1>2. TableOfCalls'
  BY DEF IInv, Calls, TableOfCalls, Registered, Keys
<1>3. Places'
  BY DEF IInv, Calls, Places
<1>4. FlagsOfExecuted'
  BY DEF IInv, Calls, FlagsOfExecuted
<1>5. \A i, k : Awaited(i, k) <=> Awaited(i, k)'
  BY DEF Awaited, InCall
<1> QED
  BY <1>1, <1>2, <1>3, <1>4, <1>5 DEF Calls

LEMMA AwaitedIsMade ==
  ASSUME IInv, NEW i, NEW k, Awaited(i, k)
  PROVE  i \in Ids /\ i \in 1 .. requests /\ k \in Keys
<1>1. PICK t \in Threads : InCall(t) /\ request[t].id = i /\ request[t].key = k
  BY DEF Awaited
<1>2. request[t] \in Requests /\ request[t].id <= requests
  BY <1>1 DEF IInv, Calls, RequestsMade
<1> QED
  BY <1>1, <1>2, BoundsAssumption DEF Requests, Ids, IInv, TypeOK

LEMMA ExecutePreserves ==
  ASSUME IInv, NEW r \in omm, Execute(r)
  PROVE  IInv'
<1> USE DEF callVars, threadVars, tableVars
<1> DEFINE new == Message(r.id, r.key)
<1>1. r \in Requests /\ r.id \in 1 .. requests /\ ~InLog(r.id) /\ Awaited(r.id, r.key)
  BY AwaitedIsMade DEF IInv, TypeOK, Wire, AtOmm
<1>2. /\ executed \in Seq(1 .. requests) /\ Len(executed) \in Nat
      /\ executed' \in Seq(1 .. requests)
      /\ Len(executed') = Len(executed) + 1
      /\ \A j \in 1 .. Len(executed) : executed'[j] = executed[j]
      /\ executed'[Len(executed) + 1] = r.id
  BY <1>1, AppendProperties, LenProperties DEF IInv, TypeOK, Execute
<1>3. \A i : InLog(i)' <=> InLog(i) \/ i = r.id
  BY <1>2 DEF InLog
<1>4. new \in Messages
  BY <1>1 DEF Message, Messages, Requests, Ids
<1>5. /\ stream \in Seq(Messages) /\ Len(stream) \in Nat
      /\ stream' \in Seq(Messages)
      /\ Len(stream') = Len(stream) + 1
      /\ \A j \in 1 .. Len(stream) : stream'[j] = stream[j]
      /\ stream'[Len(stream) + 1] = new
  BY <1>4, AppendProperties, LenProperties DEF IInv, TypeOK, Execute
<1>6. omm' = omm \ {r}
  BY DEF Execute
<1>7. TypeOK'
  BY <1>2, <1>5, <1>6 DEF IInv, TypeOK, Execute
<1>8. Calls' /\ \A i, k : Awaited(i, k) <=> Awaited(i, k)'
  BY <1>3, CallsStay DEF Execute
<1>9. Unsent' /\ AtOmm'
  <2>1. Unsent'
    BY <1>3, <1>6, <1>8 DEF IInv, Wire, Unsent, Execute
  <2>2. AtOmm'
    BY <1>3, <1>6, <1>8 DEF IInv, Wire, AtOmm
  <2> QED
    BY <2>1, <2>2
<1>10. /\ \A j \in 1 .. Len(stream') : j \in 1 .. Len(stream) \/ j = Len(stream) + 1
       /\ \A j \in 1 .. Len(stream) : OnSocket(j)' <=> OnSocket(j)
  BY <1>5 DEF OnSocket, IsAnswer, NoticeKey
<1>11. \A j \in 1 .. Len(stream) : OnSocket(j) => stream[j].to # r.id
  BY <1>1 DEF IInv, Wire, Answered
<1>12. new.to = r.id /\ new.key = r.key
  BY DEF Message
<1>13. Answered'
  <2>1. ASSUME NEW j \in 1 .. Len(stream'), OnSocket(j)'
        PROVE  Awaited(stream[j].to, stream[j].key)' /\ InLog(stream[j].to)'
    <3>1. CASE j \in 1 .. Len(stream)
      <4>1. Awaited(stream[j].to, stream[j].key) /\ InLog(stream[j].to)
        BY <1>10, <2>1, <3>1 DEF IInv, Wire, Answered
      <4> QED
        BY <1>3, <1>5, <1>8, <3>1, <4>1
    <3>2. CASE j = Len(stream) + 1
      BY <1>1, <1>3, <1>5, <1>8, <1>12, <3>2
    <3> QED
      BY <1>10, <3>1, <3>2
  <2>2. \A j1, j2 \in 1 .. Len(stream') :
          OnSocket(j1)' /\ OnSocket(j2)' /\ stream'[j1].to = stream'[j2].to => j1 = j2
    BY <1>5, <1>10, <1>11, <1>12 DEF IInv, Wire, Answered
  <2> QED
    BY <2>1, <2>2 DEF Answered
<1>14. Received'
  <2>1. \A j : /\ WasRead(j)' <=> WasRead(j)
               /\ ReadAt(j)' = ReadAt(j)
    BY DEF WasRead, ReadAt, IsAnswer, NoticeKey, Execute
  <2>2. \A j \in 1 .. Len(recvq) : WasRead(j) => ReadAt(j).to # r.id
    BY <1>1 DEF IInv, Wire, Received
  <2>3. ASSUME NEW j \in 1 .. Len(recvq), WasRead(j)
        PROVE  Awaited(ReadAt(j).to, ReadAt(j).key)' /\ InLog(ReadAt(j).to)'
    BY <1>3, <1>8, <2>1, <2>3 DEF IInv, Wire, Received
  <2>4. \A j1 \in 1 .. Len(stream'), j2 \in 1 .. Len(recvq) :
          OnSocket(j1)' /\ WasRead(j2) => stream'[j1].to # ReadAt(j2).to
    BY <1>5, <1>10, <1>12, <2>2 DEF IInv, Wire, Received
  <2>5. recvq' = recvq
    BY DEF Execute
  <2> QED
    BY <2>1, <2>3, <2>4, <2>5 DEF IInv, Wire, Received
<1> QED
  BY <1>7, <1>8, <1>9, <1>13, <1>14 DEF IInv, Wire

LEMMA NoticePreserves ==
  ASSUME IInv, Notice
  PROVE  IInv'
<1> USE DEF callVars, threadVars, tableVars
<1> DEFINE new == Message(0, NoticeKey)
<1>1. new \in Messages /\ new.key = NoticeKey
  BY BoundsAssumption DEF Message, Messages
<1>2. /\ stream \in Seq(Messages) /\ Len(stream) \in Nat
      /\ stream' \in Seq(Messages)
      /\ Len(stream') = Len(stream) + 1
      /\ \A j \in 1 .. Len(stream) : stream'[j] = stream[j]
      /\ stream'[Len(stream) + 1] = new
  BY <1>1, AppendProperties, LenProperties DEF IInv, TypeOK, Notice
<1>3. TypeOK'
  BY <1>2, BoundsAssumption DEF IInv, TypeOK, Notice
<1>4. Calls' /\ \A i, k : Awaited(i, k) <=> Awaited(i, k)'
  BY CallsStay DEF Notice, InLog
<1>5. Unsent' /\ AtOmm'
  BY <1>4, RequestsStay DEF IInv, Notice
<1>6. \A j \in 1 .. Len(stream') :
        OnSocket(j)' => j \in 1 .. Len(stream) /\ OnSocket(j) /\ stream'[j] = stream[j]
  BY <1>1, <1>2 DEF OnSocket, IsAnswer, NoticeKey
<1>7. Answered'
  BY <1>4, <1>6 DEF IInv, Wire, Answered, InLog, Notice
<1>8. Received'
  BY <1>4, <1>6 DEF IInv, Wire, Received, WasRead, ReadAt, IsAnswer, NoticeKey, InLog, Notice
<1> QED
  BY <1>3, <1>4, <1>5, <1>7, <1>8 DEF IInv, Wire

LEMMA ClosePreserves ==
  ASSUME IInv, Close
  PROVE  IInv'
<1> USE DEF callVars, threadVars, tableVars
<1>1. TypeOK'
  BY DEF IInv, TypeOK, Close
<1>2. Calls' /\ \A i, k : Awaited(i, k) <=> Awaited(i, k)'
  BY CallsStay DEF Close, InLog
<1>3. Wire'
  BY <1>2, WireStays DEF IInv, Close
<1> QED
  BY <1>1, <1>2, <1>3 DEF IInv

LEMMA WorkerSendPreserves ==
  ASSUME IInv, WorkerSend
  PROVE  IInv'
<1> USE DEF threadVars, tableVars
<1>1. /\ sendq \in Seq(Requests) /\ Len(sendq) \in Nat /\ Len(sendq) > 0
      /\ sendq' \in Seq(Requests) /\ Len(sendq') = Len(sendq) - 1
      /\ \A j \in 1 .. Len(sendq') : sendq'[j] = sendq[j + 1]
      /\ Head(sendq) = sendq[1] /\ Head(sendq) \in Requests
  BY HeadTailProperties, LenProperties, EmptySeq DEF IInv, TypeOK, WorkerSend
<1>2. omm' = omm \/ omm' = omm \cup {sendq[1]}
  BY <1>1 DEF WorkerSend
<1>3. TypeOK'
  BY <1>1, <1>2 DEF IInv, TypeOK, WorkerSend
<1>4. Calls' /\ \A i, k : Awaited(i, k) <=> Awaited(i, k)'
  BY CallsStay DEF WorkerSend, InLog
<1>5. \A i : InLog(i)' <=> InLog(i)
  BY DEF InLog, WorkerSend
<1>6. \A j \in 1 .. Len(sendq') : j + 1 \in 1 .. Len(sendq) /\ j + 1 # 1
  BY <1>1
<1>7. Unsent'
  <2>1. ASSUME NEW j \in 1 .. Len(sendq')
        PROVE  Awaited(sendq[j].id, sendq[j].key)' /\ ~InLog(sendq[j].id)'
    BY <1>1, <1>4, <1>5, <1>6 DEF IInv, Wire, Unsent
  <2>2. \A j1, j2 \in 1 .. Len(sendq') : sendq'[j1].id = sendq'[j2].id => j1 = j2
    BY <1>1, <1>6 DEF IInv, Wire, Unsent
  <2>3. \A j \in 1 .. Len(sendq'), r \in omm' : sendq'[j].id # r.id
    BY <1>1, <1>2, <1>6 DEF IInv, Wire, Unsent
  <2> QED
    BY <2>1, <2>2, <2>3 DEF Unsent
<1>8. AtOmm'
  BY <1>1, <1>2, <1>4, <1>5 DEF IInv, Wire, Unsent, AtOmm
<1>9. Answered' /\ Received'
  BY <1>4, AnswersStay DEF IInv, WorkerSend
<1> QED
  BY <1>3, <1>4, <1>7, <1>8, <1>9 DEF IInv, Wire
(* What is left of the socket after a read.                                *)
LEMMA SuffixIs ==
  ASSUME stream \in Seq(Messages), NEW n \in 1 .. Len(stream),
         stream' = SubSeq(stream, n + 1, Len(stream))
  PROVE  /\ stream' \in Seq(Messages) /\ Len(stream) \in Nat
         /\ Len(stream') = Len(stream) - n
         /\ \A j \in 1 .. Len(stream') : n + j \in 1 .. Len(stream) /\ stream'[j] = stream[n + j]
<1>1. /\ Len(stream) \in Nat /\ n + 1 \in Int
      /\ \A j \in n + 1 .. Len(stream) : stream[j] \in Messages
  BY LenProperties, ElementOfSeq
<1>2. /\ stream' \in Seq(Messages) /\ Len(stream') = Len(stream) - n
      /\ \A j \in 1 .. Len(stream') : stream'[j] = stream[n + j]
  BY <1>1, SubSeqProperties
<1> QED
  BY <1>1, <1>2

(* The worker dies, and perhaps what was read with it.                     *)
LEMMA WorkerDiesPreserves ==
  ASSUME IInv, WorkerDies
  PROVE  IInv'
<1> USE DEF callVars, threadVars, wireVars, tableVars
<1>1. /\ worker' = "dead"
      /\ UNCHANGED <<callVars, threadVars, omm, executed, connection, notices, recvq, tableVars,
                     dispatcher>>
  BY DEF WorkerDies, WorkerCannotDecode, WorkerIsReset
<1>2. PICK n \in 0 .. Len(stream) :
        /\ stream' \in Seq(Messages)
        /\ \A j \in 1 .. Len(stream') :
             /\ n + j \in 1 .. Len(stream) /\ stream'[j] = stream[n + j]
  <2>1. CASE WorkerIsReset
    <3>1. stream \in Seq(Messages) /\ Len(stream) \in Nat /\ stream' = stream
      BY <2>1, LenProperties DEF WorkerIsReset, IInv, TypeOK
    <3>2. 0 \in 0 .. Len(stream) /\ \A j \in 1 .. Len(stream) : 0 + j = j
      BY <3>1
    <3> QED
      BY <3>1, <3>2
  <2>2. CASE WorkerCannotDecode
    <3>1. PICK n \in 1 .. Len(stream) : stream' = SubSeq(stream, n + 1, Len(stream))
      BY <2>2 DEF WorkerCannotDecode
    <3>2. stream \in Seq(Messages)
      BY DEF IInv, TypeOK
    <3>3. n \in 0 .. Len(stream)
      BY <3>1
    <3> QED
      BY <3>1, <3>2, <3>3, SuffixIs
  <2> QED
    BY <2>1, <2>2 DEF WorkerDies
<1>3. TypeOK'
  BY <1>1, <1>2 DEF IInv, TypeOK
<1>4. Calls' /\ \A i, k : Awaited(i, k) <=> Awaited(i, k)'
  BY <1>1, CallsStay DEF InLog
<1>5. Unsent' /\ AtOmm'
  BY <1>1, <1>4, RequestsStay DEF IInv
<1>6. (\A i : InLog(i)' <=> InLog(i)) /\ Len(stream) \in Nat
  BY <1>1, LenProperties DEF InLog, IInv, TypeOK
<1>7. \A j : OnSocket(j)' => /\ OnSocket(n + j) /\ j \in Nat
                            /\ stream'[j] = stream[n + j]
  BY <1>2 DEF OnSocket, IsAnswer, NoticeKey
<1>8. \A j : WasRead(j)' <=> WasRead(j)
  BY <1>1 DEF WasRead, IsAnswer, NoticeKey
<1>9. Answered'
  <2>1. ASSUME NEW j \in 1 .. Len(stream'), OnSocket(j)'
        PROVE  Awaited(stream[j].to, stream[j].key)' /\ InLog(stream[j].to)'
    <3>1. OnSocket(n + j) /\ n + j \in 1 .. Len(stream) /\ stream'[j] = stream[n + j]
      BY <1>7, <2>1 DEF OnSocket
    <3> QED
      BY <1>4, <1>6, <3>1 DEF IInv, Wire, Answered
  <2>2. ASSUME NEW j1 \in 1 .. Len(stream'), NEW j2 \in 1 .. Len(stream'),
               OnSocket(j1)', OnSocket(j2)', stream'[j1].to = stream'[j2].to
        PROVE  j1 = j2
    <3>1. /\ OnSocket(n + j1) /\ OnSocket(n + j2) /\ n + j1 \in 1 .. Len(stream)
          /\ n + j2 \in 1 .. Len(stream)
          /\ stream[n + j1].to = stream[n + j2].to
      BY <1>7, <2>2 DEF OnSocket
    <3>2. n + j1 = n + j2
      BY <3>1 DEF IInv, Wire, Answered
    <3> QED
      BY <1>2, <3>2
  <2> QED
    BY <2>1, <2>2 DEF Answered
<1>10. Received'
  <2>1. recvq' = recvq
    BY <1>1
  <2>2. \A j1 \in 1 .. Len(stream'), j2 \in 1 .. Len(recvq) :
          OnSocket(j1)' /\ WasRead(j2) => stream'[j1].to # ReadAt(j2).to
    BY <1>7 DEF IInv, Wire, Received, OnSocket
  <2>3. \A j \in 1 .. Len(recvq) : WasRead(j) =>
          Awaited(ReadAt(j).to, ReadAt(j).key)' /\ InLog(ReadAt(j).to)'
    <3> SUFFICES ASSUME NEW j \in 1 .. Len(recvq), WasRead(j)
                 PROVE  /\ Awaited(recvq[j].messages[1].to, recvq[j].messages[1].key)'
                        /\ InLog(recvq[j].messages[1].to)'
      BY <2>1 DEF ReadAt
    <3> QED
      BY <1>4, <1>6, <2>1 DEF IInv, Wire, Received, ReadAt
  <2> QED
    BY <1>8, <2>1, <2>2, <2>3 DEF IInv, Wire, Received, ReadAt
<1> QED
  BY <1>3, <1>4, <1>5, <1>9, <1>10 DEF IInv, Wire

LEMMA WorkerReceivePreserves ==
  ASSUME IInv, WorkerReceive
  PROVE  IInv'
<1> USE DEF callVars, threadVars, tableVars
<1>1. PICK n \in 1 .. Len(stream), whole \in {"yes", "no"} :
        /\ IF whole = "yes" THEN n = 1 ELSE ~WholeReads
        /\ recvq' = Append(recvq, [whole |-> whole, messages |-> SubSeq(stream, 1, n)])
        /\ stream' = SubSeq(stream, n + 1, Len(stream))
  BY DEF WorkerReceive
<1> DEFINE new == [whole |-> whole, messages |-> SubSeq(stream, 1, n)]
<1>2. /\ stream \in Seq(Messages) /\ Len(stream) \in Nat
      /\ \A j \in 1 .. Len(stream) : stream[j] \in Messages
  BY LenProperties, ElementOfSeq DEF IInv, TypeOK
<1>3. /\ stream' \in Seq(Messages) /\ Len(stream') = Len(stream) - n
      /\ \A j \in 1 .. Len(stream') : stream'[j] = stream[n + j]
  <2>1. n + 1 \in Int /\ \A j \in n + 1 .. Len(stream) : stream[j] \in Messages
    BY <1>2
  <2> HIDE DEF new
  <2> QED
    BY <1>1, <1>2, <2>1, SubSeqProperties
<1>4. SubSeq(stream, 1, n) \in Seq(Messages) /\ SubSeq(stream, 1, n)[1] = stream[1]
  BY <1>2, SubSeqProperties
<1>5. new \in Reads /\ new.messages[1] = stream[1] /\ new.whole = whole
  BY <1>4 DEF Reads
<1>6. /\ recvq \in Seq(Reads) /\ Len(recvq) \in Nat
      /\ recvq' \in Seq(Reads)
      /\ Len(recvq') = Len(recvq) + 1
      /\ \A j \in 1 .. Len(recvq) : recvq'[j] = recvq[j]
      /\ recvq'[Len(recvq) + 1] = new
  BY <1>1, <1>5, AppendProperties, LenProperties DEF IInv, TypeOK
<1>7. TypeOK'
  BY <1>3, <1>6 DEF IInv, TypeOK, WorkerReceive
<1>8. Calls' /\ \A i, k : Awaited(i, k) <=> Awaited(i, k)'
  BY CallsStay DEF WorkerReceive, InLog
<1>9. Unsent' /\ AtOmm'
  BY <1>8, RequestsStay DEF IInv, WorkerReceive
<1>10. \A i : InLog(i)' <=> InLog(i)
  BY DEF InLog, WorkerReceive
<1>11. \A j \in 1 .. Len(stream') :
         /\ n + j \in 1 .. Len(stream)
         /\ OnSocket(j)' <=> OnSocket(n + j)
  BY <1>2, <1>3 DEF OnSocket, IsAnswer, NoticeKey
<1>12. Answered'
  <2>1. ASSUME NEW j \in 1 .. Len(stream'), OnSocket(j)'
        PROVE  Awaited(stream[j].to, stream[j].key)' /\ InLog(stream[j].to)'
    BY <1>3, <1>8, <1>10, <1>11, <2>1 DEF IInv, Wire, Answered
  <2>2. \A j1, j2 \in 1 .. Len(stream') :
          OnSocket(j1)' /\ OnSocket(j2)' /\ stream'[j1].to = stream'[j2].to => n + j1 = n + j2
    BY <1>3, <1>11 DEF IInv, Wire, Answered
  <2> QED
    BY <2>1, <2>2 DEF Answered
<1>13. /\ \A j \in 1 .. Len(recvq') : j \in 1 .. Len(recvq) \/ j = Len(recvq) + 1
       /\ \A j \in 1 .. Len(recvq) : /\ WasRead(j)' <=> WasRead(j)
                                     /\ ReadAt(j)' = ReadAt(j)
  BY <1>6 DEF WasRead, ReadAt, IsAnswer, NoticeKey
<1>14. /\ ReadAt(Len(recvq) + 1)' = ReadAt(Len(recvq) + 1)'
       /\ \A j : j = Len(recvq) + 1 /\ WasRead(j)' => n = 1 /\ OnSocket(1) /\ ReadAt(j)' = stream[1]
  BY <1>1, <1>5, <1>6 DEF WasRead, ReadAt, OnSocket, IsAnswer, NoticeKey
<1>15. Received'
  <2>1. ASSUME NEW j \in 1 .. Len(recvq'), WasRead(j)'
        PROVE  Awaited(ReadAt(j).to, ReadAt(j).key)' /\ InLog(ReadAt(j).to)'
    <3>1. CASE j \in 1 .. Len(recvq)
      <4>1. Awaited(ReadAt(j).to, ReadAt(j).key) /\ InLog(ReadAt(j).to)
        BY <1>13, <2>1, <3>1 DEF IInv, Wire, Received
      <4> QED
        BY <1>8, <1>10, <1>13, <3>1, <4>1
    <3>2. CASE j = Len(recvq) + 1
      <4>1. ReadAt(j)' = stream[1] /\ OnSocket(1) /\ 1 \in 1 .. Len(stream)
        BY <1>14, <2>1, <3>2 DEF OnSocket
      <4>2. Awaited(stream[1].to, stream[1].key) /\ InLog(stream[1].to)
        BY <4>1 DEF IInv, Wire, Answered
      <4> QED
        BY <1>8, <1>10, <4>1, <4>2
    <3> QED
      BY <1>13, <3>1, <3>2
  <2>2. ASSUME NEW j1 \in 1 .. Len(recvq'), NEW j2 \in 1 .. Len(recvq'),
               WasRead(j1)', WasRead(j2)', ReadAt(j1)'.to = ReadAt(j2)'.to
        PROVE  j1 = j2
    <3>1. CASE j1 \in 1 .. Len(recvq) /\ j2 \in 1 .. Len(recvq)
      BY <1>13, <2>2, <3>1 DEF IInv, Wire, Received
    <3>2. ASSUME NEW j \in 1 .. Len(recvq), WasRead(j), OnSocket(1)
          PROVE  ReadAt(j).to # stream[1].to
      BY <3>2 DEF OnSocket, IInv, Wire, Received
    <3>3. CASE ~(j1 \in 1 .. Len(recvq) /\ j2 \in 1 .. Len(recvq))
      BY <1>13, <1>14, <2>2, <3>2, <3>3
    <3> QED
      BY <3>1, <3>3
  <2>3. ASSUME NEW j1 \in 1 .. Len(stream'), NEW j2 \in 1 .. Len(recvq'),
               OnSocket(j1)', WasRead(j2)'
        PROVE  stream'[j1].to # ReadAt(j2)'.to
    <3>1. n + j1 \in 1 .. Len(stream) /\ OnSocket(n + j1) /\ stream'[j1] = stream[n + j1]
      BY <1>3, <1>11, <2>3
    <3>2. CASE j2 \in 1 .. Len(recvq)
      BY <1>13, <2>3, <3>1, <3>2 DEF IInv, Wire, Received
    <3>3. CASE j2 = Len(recvq) + 1
      <4>1. n = 1 /\ OnSocket(1) /\ ReadAt(j2)' = stream[1] /\ 1 \in 1 .. Len(stream)
        BY <1>14, <2>3, <3>3 DEF OnSocket
      <4>2. n + j1 # 1
        BY <4>1
      <4> QED
        BY <3>1, <4>1, <4>2 DEF IInv, Wire, Answered
    <3> QED
      BY <1>13, <3>2, <3>3
  <2> QED
    BY <2>1, <2>2, <2>3 DEF Received
<1> QED
  BY <1>7, <1>8, <1>9, <1>12, <1>15 DEF IInv, Wire
------------------------------------------------------------------------------
(* The dispatcher takes an item: the others move up.                       *)
LEMMA TakeItemFacts ==
  ASSUME IInv, TakeItem
  PROVE  /\ recvq' \in Seq(Reads) /\ Len(recvq) \in Nat /\ Len(recvq') = Len(recvq) - 1
         /\ 1 \in 1 .. Len(recvq) /\ Head(recvq) = recvq[1]
         /\ \A j \in 1 .. Len(recvq') :
              /\ j + 1 \in 1 .. Len(recvq) /\ j + 1 # 1
              /\ WasRead(j)' <=> WasRead(j + 1)
              /\ ReadAt(j)' = ReadAt(j + 1)
<1>1. /\ recvq \in Seq(Reads) /\ Len(recvq) \in Nat /\ Len(recvq) > 0
      /\ recvq' \in Seq(Reads) /\ Len(recvq') = Len(recvq) - 1
      /\ \A j \in 1 .. Len(recvq') : recvq'[j] = recvq[j + 1]
      /\ Head(recvq) = recvq[1]
  BY HeadTailProperties, LenProperties, EmptySeq DEF IInv, TypeOK, TakeItem
<1>2. \A j \in 1 .. Len(recvq') : j + 1 \in 1 .. Len(recvq) /\ j + 1 # 1
  BY <1>1
<1> QED
  BY <1>1, <1>2 DEF WasRead, ReadAt, IsAnswer, NoticeKey

(* What is behind the item stays, when its calls do.                       *)
LEMMA ReceivedStays ==
  ASSUME IInv, TakeItem, UNCHANGED <<stream, executed>>,
         \A j \in 1 .. Len(recvq) \ {1} : \A i, k :
           WasRead(j) /\ i = ReadAt(j).to /\ k = ReadAt(j).key => Awaited(i, k)',
         \A j \in 1 .. Len(stream) : \A i, k :
           OnSocket(j) /\ i = stream[j].to /\ k = stream[j].key => Awaited(i, k)'
  PROVE  Answered' /\ Received'
<1>1. \A i : InLog(i)' <=> InLog(i)
  BY DEF InLog
<1>2. \A j \in 1 .. Len(stream) : OnSocket(j)' <=> OnSocket(j)
  BY DEF OnSocket, IsAnswer, NoticeKey
<1>3. Answered'
  BY <1>1, <1>2 DEF IInv, Wire, Answered
<1>4. \A j \in 1 .. Len(recvq') :
        /\ j + 1 \in 1 .. Len(recvq) \ {1}
        /\ WasRead(j)' <=> WasRead(j + 1)
        /\ ReadAt(j)' = ReadAt(j + 1)
  BY TakeItemFacts
<1>5. Received'
  <2>1. ASSUME NEW j \in 1 .. Len(recvq'), WasRead(j)'
        PROVE  Awaited(ReadAt(j).to, ReadAt(j).key)' /\ InLog(ReadAt(j).to)'
    <3>1. /\ j + 1 \in 1 .. Len(recvq) \ {1} /\ WasRead(j + 1)
          /\ ReadAt(j)' = ReadAt(j + 1) /\ InLog(ReadAt(j + 1).to)
      BY <1>4, <2>1 DEF IInv, Wire, Received
    <3>2. \A i, k : i = ReadAt(j + 1).to /\ k = ReadAt(j + 1).key => Awaited(i, k)'
      BY <3>1
    <3> QED
      BY <1>1, <3>1, <3>2
  <2>2. \A j1, j2 \in 1 .. Len(recvq') :
          WasRead(j1)' /\ WasRead(j2)' /\ ReadAt(j1)'.to = ReadAt(j2)'.to => j1 + 1 = j2 + 1
    BY <1>4 DEF IInv, Wire, Received
  <2>3. \A j1 \in 1 .. Len(stream), j2 \in 1 .. Len(recvq') :
          OnSocket(j1) /\ WasRead(j2)' => stream[j1].to # ReadAt(j2)'.to
    BY <1>4 DEF IInv, Wire, Received
  <2>4. \A j1, j2 \in 1 .. Len(recvq') : j1 + 1 = j2 + 1 => j1 = j2
    BY TakeItemFacts
  <2> QED
    BY <1>2, <2>1, <2>2, <2>3, <2>4 DEF Received
<1> QED
  BY <1>3, <1>5

LEMMA DispatchGarbagePreserves ==
  ASSUME IInv, DispatchGarbage
  PROVE  IInv'
<1> USE DEF callVars, threadVars, wireVars, tableVars
<1>1. TypeOK'
  BY TakeItemFacts DEF IInv, TypeOK, DispatchGarbage
<1>2. Calls' /\ \A i, k : Awaited(i, k) <=> Awaited(i, k)'
  BY CallsStay DEF DispatchGarbage, InLog
<1>3. Unsent' /\ AtOmm'
  BY <1>2, RequestsStay DEF IInv, DispatchGarbage
<1>4. Answered' /\ Received'
  <2>1. \A j \in 1 .. Len(recvq) : WasRead(j) => Awaited(ReadAt(j).to, ReadAt(j).key)
    BY DEF IInv, Wire, Received
  <2>2. \A j \in 1 .. Len(stream) : OnSocket(j) => Awaited(stream[j].to, stream[j].key)
    BY DEF IInv, Wire, Answered
  <2> QED
    BY <1>2, <2>1, <2>2, ReceivedStays DEF DispatchGarbage
<1> QED
  BY <1>1, <1>2, <1>3, <1>4 DEF IInv, Wire
(* An answer nobody waits for: it does not come to this.                   *)
LEMMA DropPreserves ==
  ASSUME IInv, TakeResponse, Drop(Item.key, Item.to)
  PROVE  IInv'
<1> USE DEF callVars, threadVars, wireVars
<1>1. 1 \in 1 .. Len(recvq) /\ WasRead(1) /\ Item = ReadAt(1)
  BY TakeItemFacts DEF TakeResponse, WholeMessage, Item, WasRead, ReadAt, IsAnswer
<1>2. Item.to \in 1 .. requests
  BY <1>1, AwaitedIsMade DEF IInv, Wire, Received
<1>3. TypeOK'
  BY <1>2, TakeItemFacts DEF IInv, TypeOK, TakeResponse, TakeItem, Drop
<1>4. Calls' /\ \A i, k : Awaited(i, k) <=> Awaited(i, k)'
  BY CallsStay DEF TakeResponse, TakeItem, Drop, InLog
<1>5. Unsent' /\ AtOmm'
  BY <1>4, RequestsStay DEF IInv, TakeResponse
<1>6. Answered' /\ Received'
  <2>1. \A j \in 1 .. Len(recvq) : WasRead(j) => Awaited(ReadAt(j).to, ReadAt(j).key)
    BY DEF IInv, Wire, Received
  <2>2. \A j \in 1 .. Len(stream) : OnSocket(j) => Awaited(stream[j].to, stream[j].key)
    BY DEF IInv, Wire, Answered
  <2> QED
    BY <1>4, <2>1, <2>2, ReceivedStays DEF TakeResponse
<1> QED
  BY <1>3, <1>4, <1>5, <1>6 DEF IInv, Wire

(* An answer finds the entry of the call it is for, if that is registered. *)
LEMMA RespondPreserves ==
  ASSUME IInv, TakeResponse, Respond(Item.key, Item.to)
  PROVE  IInv'
<1> USE DEF callVars, threadVars, wireVars
<1>1. 1 \in 1 .. Len(recvq) /\ WasRead(1) /\ Item = ReadAt(1)
  BY TakeItemFacts DEF TakeResponse, WholeMessage, Item, WasRead, ReadAt, IsAnswer
<1>2. Awaited(Item.to, Item.key) /\ InLog(Item.to)
  BY <1>1 DEF IInv, Wire, Received
<1>3. Item.to \in Ids /\ Item.to \in 1 .. requests /\ Item.key \in Keys /\ Item.to \notin flags
  BY <1>2, AwaitedIsMade DEF Awaited
<1>4. PICK t \in Threads : InCall(t) /\ request[t].id = Item.to /\ request[t].key = Item.key
  BY <1>2 DEF Awaited
<1>5. Registered(t)
  <2>1. PICK u \in Threads : Registered(u) /\ request[u].key = Item.key
    BY <1>3 DEF Respond, IInv, Calls, TableOfCalls
  <2>2. u = t
    BY <1>4, <2>1 DEF IInv, Calls, OwnRequests, InCall, Registered
  <2> QED
    BY <2>1, <2>2
<1>6. entry[Item.key] = [event |-> Item.to, response |-> 0]
  BY <1>3, <1>4, <1>5 DEF IInv, Calls, TableOfCalls
<1>7. /\ flags' = flags \cup {Item.to} /\ dropped' = dropped
      /\ entry' = [entry EXCEPT ![Item.key] = [event |-> Item.to, response |-> Item.to]]
  <2>1. entry' = [entry EXCEPT ![Item.key].response = Item.to]
        /\ flags' = flags \cup {entry[Item.key].event} /\ dropped' = dropped
    BY DEF Respond
  <2>2. [entry[Item.key] EXCEPT !.response = Item.to] = [event |-> Item.to, response |-> Item.to]
    BY <1>6
  <2> QED
    BY <1>6, <2>1, <2>2
<1>8. TypeOK'
  <2>1. [event |-> Item.to, response |-> Item.to] \in [event : Ids, response : 0 .. MaxRequests]
    BY <1>3, BoundsAssumption DEF Ids
  <2>2. entry' \in [Keys -> [event : Ids, response : 0 .. MaxRequests] \cup {None}]
    BY <1>7, <2>1 DEF IInv, TypeOK
  <2>3. flags' \subseteq Ids
    BY <1>3, <1>7 DEF IInv, TypeOK
  <2>4. recvq' \in Seq(Reads)
    BY TakeItemFacts DEF TakeResponse
  <2> QED
    BY <1>7, <2>2, <2>3, <2>4 DEF IInv, TypeOK, TakeResponse
<1>9. UNCHANGED <<pc, request, waitsOn, answer, requests, sequence, executed, sendq, omm, stream>>
  BY DEF TakeResponse
<1>10. ASSUME NEW u \in Threads \ {t}, InCall(u)
       PROVE  request[u].id # Item.to /\ request[u].key # Item.key
  BY <1>4, <1>10 DEF IInv, Calls, OwnRequests
<1>11. RequestsMade' /\ OwnRequests'
  BY <1>9 DEF IInv, Calls, RequestsMade, OwnRequests, InCall
<1>12. TableOfCalls'
  <2>1. ASSUME NEW u \in Threads, Registered(u)
        PROVE  entry'[request[u].key] =
                 [event |-> request[u].id,
                  response |-> IF request[u].id \in flags' THEN request[u].id ELSE 0]
    <3>1. CASE u = t
      BY <1>3, <1>4, <1>7, <3>1 DEF IInv, TypeOK
    <3>2. CASE u # t
      <4>1. request[u].id # Item.to /\ request[u].key # Item.key
        BY <1>10, <2>1, <3>2 DEF InCall, Registered
      <4>2. request[u].key \in Keys
        BY <2>1, EntryOfCall
      <4> QED
        BY <1>7, <2>1, <4>1, <4>2 DEF IInv, TypeOK, Calls, TableOfCalls
    <3> QED
      BY <3>1, <3>2
  <2>2. ASSUME NEW k \in Keys, entry'[k] # None
        PROVE  \E u \in Threads : Registered(u) /\ request[u].key = k
    BY <1>4, <1>5, <1>7, <2>2 DEF IInv, TypeOK, Calls, TableOfCalls
  <2> QED
    BY <1>9, <2>1, <2>2 DEF TableOfCalls, Registered, Keys
<1>13. Places'
  <2>1. ASSUME NEW u \in Threads, pc[u] \in {"check", "register"}
        PROVE  request[u].id \notin flags'
    <3>1. u # t /\ InCall(u)
      BY <1>5, <2>1 DEF Registered, InCall
    <3> QED
      BY <1>7, <1>10, <2>1, <3>1 DEF IInv, Calls, Places
  <2> QED
    BY <1>7, <1>9, <2>1 DEF IInv, Calls, Places
<1>14. FlagsOfExecuted'
  BY <1>2, <1>3, <1>7, <1>9 DEF IInv, Calls, FlagsOfExecuted, InLog
<1>15. ASSUME NEW i, NEW k, Awaited(i, k), i # Item.to
       PROVE  Awaited(i, k)'
  BY <1>7, <1>9, <1>15 DEF Awaited, InCall
<1>16. Unsent'
  <2>1. \A j \in 1 .. Len(sendq) : Awaited(sendq[j].id, sendq[j].key) /\ sendq[j].id # Item.to
    BY <1>2 DEF IInv, Wire, Unsent
  <2> QED
    BY <1>9, <1>15, <2>1 DEF IInv, Wire, Unsent, InLog
<1>17. AtOmm'
  <2>1. \A r \in omm : Awaited(r.id, r.key) /\ r.id # Item.to
    BY <1>2 DEF IInv, Wire, AtOmm
  <2> QED
    BY <1>9, <1>15, <2>1 DEF IInv, Wire, AtOmm, InLog
<1>18. Answered' /\ Received'
  <2>1. \A j \in 1 .. Len(recvq) \ {1} :
          WasRead(j) => Awaited(ReadAt(j).to, ReadAt(j).key) /\ ReadAt(j).to # Item.to
    BY <1>1 DEF IInv, Wire, Received
  <2>2. \A j \in 1 .. Len(stream) :
          OnSocket(j) => Awaited(stream[j].to, stream[j].key) /\ stream[j].to # Item.to
    BY <1>1 DEF IInv, Wire, Answered, Received
  <2> QED
    BY <1>9, <1>15, <2>1, <2>2, ReceivedStays DEF TakeResponse
<1> QED
  BY <1>8, <1>11, <1>12, <1>13, <1>14, <1>16, <1>17, <1>18 DEF IInv, Calls, Wire

LEMMA DispatchNoticePreserves ==
  ASSUME IInv, DispatchNotice
  PROVE  IInv'
<1> USE DEF wireVars, tableVars
<1>1. Dispatcher \in Threads /\ "Subscribe" \in OwnNames(Dispatcher)
  BY DEF Threads, OwnNames
<1>2. UNCHANGED <<entry, flags, omm, executed, waitsOn, answer, stream>>
  BY DEF DispatchNotice
<1>3. /\ requests' \in 0 .. MaxRequests /\ requests' = requests + 1
      /\ sequence' \in 0 .. requests'
      /\ pc' \in [Threads -> {"idle", "check", "register", "lookup", "wait", "pop", "raised"}]
      /\ request' \in [Threads -> Requests \cup {None}]
      /\ sendq' \in Seq(Requests)
      /\ Calls' /\ Unsent' /\ AtOmm'
      /\ \A i, k : Awaited(i, k) => Awaited(i, k)'
  BY <1>1, <1>2, SendRequestPreserves DEF DispatchNotice
<1>4. executed' \in Seq(1 .. requests') /\ dropped' \subseteq 1 .. requests'
  BY <1>3, SeqMonotonic DEF IInv, TypeOK, DispatchNotice
<1>5. TypeOK'
  BY <1>3, <1>4, TakeItemFacts DEF IInv, TypeOK, DispatchNotice
<1>6. Answered' /\ Received'
  <2>1. \A j \in 1 .. Len(recvq) : WasRead(j) => Awaited(ReadAt(j).to, ReadAt(j).key)
    BY DEF IInv, Wire, Received
  <2>2. \A j \in 1 .. Len(stream) : OnSocket(j) => Awaited(stream[j].to, stream[j].key)
    BY DEF IInv, Wire, Answered
  <2> QED
    BY <1>2, <1>3, <2>1, <2>2, ReceivedStays DEF DispatchNotice
<1> QED
  BY <1>3, <1>5, <1>6 DEF IInv, Wire
------------------------------------------------------------------------------
LEMMA StutterPreserves ==
  ASSUME IInv, UNCHANGED vars
  PROVE  IInv'
<1> USE DEF vars, callVars, threadVars, wireVars, tableVars
<1>1. TypeOK'
  BY DEF IInv, TypeOK
<1>2. Calls' /\ \A i, k : Awaited(i, k) <=> Awaited(i, k)'
  BY CallsStay DEF InLog
<1>3. Wire'
  BY <1>2, WireStays DEF IInv
<1> QED
  BY <1>1, <1>2, <1>3 DEF IInv

LEMMA StepPreserves ==
  ASSUME IInv, NEW t \in Threads, Step(t)
  PROVE  IInv'
BY CheckPreserves, RegisterPreserves, LookupPreserves, WakePreserves, PopPreserves DEF Step

LEMMA NextPreserves ==
  ASSUME IInv, [Next]_vars
  PROVE  IInv'
<1>1. CASE \E c \in Callers : Call(c)
  BY <1>1, CallPreserves
<1>2. CASE \E t \in Threads : Step(t)
  BY <1>2, StepPreserves
<1>3. CASE \E r \in omm : Execute(r)
  BY <1>3, ExecutePreserves
<1>4. CASE Notice \/ Close
  BY <1>4, NoticePreserves, ClosePreserves
<1>5. CASE WorkerSend \/ WorkerReceive \/ WorkerDies
  BY <1>5, WorkerSendPreserves, WorkerReceivePreserves, WorkerDiesPreserves
<1>6. CASE Dispatch
  BY <1>6, DispatchGarbagePreserves, RespondPreserves, DropPreserves, DispatchNoticePreserves
     DEF Dispatch, DispatchResponse
<1>7. CASE UNCHANGED vars
  BY <1>7, StutterPreserves
<1> QED
  BY <1>1, <1>2, <1>3, <1>4, <1>5, <1>6, <1>7 DEF Next

LEMMA Invariance == Spec => []IInv
  BY InitEstablishes, NextPreserves, PTL DEF Spec

(* Every queue, entry and thread keeps its type.                           *)
THEOREM TypeCorrect == Spec => []TypeOK
<1>1. IInv => TypeOK
  BY DEF IInv
<1> QED
  BY <1>1, Invariance, PTL

(* A caller gets the answer to its own request, whatever the number of     *)
(* callers and the order of the answers.                                   *)
THEOREM OwnAnswers == Spec => []AnswersAreOwn
<1>1. IInv => AnswersAreOwn
  BY DEF IInv, Calls, Places, AnswersAreOwn
<1> QED
  BY <1>1, Invariance, PTL

(* Neither "Already waiting for" nor a KeyError ends a call, though the    *)
(* table is looked at without the lock.                                    *)
THEOREM CallsDoNotRaise == Spec => []NoCallRaises
<1>1. IInv => NoCallRaises
  BY DEF IInv, Calls, Places, NoCallRaises
<1> QED
  BY <1>1, Invariance, PTL
------------------------------------------------------------------------------
(* Every step is one of RemoteCalls or changes nothing of it.              *)
LEMMA StepImplements ==
  ASSUME IInv, NEW t \in Threads, Step(t)
  PROVE  [Remote!Next]_(Remote!callVars)
<1> USE DEF InTable, callVars, wireVars
<1>1. CASE Pop(t)
  <2>1. pc[t] = "pop" /\ Registered(t) /\ request[t].id \in flags
    BY <1>1 DEF Pop, Goto, Fails, Registered, IInv, Calls, Places
  <2>2. /\ pc' = [pc EXCEPT ![t] = "idle"]
        /\ request' = [request EXCEPT ![t] = None]
        /\ requests' = requests /\ executed' = executed
    BY <1>1, <2>1, EntryOfCall DEF Pop, Goto, Returned
  <2>3. Remote!Return(t)
    BY <2>1, <2>2 DEF Remote!Return, Remote!Executed, IInv, TypeOK, Calls, FlagsOfExecuted,
       InLog
  <2> QED
    BY <2>3 DEF Remote!Next
<1>2. CASE ~Pop(t)
  <2>1. /\ InCall(t)
        /\ \E to : pc' = [pc EXCEPT ![t] = to] /\ to # "idle"
        /\ UNCHANGED <<requests, request, executed>>
    BY <1>2 DEF Step, Check, Register, Lookup, Wake, Goto, Fails, InCall
  <2> QED
    BY <2>1 DEF Remote!callVars, InCall, IInv, TypeOK
<1> QED
  BY <1>1, <1>2

LEMMA SendRequestImplements ==
  ASSUME IInv, NEW t \in Threads, NEW name, SendRequest(t, name), executed' = executed
  PROVE  Remote!Call(t)
BY DEF SendRequest, Goto, Remote!Call, IInv, TypeOK

LEMMA NextImplements ==
  ASSUME IInv, [Next]_vars
  PROVE  [Remote!Next]_(Remote!callVars)
<1>1. CASE \E c \in Callers : Call(c)
  <2>1. PICK c \in Callers : Call(c)
    BY <1>1
  <2>2. c \in Threads /\ Remote!Call(c)
    BY <2>1, SendRequestImplements DEF Call, Threads, wireVars
  <2> QED
    BY <2>2 DEF Remote!Next
<1>2. CASE DispatchNotice
  <2>1. Dispatcher \in Threads /\ Remote!Call(Dispatcher)
    BY <1>2, SendRequestImplements DEF DispatchNotice, Threads, wireVars
  <2> QED
    BY <2>1 DEF Remote!Next
<1>3. CASE \E t \in Threads : Step(t)
  BY <1>3, StepImplements
<1>4. CASE \E r \in omm : Execute(r)
  <2>1. PICK r \in omm : Execute(r)
    BY <1>4
  <2>2. r.id \in 1 .. requests /\ ~InLog(r.id)
    BY <2>1, AwaitedIsMade DEF IInv, Wire, AtOmm
  <2>3. Remote!Execute(r.id)
    BY <2>1, <2>2 DEF Execute, Remote!Execute, Remote!Executed, InLog, callVars, threadVars
  <2> QED
    BY <2>2, <2>3 DEF Remote!Next
<1>5. CASE Notice \/ Close \/ WorkerSend \/ WorkerReceive \/ WorkerDies
  BY <1>5 DEF Notice, Close, WorkerSend, WorkerReceive, WorkerDies, WorkerCannotDecode,
     WorkerIsReset, Remote!callVars, callVars, threadVars, wireVars
<1>6. CASE DispatchGarbage \/ DispatchResponse
  BY <1>6 DEF DispatchGarbage, DispatchResponse, TakeResponse, Remote!callVars, callVars,
     threadVars, wireVars
<1>7. CASE UNCHANGED vars
  BY <1>7 DEF vars, callVars, threadVars, wireVars, Remote!callVars
<1> QED
  BY <1>1, <1>2, <1>3, <1>4, <1>5, <1>6, <1>7 DEF Next, Dispatch

(* What threads, queues and table do together is a remote call: executed   *)
(* once, and returned from only afterwards.                                *)
THEOREM TransportImplementsCalls == Spec => ImplementsRemoteCalls
<1>1. Init => Remote!Init
  BY DEF Init, Remote!Init
<1> QED
  BY <1>1, NextImplements, Invariance, PTL DEF Spec, ImplementsRemoteCalls, Remote!Spec
------------------------------------------------------------------------------
(* No answer is lost.                                                      *)

Healthy == dispatcher # "dead" /\ worker = "runs" /\ connection = "open"

(* The dispatcher, once dead, is not in a call it could come back from.    *)
DispatcherCalls == InCall(Dispatcher) => dispatcher = "subscribes"

(* The event of the OMM is the answer to no request, and a read that is    *)
(* whole is of one message.                                                *)
ReadsAreWhole ==
  /\ \A j \in 1 .. Len(stream) : stream[j].key = NoticeKey => stream[j].to = 0
  /\ \A j \in 1 .. Len(recvq) : recvq[j].whole = "yes" =>
       /\ Len(recvq[j].messages) = 1
       /\ recvq[j].messages[1].key = NoticeKey => recvq[j].messages[1].to = 0

Settled(i) == OnTheWay(i) \/ i \in dropped \/ i \in flags

Pending(t) == pc[t] \in {"check", "register", "lookup", "wait"}

AInv == IInv /\ DispatcherCalls /\ ReadsAreWhole /\ Accounted

LEMMA AccountedIs ==
  Accounted <=> (Healthy => \A t \in Threads : Pending(t) => Settled(request[t].id))
BY DEF Accounted, Healthy, Pending, Settled

LEMMA AppendedItem ==
  ASSUME NEW S, NEW s \in Seq(S), NEW e \in S
  PROVE  /\ Len(s) \in Nat /\ Len(Append(s, e)) = Len(s) + 1
         /\ \A j \in 1 .. Len(s) : j \in 1 .. Len(Append(s, e)) /\ Append(s, e)[j] = s[j]
         /\ Len(s) + 1 \in 1 .. Len(Append(s, e)) /\ Append(s, e)[Len(s) + 1] = e
         /\ \A j \in 1 .. Len(Append(s, e)) : j \in 1 .. Len(s) \/ j = Len(s) + 1
BY AppendProperties, LenProperties

(* A step of a thread in its call.                                         *)
LEMMA StepIs ==
  ASSUME IInv, NEW t \in Threads, Step(t)
  PROVE  /\ UNCHANGED <<sendq, omm, stream, recvq, dropped, flags, worker, connection>>
         /\ InCall(t)
         /\ pc' = [pc EXCEPT ![t] = pc'[t]]
         /\ pc'[t] # "idle" => (Pending(t)' => Pending(t)) /\ UNCHANGED request
         /\ request' = [request EXCEPT ![t] = request'[t]]
         /\ dispatcher' \in {dispatcher, "runs"}
         /\ dispatcher' # dispatcher => t = Dispatcher
         /\ pc'[Dispatcher] # "idle" => dispatcher' = dispatcher
<1> USE DEF InTable, callVars, wireVars
<1>1. Dispatcher \in Threads
  BY DEF Threads
<1>2. CASE Check(t)
  <2>1. pc'[t] # "raised"
    BY <1>2, CheckPreserves DEF IInv, Calls, Places
  <2>2. Goto(t, "check", "register") /\ UNCHANGED dispatcher
    BY <1>2, <2>1 DEF Check, Fails, Goto, IInv, TypeOK
  <2> QED
    BY <1>2, <2>2 DEF Check, Goto, InCall, Pending, IInv, TypeOK
<1>3. CASE Register(t)
  BY <1>3 DEF Register, Goto, InCall, Pending, IInv, TypeOK
<1>4. CASE Lookup(t)
  <2>1. pc'[t] # "raised"
    BY <1>4, LookupPreserves DEF IInv, Calls, Places
  <2>2. Goto(t, "lookup", "wait") /\ UNCHANGED dispatcher
    BY <1>4, <2>1 DEF Lookup, Fails, Goto, IInv, TypeOK
  <2> QED
    BY <1>4, <2>2 DEF Lookup, Goto, InCall, Pending, IInv, TypeOK
<1>5. CASE Wake(t)
  <2>1. pc'[t] # "raised"
    BY <1>5, WakePreserves DEF IInv, Calls, Places
  <2>2. Goto(t, "wait", "pop") /\ UNCHANGED dispatcher
    BY <1>5, <2>1 DEF Wake, Fails, Goto, IInv, TypeOK
  <2> QED
    BY <1>5, <2>2 DEF Wake, Goto, InCall, Pending, IInv, TypeOK
<1>6. CASE Pop(t)
  <2>1. pc'[t] # "raised"
    BY <1>6, PopPreserves DEF IInv, Calls, Places
  <2>2. /\ Goto(t, "pop", "idle") /\ Returned(t)
        /\ dispatcher' = IF t = Dispatcher THEN "runs" ELSE dispatcher
    BY <1>6, <2>1 DEF Pop, Fails, Goto, IInv, TypeOK
  <2>3. pc[t] = "pop" /\ pc' = [pc EXCEPT ![t] = "idle"] /\ pc'[t] = "idle"
    BY <2>2 DEF Goto, IInv, TypeOK
  <2>4. request' = [request EXCEPT ![t] = None] /\ request'[t] = None
    BY <2>2 DEF Returned, IInv, TypeOK
  <2>5. UNCHANGED <<sendq, omm, stream, recvq, dropped, flags, worker, connection>>
    BY <1>6 DEF Pop
  <2> QED
    BY <1>1, <2>2, <2>3, <2>4, <2>5 DEF InCall
<1> QED
  BY <1>2, <1>3, <1>4, <1>5, <1>6 DEF Step

(* Each queue hands on what it held.                                       *)
LEMMA SentStays ==
  ASSUME IInv, NEW i, Settled(i), WorkerSend, Healthy'
  PROVE  Settled(i)'
<1> USE DEF threadVars, tableVars
<1>1. /\ Len(sendq) \in Nat /\ Len(sendq') = Len(sendq) - 1
      /\ \A j \in 1 .. Len(sendq') : sendq'[j] = sendq[j + 1]
      /\ Head(sendq) = sendq[1]
  BY HeadTailProperties, LenProperties, EmptySeq DEF IInv, TypeOK, WorkerSend
<1>2. omm' = omm \cup {sendq[1]}
  BY <1>1 DEF WorkerSend, Healthy
<1>3. ASSUME NEW j \in 1 .. Len(sendq), sendq[j].id = i
      PROVE  OnTheWay(i)'
  <2>1. CASE j = 1
    BY <1>2, <1>3, <2>1 DEF OnTheWay
  <2>2. CASE j # 1
    <3>1. j - 1 \in 1 .. Len(sendq') /\ sendq'[j - 1].id = i
      BY <1>1, <1>3, <2>2
    <3> QED
      BY <3>1 DEF OnTheWay
  <2> QED
    BY <2>1, <2>2
<1>4. (\E r \in omm : r.id = i) => OnTheWay(i)'
  BY <1>2 DEF OnTheWay
<1>5. UNCHANGED <<stream, recvq, flags, dropped>>
  BY DEF WorkerSend
<1> QED
  BY <1>3, <1>4, <1>5 DEF Settled, OnTheWay

LEMMA ExecutedStays ==
  ASSUME IInv, NEW i, Settled(i), NEW r \in omm, Execute(r)
  PROVE  Settled(i)'
<1> USE DEF callVars, threadVars, tableVars
<1> DEFINE new == Message(r.id, r.key)
<1>1. new \in Messages /\ new.to = r.id
  BY DEF Message, Messages, Requests, Ids, IInv, TypeOK
<1>2. stream \in Seq(Messages) /\ stream' = Append(stream, new) /\ omm' = omm \ {r}
  BY DEF IInv, TypeOK, Execute
<1> HIDE DEF new
<1>3. /\ \A j \in 1 .. Len(stream) : j \in 1 .. Len(stream') /\ stream'[j] = stream[j]
      /\ Len(stream) + 1 \in 1 .. Len(stream') /\ stream'[Len(stream) + 1] = new
  BY <1>1, <1>2, AppendedItem
<1>4. InItems(stream, i) => InItems(stream', i)
  BY <1>3 DEF InItems
<1>5. (\E q \in omm : q.id = i) => InItems(stream', i) \/ \E q \in omm' : q.id = i
  BY <1>1, <1>2, <1>3 DEF InItems
<1>6. UNCHANGED <<sendq, recvq, flags, dropped>>
  BY DEF Execute
<1> QED
  BY <1>4, <1>5, <1>6 DEF Settled, OnTheWay

LEMMA ReadStays ==
  ASSUME IInv, NEW i, Settled(i), WorkerReceive
  PROVE  Settled(i)'
<1> USE DEF callVars, threadVars, tableVars
<1>1. PICK n \in 1 .. Len(stream), whole \in {"yes", "no"} :
        /\ recvq' = Append(recvq, [whole |-> whole, messages |-> SubSeq(stream, 1, n)])
        /\ stream' = SubSeq(stream, n + 1, Len(stream))
  BY DEF WorkerReceive
<1> DEFINE new == [whole |-> whole, messages |-> SubSeq(stream, 1, n)]
<1>2. /\ stream \in Seq(Messages) /\ Len(stream) \in Nat
      /\ \A j \in 1 .. Len(stream) : stream[j] \in Messages
  BY LenProperties, ElementOfSeq DEF IInv, TypeOK
<1>3. /\ Len(stream') = Len(stream) - n
      /\ \A j \in 1 .. Len(stream') : stream'[j] = stream[n + j]
  <2>1. n + 1 \in Int /\ \A j \in n + 1 .. Len(stream) : stream[j] \in Messages
    BY <1>2
  <2> HIDE DEF new
  <2> QED
    BY <1>1, <1>2, <2>1, SubSeqProperties
<1>4. /\ new.messages \in Seq(Messages) /\ Len(new.messages) = n
      /\ \A j \in 1 .. n : new.messages[j] = stream[j]
  BY <1>2, SubSeqProperties
<1>5. new \in Reads /\ recvq \in Seq(Reads) /\ recvq' = Append(recvq, new)
  BY <1>1, <1>4 DEF Reads, IInv, TypeOK
<1> HIDE DEF new
<1>6. /\ \A j \in 1 .. Len(recvq) : j \in 1 .. Len(recvq') /\ recvq'[j] = recvq[j]
      /\ Len(recvq) + 1 \in 1 .. Len(recvq') /\ recvq'[Len(recvq) + 1] = new
  BY <1>5, AppendedItem
<1>7. ASSUME NEW j \in 1 .. Len(stream), stream[j].to = i
      PROVE  OnTheWay(i)'
  <2>1. CASE j <= n
    <3>1. InItems(recvq'[Len(recvq) + 1].messages, i)
      BY <1>4, <1>6, <1>7, <2>1 DEF InItems
    <3> QED
      BY <1>6, <3>1 DEF OnTheWay
  <2>2. CASE ~(j <= n)
    <3>1. j - n \in 1 .. Len(stream') /\ stream'[j - n] = stream[j]
      BY <1>2, <1>3, <2>2
    <3> QED
      BY <1>7, <3>1 DEF OnTheWay, InItems
  <2> QED
    BY <2>1, <2>2
<1>8. \A j \in 1 .. Len(recvq) : InItems(recvq[j].messages, i) => OnTheWay(i)'
  BY <1>6 DEF OnTheWay, InItems
<1>9. UNCHANGED <<sendq, omm, flags, dropped>>
  BY DEF WorkerReceive
<1> QED
  BY <1>7, <1>8, <1>9 DEF Settled, OnTheWay, InItems

(* The dispatcher takes the item; what it was goes into the table, or is   *)
(* dropped.                                                                *)
LEMMA TakenStays ==
  ASSUME IInv, NEW i, OnTheWay(i), TakeItem, UNCHANGED <<omm, stream>>,
         sendq' = sendq \/ \E e \in Requests : sendq' = Append(sendq, e)
  PROVE  OnTheWay(i)' \/ InItems(Head(recvq).messages, i)
<1>1. /\ recvq \in Seq(Reads) /\ Len(recvq) \in Nat /\ Len(recvq) > 0
      /\ Len(recvq') = Len(recvq) - 1
      /\ \A j \in 1 .. Len(recvq') : recvq'[j] = recvq[j + 1]
      /\ Head(recvq) = recvq[1]
  BY HeadTailProperties, LenProperties, EmptySeq DEF IInv, TypeOK, TakeItem
<1>2. ASSUME NEW j \in 1 .. Len(recvq), InItems(recvq[j].messages, i)
      PROVE  OnTheWay(i)' \/ InItems(Head(recvq).messages, i)
  <2>1. CASE j = 1
    BY <1>1, <1>2, <2>1
  <2>2. CASE j # 1
    <3>1. j - 1 \in 1 .. Len(recvq') /\ recvq'[j - 1] = recvq[j]
      BY <1>1, <2>2
    <3> QED
      BY <1>2, <3>1 DEF OnTheWay, InItems
  <2> QED
    BY <2>1, <2>2
<1>3. \A j \in 1 .. Len(sendq) : j \in 1 .. Len(sendq') /\ sendq'[j] = sendq[j]
  <2>1. CASE sendq' = sendq
    BY <2>1
  <2>2. ASSUME NEW e \in Requests, sendq' = Append(sendq, e)
        PROVE  \A j \in 1 .. Len(sendq) : j \in 1 .. Len(sendq') /\ sendq'[j] = sendq[j]
    BY <2>2, AppendedItem DEF IInv, TypeOK
  <2> QED
    BY <2>1, <2>2
<1> QED
  BY <1>2, <1>3 DEF OnTheWay, InItems

LEMMA RespondedStays ==
  ASSUME IInv, ReadsAreWhole, NEW i, Settled(i), DispatchResponse
  PROVE  Settled(i)'
<1> USE DEF callVars, threadVars, wireVars
<1>1. /\ TakeItem /\ UNCHANGED <<sendq, omm, stream>> /\ 1 \in 1 .. Len(recvq)
      /\ Head(recvq) = recvq[1] /\ recvq[1].whole = "yes" /\ WasRead(1) /\ Item = ReadAt(1)
  BY TakeItemFacts DEF DispatchResponse, TakeResponse, WholeMessage, Item, WasRead, ReadAt,
                       IsAnswer
<1>2. InItems(Head(recvq).messages, i) => i = Item.to
  <2>1. Len(recvq[1].messages) = 1
    BY <1>1 DEF ReadsAreWhole
  <2> QED
    BY <1>1, <2>1 DEF InItems, ReadAt
<1>3. /\ flags \subseteq flags' /\ dropped \subseteq dropped'
      /\ Item.to \in flags' \cup dropped'
  <2>1. CASE Drop(Item.key, Item.to)
    BY <2>1 DEF Drop
  <2>2. CASE Respond(Item.key, Item.to)
    <3>1. Awaited(Item.to, Item.key)
      BY <1>1 DEF IInv, Wire, Received
    <3>2. PICK t \in Threads : InCall(t) /\ request[t].id = Item.to /\ request[t].key = Item.key
      BY <3>1 DEF Awaited
    <3>3. Item.key \in Keys
      BY <3>1, AwaitedIsMade
    <3>4. PICK u \in Threads : Registered(u) /\ request[u].key = Item.key
      BY <2>2, <3>3 DEF Respond, IInv, Calls, TableOfCalls
    <3>5. u = t
      BY <3>2, <3>4 DEF IInv, Calls, OwnRequests, InCall, Registered
    <3>6. entry[Item.key].event = Item.to
      BY <3>2, <3>4, <3>5, EntryOfCall DEF Entry
    <3> QED
      BY <2>2, <3>6 DEF Respond
  <2> QED
    BY <2>1, <2>2 DEF DispatchResponse
<1> QED
  BY <1>1, <1>2, <1>3, TakenStays DEF Settled

LEMMA NoticedStays ==
  ASSUME IInv, ReadsAreWhole, NEW i, i # 0, Settled(i), DispatchNotice
  PROVE  Settled(i)'
<1> USE DEF wireVars, tableVars
<1>1. /\ TakeItem /\ UNCHANGED <<omm, stream, flags, dropped>> /\ 1 \in 1 .. Len(recvq)
      /\ Head(recvq) = recvq[1] /\ recvq[1].whole = "yes"
      /\ recvq[1].messages[1].key = NoticeKey
  BY TakeItemFacts DEF DispatchNotice, WholeMessage, Item
<1>2. ~InItems(Head(recvq).messages, i)
  <2>1. Len(recvq[1].messages) = 1 /\ recvq[1].messages[1].to = 0
    BY <1>1 DEF ReadsAreWhole
  <2> QED
    BY <1>1, <2>1 DEF InItems
<1>3. sendq' = Append(sendq, request'[Dispatcher]) /\ request'[Dispatcher] \in Requests
  <2>1. "Subscribe" \in OwnNames(Dispatcher) /\ Dispatcher \in Threads
    BY DEF Threads, OwnNames
  <2>2. InCall(Dispatcher)' /\ RequestsMade'
    BY <1>1, <2>1, SendRequestPreserves
       DEF DispatchNotice, Calls, SendRequest, Goto, InCall, IInv, TypeOK
  <2> QED
    BY <2>1, <2>2 DEF DispatchNotice, SendRequest, RequestsMade
<1> QED
  BY <1>1, <1>2, <1>3, TakenStays DEF Settled

LEMMA HealthStays ==
  ASSUME IInv, DispatcherCalls, [Next]_vars
  PROVE  (Healthy' => Healthy) /\ DispatcherCalls'
<1> USE DEF callVars, threadVars, wireVars, tableVars
<1>1. Dispatcher \in Threads /\ \A c \in Callers : c \in Threads /\ c # Dispatcher
  BY ThreadsAssumption DEF Threads
<1>2. ASSUME NEW c \in Callers, Call(c)
      PROVE  (Healthy' => Healthy) /\ DispatcherCalls'
  <2>1. pc' = [pc EXCEPT ![c] = "check"] /\ UNCHANGED <<dispatcher, worker, connection>>
    BY <1>2 DEF Call, SendRequest, Goto
  <2> QED
    BY <1>1, <2>1 DEF Healthy, DispatcherCalls, InCall, IInv, TypeOK
<1>3. ASSUME NEW t \in Threads, Step(t)
      PROVE  (Healthy' => Healthy) /\ DispatcherCalls'
  <2>1. /\ UNCHANGED <<worker, connection>> /\ InCall(t)
        /\ pc' = [pc EXCEPT ![t] = pc'[t]]
        /\ dispatcher' # dispatcher => t = Dispatcher
        /\ pc'[Dispatcher] # "idle" => dispatcher' = dispatcher
    BY <1>3, StepIs
  <2> QED
    BY <1>1, <2>1 DEF Healthy, DispatcherCalls, InCall, IInv, TypeOK
<1>4. CASE \E r \in omm : Execute(r)
  BY <1>4 DEF Execute, Healthy, DispatcherCalls, InCall
<1>5. CASE Notice \/ Close \/ WorkerSend \/ WorkerReceive \/ WorkerDies
  BY <1>5 DEF Notice, Close, WorkerSend, WorkerReceive, WorkerDies, WorkerCannotDecode,
     WorkerIsReset, Healthy, DispatcherCalls, InCall
<1>6. CASE DispatchGarbage
  BY <1>6 DEF DispatchGarbage, TakeItem, Healthy, DispatcherCalls, InCall
<1>7. CASE DispatchResponse
  BY <1>7 DEF DispatchResponse, TakeResponse, Healthy, DispatcherCalls, InCall
<1>8. CASE DispatchNotice
  BY <1>8 DEF DispatchNotice, TakeItem, Healthy, DispatcherCalls
<1>9. CASE UNCHANGED vars
  BY <1>9 DEF vars, Healthy, DispatcherCalls, InCall
<1> QED
  BY <1>2, <1>3, <1>4, <1>5, <1>6, <1>7, <1>8, <1>9 DEF Next, Dispatch

LEMMA SettledStays ==
  ASSUME IInv, ReadsAreWhole, [Next]_vars, Healthy', NEW i, i # 0, Settled(i)
  PROVE  Settled(i)'
<1> USE DEF callVars, threadVars, wireVars, tableVars
<1>1. ASSUME NEW c \in Callers, Call(c)
      PROVE  Settled(i)'
  <2>1. /\ UNCHANGED <<omm, stream, recvq, flags, dropped>>
        /\ sendq' = Append(sendq, request'[c])
    BY <1>1 DEF Call, SendRequest
  <2>2. request'[c] \in Requests
    <3>1. c \in Threads /\ InCall(c)' /\ RequestsMade'
      BY <1>1, CallPreserves
         DEF Call, SendRequest, Goto, InCall, Threads, IInv, TypeOK, Calls
    <3> QED
      BY <3>1 DEF RequestsMade
  <2>3. \A j \in 1 .. Len(sendq) : j \in 1 .. Len(sendq') /\ sendq'[j] = sendq[j]
    BY <2>1, <2>2, AppendedItem DEF IInv, TypeOK
  <2> QED
    BY <2>1, <2>3 DEF Settled, OnTheWay, InItems
<1>2. ASSUME NEW t \in Threads, Step(t)
      PROVE  Settled(i)'
  BY <1>2, StepIs DEF Settled, OnTheWay, InItems
<1>3. CASE Notice
  <2>1. /\ UNCHANGED <<sendq, omm, recvq, flags, dropped>>
        /\ stream' = Append(stream, Message(0, NoticeKey))
        /\ stream \in Seq(Messages) /\ Message(0, NoticeKey) \in Messages
    BY <1>3, BoundsAssumption DEF Notice, Message, Messages, IInv, TypeOK
  <2>2. \A j \in 1 .. Len(stream) : j \in 1 .. Len(stream') /\ stream'[j] = stream[j]
    BY <2>1, AppendedItem
  <2> QED
    BY <2>1, <2>2 DEF Settled, OnTheWay, InItems
<1>4. CASE Close
  BY <1>4 DEF Close, Settled, OnTheWay, InItems
<1>5. CASE DispatchGarbage \/ WorkerDies
  BY <1>5 DEF DispatchGarbage, WorkerDies, WorkerCannotDecode, WorkerIsReset, Healthy
<1>6. CASE UNCHANGED vars
  BY <1>6 DEF vars, Settled, OnTheWay, InItems
<1> QED
  BY <1>1, <1>2, <1>3, <1>4, <1>5, <1>6, SentStays, ExecutedStays, ReadStays,
     RespondedStays, NoticedStays DEF Next, Dispatch

(* A thread that waits waited before, for the same, or has just put its    *)
(* request into the queue.                                                 *)
LEMMA PendingCalls ==
  ASSUME IInv, [Next]_vars, NEW t \in Threads, Pending(t)',
         NEW i, i = request'[t].id
  PROVE  \/ Pending(t) /\ request[t].id = i
         \/ OnTheWay(i)'
<1> USE DEF callVars, threadVars, wireVars
<1>1. ASSUME NEW u \in Threads, NEW name \in OwnNames(u), SendRequest(u, name), IInv'
      PROVE  \/ Pending(t) /\ request[t].id = i
             \/ OnTheWay(i)'
  <2>1. CASE u = t
    <3>1. request'[t] \in Requests
      BY <1>1, <2>1 DEF SendRequest, Goto, IInv, TypeOK, Calls, RequestsMade, InCall
    <3>2. sendq' = Append(sendq, request'[t]) /\ sendq \in Seq(Requests)
      BY <1>1, <2>1 DEF SendRequest, IInv, TypeOK
    <3>3. Len(sendq) + 1 \in 1 .. Len(sendq') /\ sendq'[Len(sendq) + 1] = request'[t]
      BY <3>1, <3>2, AppendedItem
    <3>4. OnTheWay(i)'
      BY <3>3 DEF OnTheWay
    <3> QED
      BY <3>4
  <2>2. CASE u # t
    BY <1>1, <2>2 DEF SendRequest, Goto, Pending, IInv, TypeOK
  <2> QED
    BY <2>1, <2>2
<1>2. IInv'
  BY NextPreserves
<1>3. ASSUME NEW c \in Callers, Call(c)
      PROVE  \/ Pending(t) /\ request[t].id = i
             \/ OnTheWay(i)'
  <2>1. c \in Threads /\ \A name \in Sequenced \cup Plain[c] : name \in OwnNames(c)
    BY ThreadsAssumption DEF Threads, OwnNames
  <2> QED
    BY <1>1, <1>2, <1>3, <2>1 DEF Call
<1>4. CASE DispatchNotice
  <2>1. Dispatcher \in Threads /\ "Subscribe" \in OwnNames(Dispatcher)
    BY DEF Threads, OwnNames
  <2> QED
    BY <1>1, <1>2, <1>4, <2>1 DEF DispatchNotice
<1>5. ASSUME NEW u \in Threads, Step(u)
      PROVE  Pending(t) /\ request[t].id = i
  <2>1. /\ pc' = [pc EXCEPT ![u] = pc'[u]]
        /\ pc'[u] # "idle" => (Pending(u)' => Pending(u)) /\ UNCHANGED request
        /\ request' = [request EXCEPT ![u] = request'[u]]
    BY <1>5, StepIs
  <2>2. CASE u = t
    <3>1. pc'[t] # "idle"
      BY DEF Pending
    <3> QED
      BY <2>1, <2>2, <3>1
  <2>3. CASE u # t
    BY <2>1, <2>3 DEF Pending, IInv, TypeOK
  <2> QED
    BY <2>2, <2>3
<1>6. CASE (\E r \in omm : Execute(r)) \/ Notice \/ Close
  BY <1>6 DEF Execute, Notice, Close, Pending
<1>7. CASE WorkerSend \/ WorkerReceive \/ WorkerDies
  BY <1>7 DEF WorkerSend, WorkerReceive, WorkerDies, WorkerCannotDecode, WorkerIsReset, Pending
<1>8. CASE DispatchGarbage \/ DispatchResponse
  BY <1>8 DEF DispatchGarbage, DispatchResponse, TakeResponse, Pending
<1>9. CASE UNCHANGED vars
  BY <1>9 DEF vars, Pending
<1> QED
  BY <1>3, <1>4, <1>5, <1>6, <1>7, <1>8, <1>9 DEF Next, Dispatch

LEMMA NoNameIsNoticed == \A k \in Keys : k # NoticeKey
BY NamesAssumption DEF Keys, Names, NoticeKey

LEMMA ReadsStayWhole ==
  ASSUME IInv, ReadsAreWhole, [Next]_vars
  PROVE  ReadsAreWhole'
<1> USE DEF callVars, threadVars, wireVars, tableVars
<1>1. ASSUME NEW r \in omm, Execute(r)
      PROVE  ReadsAreWhole'
  <2>1. /\ Message(r.id, r.key) \in Messages /\ Message(r.id, r.key).key # NoticeKey
        /\ stream \in Seq(Messages) /\ stream' = Append(stream, Message(r.id, r.key))
    BY <1>1, NoNameIsNoticed DEF Message, Messages, Requests, Ids, IInv, TypeOK, Execute
  <2>2. \A j \in 1 .. Len(stream') :
          stream'[j] = Message(r.id, r.key) \/ (j \in 1 .. Len(stream) /\ stream'[j] = stream[j])
    BY <2>1, AppendedItem
  <2> QED
    BY <1>1, <2>1, <2>2 DEF Execute, ReadsAreWhole, NoticeKey
<1>2. CASE Notice
  <2> DEFINE new == Message(0, NoticeKey)
  <2>1. /\ new \in Messages /\ new.to = 0
        /\ stream \in Seq(Messages) /\ stream' = Append(stream, new)
    BY <1>2, BoundsAssumption DEF Notice, Message, Messages, IInv, TypeOK
  <2> HIDE DEF new
  <2>2. \A j \in 1 .. Len(stream') :
          stream'[j] = new \/ (j \in 1 .. Len(stream) /\ stream'[j] = stream[j])
    BY <2>1, AppendedItem
  <2> QED
    BY <1>2, <2>1, <2>2 DEF Notice, ReadsAreWhole, NoticeKey
<1>3. CASE WorkerReceive
  <2>1. PICK n \in 1 .. Len(stream), whole \in {"yes", "no"} :
          /\ whole = "yes" => n = 1
          /\ recvq' = Append(recvq, [whole |-> whole, messages |-> SubSeq(stream, 1, n)])
          /\ stream' = SubSeq(stream, n + 1, Len(stream))
    BY <1>3 DEF WorkerReceive
  <2> DEFINE new == [whole |-> whole, messages |-> SubSeq(stream, 1, n)]
  <2>2. /\ stream \in Seq(Messages) /\ Len(stream) \in Nat
        /\ \A j \in 1 .. Len(stream) : stream[j] \in Messages
    BY LenProperties, ElementOfSeq DEF IInv, TypeOK
  <2>3. \A j \in 1 .. Len(stream') : n + j \in 1 .. Len(stream) /\ stream'[j] = stream[n + j]
    <3>1. n + 1 \in Int /\ \A j \in n + 1 .. Len(stream) : stream[j] \in Messages
      BY <2>2
    <3> HIDE DEF new
    <3>2. /\ Len(stream') = Len(stream) - n
          /\ \A j \in 1 .. Len(stream') : stream'[j] = stream[n + j]
      BY <2>1, <2>2, <3>1, SubSeqProperties
    <3> QED
      BY <2>2, <3>2
  <2>4. /\ new.messages \in Seq(Messages) /\ Len(new.messages) = n
        /\ new.messages[1] = stream[1] /\ new.whole = whole
    BY <2>2, SubSeqProperties
  <2>5. new \in Reads /\ recvq \in Seq(Reads) /\ recvq' = Append(recvq, new)
    BY <2>1, <2>4 DEF Reads, IInv, TypeOK
  <2> HIDE DEF new
  <2>6. \A j \in 1 .. Len(recvq') :
          recvq'[j] = new \/ (j \in 1 .. Len(recvq) /\ recvq'[j] = recvq[j])
    BY <2>5, AppendedItem
  <2>7. new.whole = "yes" =>
          Len(new.messages) = 1 /\ (new.messages[1].key = NoticeKey => new.messages[1].to = 0)
    BY <2>1, <2>2, <2>4 DEF ReadsAreWhole
  <2> QED
    BY <2>3, <2>6, <2>7 DEF ReadsAreWhole, NoticeKey
<1>4. CASE Dispatch
  <2>1. TakeItem /\ UNCHANGED stream
    BY <1>4 DEF Dispatch, DispatchGarbage, DispatchResponse, TakeResponse, DispatchNotice
  <2>2. \A j \in 1 .. Len(recvq') : j + 1 \in 1 .. Len(recvq) /\ recvq'[j] = recvq[j + 1]
    BY <2>1, HeadTailProperties, LenProperties, EmptySeq DEF IInv, TypeOK, TakeItem
  <2> QED
    BY <2>1, <2>2 DEF ReadsAreWhole, NoticeKey
<1>5. ASSUME UNCHANGED <<stream, recvq>>
      PROVE  ReadsAreWhole'
  BY <1>5 DEF ReadsAreWhole, NoticeKey
<1>6. CASE \E t \in Threads : Step(t)
  BY <1>5, <1>6, StepIs
<1>7. CASE (\E c \in Callers : Call(c)) \/ Close \/ WorkerSend \/ WorkerIsReset
             \/ UNCHANGED vars
  BY <1>5, <1>7 DEF Call, Close, WorkerSend, WorkerIsReset, vars
<1>8. CASE WorkerCannotDecode
  <2>1. PICK n \in 1 .. Len(stream) : stream' = SubSeq(stream, n + 1, Len(stream))
    BY <1>8 DEF WorkerCannotDecode
  <2>2. \A j \in 1 .. Len(stream') : n + j \in 1 .. Len(stream) /\ stream'[j] = stream[n + j]
    BY <2>1, SuffixIs DEF IInv, TypeOK
  <2> QED
    BY <1>8, <2>2 DEF WorkerCannotDecode, ReadsAreWhole, NoticeKey
<1> QED
  BY <1>1, <1>2, <1>3, <1>4, <1>6, <1>7, <1>8 DEF Next, WorkerDies

LEMMA AInvStays ==
  ASSUME AInv, [Next]_vars
  PROVE  AInv'
<1>1. IInv' /\ DispatcherCalls' /\ ReadsAreWhole' /\ (Healthy' => Healthy)
  BY NextPreserves, HealthStays, ReadsStayWhole DEF AInv
<1>2. ASSUME Healthy', NEW t \in Threads, Pending(t)', NEW i, i = request'[t].id
      PROVE  Settled(i)'
  <2>1. i # 0
    BY <1>1, <1>2 DEF Pending, IInv, Calls, RequestsMade, InCall, Requests, Ids
  <2>2. CASE Pending(t) /\ request[t].id = i
    <3>1. Settled(i)
      BY <1>1, <1>2, <2>2, AccountedIs DEF AInv
    <3> QED
      BY <1>2, <2>1, <3>1, SettledStays DEF AInv
  <2>3. CASE OnTheWay(i)'
    BY <2>3 DEF Settled
  <2> QED
    BY <1>2, <2>2, <2>3, PendingCalls DEF AInv
<1>3. Accounted'
  BY <1>2 DEF Accounted, Healthy, Pending, Settled
<1> QED
  BY <1>1, <1>3 DEF AInv

(* The client itself loses no answer: as long as both threads live and the *)
(* connection is open, a request that is waited for is in one of the       *)
(* queues, answered in the table, or was answered before its caller        *)
(* registered.                                                             *)
THEOREM NoAnswerIsLost == Spec => []Accounted
<1>1. Init => AInv
  <2>1. Init => Accounted
    BY DEF Init, Accounted
  <2>2. Init => ReadsAreWhole
    BY EmptySeq DEF Init, ReadsAreWhole
  <2>3. Init => DispatcherCalls
    BY DEF Init, DispatcherCalls, InCall, Threads
  <2> QED
    BY <2>1, <2>2, <2>3, InitEstablishes DEF AInv
<1>2. AInv => Accounted
  BY DEF AInv
<1> QED
  BY <1>1, <1>2, AInvStays, PTL DEF Spec
==============================================================================
