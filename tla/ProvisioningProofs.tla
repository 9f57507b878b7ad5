-------------------------- MODULE ProvisioningProofs --------------------------
(***************************************************************************)
(* Proofs about Provisioning, for every number of extensions, users,       *)
(* passwords, events and crashes.                                          *)
(*                                                                         *)
(* The properties speak of the times between events.  The invariant says   *)
(* what the stores may be like at any time: the numbers the event does not *)
(* concern are as Guru3 asked; those it does are in a state that some run  *)
(* of its handler, cut off anywhere, may have left; and the statements     *)
(* this run has behind it, which can be told from those it has still to    *)
(* run, have done their work.  When none is left, that work is what the    *)
(* event asked for.                                                        *)
(***************************************************************************)
EXTENDS Provisioning, SequenceTheorems, TLAPS

(* The OMM keeps one user per number, and the cache names users it has,    *)
(* each under one number; what the numbers are, a spill may have changed.  *)
OneUserPerNumber ==
  \A u1, u2 \in Uids : Exists(u1) /\ Exists(u2) /\ omm[u1].num = omm[u2].num => u1 = u2

CachedUsersExist ==
  \A n \in Numbers : users[n] # None =>
    /\ Exists(users[n])
    /\ \A m \in Numbers : users[m] = users[n] => m = n

EventIsPossible ==
  event # None /\ event.kind = "rename" => served[event.number] # None /\ served[event.to] = None

(* What a handler of the event may have still to run.                      *)
DectRests ==
  {<<"OmmUpdate">>, <<"AsteriskDelete", "AsteriskCreate", "OmmCreate">>,
   <<"AsteriskCreate", "OmmCreate">>, <<"OmmCreate">>, <<>>}

UpdateRests(type) ==
  CASE type = "SIP" -> {SipStatements, <<"AsteriskUpsert">>, <<>>}
    [] type = "DECT" -> DectRests
    [] type = "GROUP" ->
         {GroupStatements, <<"AsteriskDelete", "CallgroupUpsert">>, <<"CallgroupUpsert">>, <<>>}
    [] type = "OTHER" -> {<<"OmmDelete", "AsteriskDelete">>, <<"AsteriskDelete">>, <<>>}

Rests(e) ==
  CASE e.kind = "update" -> UpdateRests(e.type)
    [] e.kind = "delete" ->
         {DeleteStatements, <<"OmmDelete", "CallgroupDelete">>, <<"CallgroupDelete">>, <<>>}
    [] e.kind = "rename" ->
         {RenameStatements, <<"OmmMove", "CallgroupMove">>, <<"CallgroupMove">>, <<>>}
    [] e.kind = "members" -> {<<"FetchMembers", "SyncMembers">>, <<"SyncMembers">>, <<>>}

(* In the pass over a callgroup's members the rows of those it has looked  *)
(* at are as the event asks, the others as they were fetched.              *)
InPass ==
  \A ext \in Numbers :
    <<ext, event.number>> \in members <=>
      IF ext \in todo THEN ext \in current ELSE ext \in event.active

PassFits ==
  process = "handling" /\ event.kind = "members" =>
    \/ plan = <<"FetchMembers", "SyncMembers">>
    \/ plan = <<"SyncMembers">> /\ InPass
    \/ plan = <<>> /\ InPass /\ todo = {}

PlanFits ==
  /\ process # "handling" => plan = <<>>
  /\ process = "handling" => event # None /\ plan \in Rests(event)
  /\ plan = <<"OmmUpdate">> => users[event.number] # None
  /\ plan = <<"OmmCreate">> => sipPassword \in Generated
  /\ PassFits

Structure ==
  TypeOK /\ OneUserPerNumber /\ CachedUsersExist /\ EventIsPossible /\ PlanFits

(* The stores hold what Guru3 asked for the number.                        *)
Settled(n) ==
  /\ accounts[n] # None <=> Type(n) \in {"SIP", "DECT"}
  /\ Type(n) = "SIP" => accounts[n] = served[n].version
  /\ NumberTaken(n) <=> Type(n) = "DECT"
  /\ Type(n) = "GROUP" => callgroups[n] = served[n].version
  /\ callgroups[n] # None => served[n] # None
  /\ \A uid \in Uids :
       Exists(uid) /\ omm[uid].num = n =>
         accounts[n] = omm[uid].sipPw /\ served[n].version = omm[uid].info

Concerns(e, n) ==
  \/ e.kind # "members" /\ n = e.number
  \/ e.kind = "rename" /\ n = e.to

OthersAreSettled ==
  \A n \in Numbers : event = None \/ ~Concerns(event, n) => Settled(n)

(* A half-done DECT update: a user that is there has the password of the   *)
(* account.  A half-done rename: whatever the old number had is at one of  *)
(* the two.                                                                *)
DectPending(n) ==
  \A uid \in Uids : Exists(uid) /\ omm[uid].num = n => accounts[n] = omm[uid].sipPw

AccountMoving(n, m) ==
  /\ accounts[n] = None \/ accounts[m] = None
  /\ accounts[n] # None \/ accounts[m] # None <=> Type(n) \in {"SIP", "DECT"}
  /\ Type(n) = "SIP" => served[n].version \in {accounts[n], accounts[m]}

UserMoving(n, m) ==
  /\ ~(NumberTaken(n) /\ NumberTaken(m))
  /\ NumberTaken(n) \/ NumberTaken(m) <=> Type(n) = "DECT"
  /\ \A uid \in Uids :
       Exists(uid) /\ omm[uid].num \in {n, m} =>
         omm[uid].sipPw \in {accounts[n], accounts[m]} /\ served[n].version = omm[uid].info

CallgroupMoving(n, m) ==
  /\ callgroups[n] = None \/ callgroups[m] = None
  /\ Type(n) = "GROUP" => served[n].version \in {callgroups[n], callgroups[m]}

PendingIsConsistent ==
  event # None =>
    /\ event.kind = "update" /\ event.type = "DECT" => DectPending(event.number)
    /\ event.kind = "rename" => /\ AccountMoving(event.number, event.to)
                                /\ UserMoving(event.number, event.to)
                                /\ CallgroupMoving(event.number, event.to)

(* What the statements already run have done.                              *)
UpdateProgress(n, type, version) ==
  /\ type = "SIP" =>
       /\ Len(plan) < 2 => ~NumberTaken(n)
       /\ Len(plan) < 1 => accounts[n] = version
  /\ type = "DECT" =>
       /\ Len(plan) > 0 /\ plan # <<"OmmUpdate">> => ~NumberTaken(n)
       /\ Len(plan) = 2 => accounts[n] = None
       /\ plan = <<"OmmCreate">> => accounts[n] = sipPassword
       /\ plan = <<>> => \E uid \in Uids : Exists(uid) /\ omm[uid].num = n
                                                       /\ omm[uid].info = version
  /\ type = "GROUP" =>
       /\ Len(plan) < 3 => ~NumberTaken(n)
       /\ Len(plan) < 2 => accounts[n] = None
       /\ Len(plan) < 1 => callgroups[n] = version
  /\ type = "OTHER" =>
       /\ Len(plan) < 2 => ~NumberTaken(n)
       /\ Len(plan) < 1 => accounts[n] = None

DeleteProgress(n) ==
  /\ Len(plan) < 3 => accounts[n] = None
  /\ Len(plan) < 2 => ~NumberTaken(n)
  /\ Len(plan) < 1 => callgroups[n] = None

RenameProgress(n) ==
  /\ Len(plan) < 3 => accounts[n] = None
  /\ Len(plan) < 2 => ~NumberTaken(n)
  /\ Len(plan) < 1 => callgroups[n] = None

Progress ==
  process = "handling" =>
    /\ event.kind = "update" => UpdateProgress(event.number, event.type, event.version)
    /\ event.kind = "delete" => DeleteProgress(event.number)
    /\ event.kind = "rename" => RenameProgress(event.number)

IInv ==
  /\ Structure
  /\ Clean => CacheMatchesOmm /\ OthersAreSettled /\ PendingIsConsistent /\ Progress
------------------------------------------------------------------------------
(* Lemmas about events and plans.                                          *)

LEMMA EventFields ==
  ASSUME NEW e \in Events
  PROVE  /\ e # None
         /\ e.number \in Numbers
         /\ \/ e.kind = "update" /\ e.type \in Types /\ e.version \in Versions
            \/ e.kind = "delete"
            \/ e.kind = "rename" /\ e.to \in Numbers
            \/ e.kind = "members" /\ e.active \in SUBSET Numbers
BY NoneAssumption DEF Events

LEMMA Tails ==
  /\ \A s \in Statements : Tail(<<s>>) = <<>>
  /\ Tail(SipStatements) = <<"AsteriskUpsert">>
  /\ Tail(GroupStatements) = <<"AsteriskDelete", "CallgroupUpsert">>
  /\ Tail(DeleteStatements) = <<"OmmDelete", "CallgroupDelete">>
  /\ Tail(RenameStatements) = <<"OmmMove", "CallgroupMove">>
  /\ Tail(<<"AsteriskDelete", "AsteriskCreate", "OmmCreate">>) = <<"AsteriskCreate", "OmmCreate">>
  /\ Tail(<<"AsteriskCreate", "OmmCreate">>) = <<"OmmCreate">>
  /\ Tail(<<"AsteriskDelete", "CallgroupUpsert">>) = <<"CallgroupUpsert">>
  /\ Tail(<<"OmmDelete", "AsteriskDelete">>) = <<"AsteriskDelete">>
  /\ Tail(<<"OmmDelete", "CallgroupDelete">>) = <<"CallgroupDelete">>
  /\ Tail(<<"OmmMove", "CallgroupMove">>) = <<"CallgroupMove">>
  /\ Tail(<<"FetchMembers", "SyncMembers">>) = <<"SyncMembers">>
<1>1. \A s \in Statements : Tail(<<s>>) = <<>>
  OBVIOUS
<1>2. Tail(SipStatements) = <<"AsteriskUpsert">>
  BY DEF SipStatements
<1>3. Tail(GroupStatements) = <<"AsteriskDelete", "CallgroupUpsert">>
  BY DEF GroupStatements
<1>4. Tail(DeleteStatements) = <<"OmmDelete", "CallgroupDelete">>
  BY DEF DeleteStatements
<1>5. Tail(RenameStatements) = <<"OmmMove", "CallgroupMove">>
  BY DEF RenameStatements
<1>6. Tail(<<"AsteriskDelete", "AsteriskCreate", "OmmCreate">>) = <<"AsteriskCreate", "OmmCreate">>
  OBVIOUS
<1>7. Tail(<<"AsteriskCreate", "OmmCreate">>) = <<"OmmCreate">>
  OBVIOUS
<1>8. Tail(<<"AsteriskDelete", "CallgroupUpsert">>) = <<"CallgroupUpsert">>
  OBVIOUS
<1>9. Tail(<<"OmmDelete", "AsteriskDelete">>) = <<"AsteriskDelete">>
  OBVIOUS
<1>10. Tail(<<"OmmDelete", "CallgroupDelete">>) = <<"CallgroupDelete">>
  OBVIOUS
<1>11. Tail(<<"OmmMove", "CallgroupMove">>) = <<"CallgroupMove">>
  OBVIOUS
<1>12. Tail(<<"FetchMembers", "SyncMembers">>) = <<"SyncMembers">>
  OBVIOUS
<1> QED
  BY <1>1, <1>2, <1>3, <1>4, <1>5, <1>6, <1>7, <1>8, <1>9, <1>10, <1>11, <1>12

(* A handler runs its statements in their order: what is left is one of    *)
(* the rests, and the next statement tells which.                          *)
LEMMA UpdateTails ==
  ASSUME NEW type \in Types, NEW p \in UpdateRests(type), p # <<>>
  PROVE  Tail(p) \in UpdateRests(type)
<1>1. {"AsteriskUpsert", "OmmUpdate", "OmmCreate", "CallgroupUpsert", "AsteriskDelete"} \subseteq Statements
  BY DEF Statements
<1>2. CASE type = "SIP"
  BY Zenon, <1>1, <1>2, Tails DEF UpdateRests
<1>3. CASE type = "DECT"
  BY <1>1, <1>3, Tails DEF UpdateRests, DectRests
<1>4. CASE type = "GROUP"
  BY <1>1, <1>4, Tails DEF UpdateRests
<1>5. CASE type = "OTHER"
  BY <1>1, <1>5, Tails DEF UpdateRests
<1> QED
  BY <1>2, <1>3, <1>4, <1>5 DEF Types

LEMMA PlanTails ==
  ASSUME NEW e \in Events, NEW p \in Rests(e), p # <<>>
  PROVE  Tail(p) \in Rests(e)
<1>1. {"CallgroupDelete", "CallgroupMove", "SyncMembers"} \subseteq Statements
  BY DEF Statements
<1>2. CASE e.kind = "update"
  BY <1>2, EventFields, UpdateTails DEF Rests
<1>3. CASE e.kind = "delete"
  BY <1>1, <1>3, Tails DEF Rests
<1>4. CASE e.kind = "rename"
  BY <1>1, <1>4, Tails DEF Rests
<1>5. CASE e.kind = "members"
  BY <1>1, <1>5, Tails DEF Rests
<1> QED
  BY <1>2, <1>3, <1>4, <1>5, EventFields

LEMMA UpdateRestsAreSequences ==
  ASSUME NEW type \in Types
  PROVE  UpdateRests(type) \subseteq Seq(Statements)
<1> USE DEF Statements
<1>1. CASE type = "SIP"
  <2>1. {SipStatements, <<"AsteriskUpsert">>, <<>>} \subseteq Seq(Statements)
    <3>1. SipStatements \in Seq(Statements)
      BY DEF SipStatements
    <3>2. <<"AsteriskUpsert">> \in Seq(Statements) /\ <<>> \in Seq(Statements)
      OBVIOUS
    <3> QED
      BY <3>1, <3>2
  <2> QED
    BY <1>1, <2>1 DEF UpdateRests
<1>2. CASE type = "DECT"
  <2>1. <<"OmmUpdate">> \in Seq(Statements) /\ <<>> \in Seq(Statements)
    OBVIOUS
  <2>2. <<"AsteriskDelete", "AsteriskCreate", "OmmCreate">> \in Seq(Statements)
    OBVIOUS
  <2>3. <<"AsteriskCreate", "OmmCreate">> \in Seq(Statements)
    OBVIOUS
  <2>4. <<"OmmCreate">> \in Seq(Statements)
    OBVIOUS
  <2> QED
    BY <1>2, <2>1, <2>2, <2>3, <2>4 DEF UpdateRests, DectRests
<1>3. CASE type = "GROUP"
  <2>1. GroupStatements \in Seq(Statements)
    BY DEF GroupStatements
  <2>2. <<"AsteriskDelete", "CallgroupUpsert">> \in Seq(Statements)
    OBVIOUS
  <2>3. <<"CallgroupUpsert">> \in Seq(Statements) /\ <<>> \in Seq(Statements)
    OBVIOUS
  <2> QED
    BY <1>3, <2>1, <2>2, <2>3 DEF UpdateRests
<1>4. CASE type = "OTHER"
  <2>1. <<"OmmDelete", "AsteriskDelete">> \in Seq(Statements)
    OBVIOUS
  <2>2. <<"AsteriskDelete">> \in Seq(Statements) /\ <<>> \in Seq(Statements)
    OBVIOUS
  <2> QED
    BY <1>4, <2>1, <2>2 DEF UpdateRests
<1> QED
  BY <1>1, <1>2, <1>3, <1>4 DEF Types

LEMMA RestsAreSequences ==
  ASSUME NEW e \in Events
  PROVE  Rests(e) \subseteq Seq(Statements)
<1> USE DEF Statements
<1>1. CASE e.kind = "update"
  BY <1>1, EventFields, UpdateRestsAreSequences DEF Rests
<1>2. CASE e.kind = "delete"
  <2>1. DeleteStatements \in Seq(Statements)
    BY DEF DeleteStatements
  <2>2. <<"OmmDelete", "CallgroupDelete">> \in Seq(Statements)
    OBVIOUS
  <2>3. <<"CallgroupDelete">> \in Seq(Statements) /\ <<>> \in Seq(Statements)
    OBVIOUS
  <2> QED
    BY <1>2, <2>1, <2>2, <2>3 DEF Rests
<1>3. CASE e.kind = "rename"
  <2>1. RenameStatements \in Seq(Statements)
    BY DEF RenameStatements
  <2>2. <<"OmmMove", "CallgroupMove">> \in Seq(Statements)
    OBVIOUS
  <2>3. <<"CallgroupMove">> \in Seq(Statements) /\ <<>> \in Seq(Statements)
    OBVIOUS
  <2> QED
    BY <1>3, <2>1, <2>2, <2>3 DEF Rests
<1>4. CASE e.kind = "members"
  <2>1. <<"FetchMembers", "SyncMembers">> \in Seq(Statements)
    OBVIOUS
  <2>2. <<"SyncMembers">> \in Seq(Statements) /\ <<>> \in Seq(Statements)
    OBVIOUS
  <2> QED
    BY <1>4, <2>1, <2>2 DEF Rests
<1> QED
  BY <1>1, <1>2, <1>3, <1>4, EventFields

LEMMA UpdatePlan ==
  ASSUME NEW e \in Events, NEW p \in Rests(e), p # <<>>
  PROVE  /\ Head(p) = "AsteriskUpsert" =>
              e.kind = "update" /\ e.type = "SIP" /\ p = <<"AsteriskUpsert">>
         /\ Head(p) = "AsteriskCreate" =>
              e.kind = "update" /\ e.type = "DECT" /\ p = <<"AsteriskCreate", "OmmCreate">>
         /\ Head(p) = "OmmCreate" =>
              e.kind = "update" /\ e.type = "DECT" /\ p = <<"OmmCreate">>
         /\ Head(p) = "OmmUpdate" =>
              e.kind = "update" /\ e.type = "DECT" /\ p = <<"OmmUpdate">>
         /\ Head(p) = "CallgroupUpsert" =>
              e.kind = "update" /\ e.type = "GROUP" /\ p = <<"CallgroupUpsert">>
BY EventFields DEF Rests, UpdateRests, DectRests, Types, SipStatements, GroupStatements,
                   DeleteStatements, RenameStatements

LEMMA DeletionPlan ==
  ASSUME NEW e \in Events, NEW p \in Rests(e), p # <<>>
  PROVE  /\ Head(p) = "AsteriskDelete" =>
              \/ e.kind = "update" /\ e.type = "DECT"
                   /\ p = <<"AsteriskDelete", "AsteriskCreate", "OmmCreate">>
              \/ e.kind = "update" /\ e.type = "GROUP"
                   /\ p = <<"AsteriskDelete", "CallgroupUpsert">>
              \/ e.kind = "update" /\ e.type = "OTHER" /\ p = <<"AsteriskDelete">>
              \/ e.kind = "delete" /\ p = DeleteStatements
         /\ Head(p) = "OmmDelete" =>
              \/ e.kind = "update" /\ e.type = "SIP" /\ p = SipStatements
              \/ e.kind = "update" /\ e.type = "GROUP" /\ p = GroupStatements
              \/ e.kind = "update" /\ e.type = "OTHER" /\ p = <<"OmmDelete", "AsteriskDelete">>
              \/ e.kind = "delete" /\ p = <<"OmmDelete", "CallgroupDelete">>
         /\ Head(p) = "CallgroupDelete" => e.kind = "delete" /\ p = <<"CallgroupDelete">>
BY EventFields DEF Rests, UpdateRests, DectRests, Types, SipStatements, GroupStatements,
                   DeleteStatements, RenameStatements

LEMMA RenamePlan ==
  ASSUME NEW e \in Events, NEW p \in Rests(e), p # <<>>
  PROVE  /\ Head(p) = "AsteriskMove" => e.kind = "rename" /\ p = RenameStatements
         /\ Head(p) = "OmmMove" => e.kind = "rename" /\ p = <<"OmmMove", "CallgroupMove">>
         /\ Head(p) = "CallgroupMove" => e.kind = "rename" /\ p = <<"CallgroupMove">>
         /\ Head(p) = "FetchMembers" =>
              e.kind = "members" /\ p = <<"FetchMembers", "SyncMembers">>
         /\ Head(p) = "SyncMembers" => e.kind = "members" /\ p = <<"SyncMembers">>
BY EventFields DEF Rests, UpdateRests, DectRests, Types, SipStatements, GroupStatements,
                   DeleteStatements, RenameStatements
------------------------------------------------------------------------------
LEMMA InitEstablishes == Init => IInv
<1> SUFFICES ASSUME Init PROVE IInv
  OBVIOUS
<1>1. \A n \in Numbers : served[n] = None /\ accounts[n] = None /\ callgroups[n] = None
                                         /\ users[n] = None
  BY DEF Init, Nowhere
<1>2. \A uid \in Uids : ~Exists(uid)
  BY DEF Init, Exists
<1>3. Structure
  <2>1. TypeOK
    BY BoundsAssumption, EmptySeq DEF Init, TypeOK, Nowhere, NoChanges
  <2>2. OneUserPerNumber /\ CachedUsersExist /\ EventIsPossible
    BY <1>1, <1>2 DEF Init, OneUserPerNumber, CachedUsersExist, EventIsPossible
  <2>3. PlanFits
    BY DEF Init, PlanFits, PassFits
  <2> QED
    BY <2>1, <2>2, <2>3 DEF Structure
<1>4. CacheMatchesOmm
  BY <1>1, <1>2, NoneAssumption DEF CacheMatchesOmm
<1>5. OthersAreSettled
  BY <1>1, <1>2 DEF OthersAreSettled, Settled, Type, NumberTaken
<1>6. PendingIsConsistent /\ Progress
  BY DEF Init, PendingIsConsistent, Progress
<1> QED
  BY <1>3, <1>4, <1>5, <1>6 DEF IInv

(* A number whose row, callgroup and user stay is settled as before.       *)
LEMMA UntouchedStaysSettled ==
  ASSUME NEW n \in Numbers, Settled(n),
         served'[n] = served[n], accounts'[n] = accounts[n], callgroups'[n] = callgroups[n],
         \A uid \in Uids :
           /\ omm'[uid] # None /\ omm'[uid].num = n <=> omm[uid] # None /\ omm[uid].num = n
           /\ omm[uid] # None /\ omm[uid].num = n => omm'[uid] = omm[uid]
  PROVE  Settled(n)'
BY DEF Settled, Type, NumberTaken, Exists

(* What a process that dies keeps.                                         *)
LEMMA DiePreserves ==
  ASSUME IInv, Die, UNCHANGED <<guru3Vars, asteriskVars, omm, spilled>>,
         crashes' \in 0 .. MaxCrashes
  PROVE  IInv'
<1> USE DEF Die, HandlerEnds, guru3Vars, asteriskVars
<1>1. Structure'
  <2>1. TypeOK'
    BY EmptySeq DEF IInv, Structure, TypeOK, Nowhere, NoChanges
  <2>2. OneUserPerNumber' /\ EventIsPossible'
    BY DEF IInv, Structure, OneUserPerNumber, EventIsPossible, Exists
  <2>3. CachedUsersExist'
    BY DEF CachedUsersExist, Nowhere
  <2>4. PlanFits'
    BY DEF PlanFits, PassFits
  <2> QED
    BY <2>1, <2>2, <2>3, <2>4 DEF Structure
<1>2. ASSUME Clean'
      PROVE  CacheMatchesOmm' /\ OthersAreSettled' /\ PendingIsConsistent' /\ Progress'
  <2>1. OthersAreSettled /\ PendingIsConsistent
    BY <1>2 DEF IInv, Clean
  <2>2. CacheMatchesOmm' /\ Progress'
    BY DEF CacheMatchesOmm, Progress
  <2>3. OthersAreSettled'
    BY <2>1, UntouchedStaysSettled DEF OthersAreSettled, Concerns
  <2>4. PendingIsConsistent'
    BY <2>1 DEF PendingIsConsistent, DectPending, AccountMoving, UserMoving, CallgroupMoving,
                NumberTaken, Exists, Type
  <2> QED
    BY <2>2, <2>3, <2>4
<1> QED
  BY <1>1, <1>2 DEF IInv

LEMMA CrashPreserves == ASSUME IInv, Crash PROVE IInv'
<1>1. crashes' \in 0 .. MaxCrashes
  BY BoundsAssumption DEF IInv, Structure, TypeOK, Crash
<1> QED
  BY <1>1, DiePreserves DEF Crash

LEMMA RaisePreserves == ASSUME IInv, Raise PROVE IInv'
<1>1. crashes' \in 0 .. MaxCrashes
  BY DEF IInv, Structure, TypeOK, Raise
<1> QED
  BY <1>1, DiePreserves DEF Raise

LEMMA CreatePreserves == ASSUME IInv, Create PROVE IInv'
<1> USE DEF asteriskVars, ommVars, passVars
<1>1. /\ event = None /\ event' \in Events /\ event' # None
      /\ event'.kind = "rename" => served[event'.number] # None /\ served[event'.to] = None
      /\ process # "handling" /\ plan = <<>>
  BY EventFields DEF Create, PossibleEvents, IInv, Structure, PlanFits, PassFits
<1>2. Structure'
  <2>1. TypeOK'
    BY <1>1, BoundsAssumption DEF Create, IInv, Structure, TypeOK
  <2>2. OneUserPerNumber' /\ CachedUsersExist' /\ EventIsPossible'
    BY <1>1 DEF Create, IInv, Structure, OneUserPerNumber, CachedUsersExist,
                EventIsPossible, Exists
  <2>3. PlanFits'
    BY <1>1 DEF Create, PlanFits, PassFits
  <2> QED
    BY <2>1, <2>2, <2>3 DEF Structure
<1>3. ASSUME Clean'
      PROVE  CacheMatchesOmm' /\ OthersAreSettled' /\ PendingIsConsistent' /\ Progress'
  <2>1. CacheMatchesOmm /\ \A n \in Numbers : Settled(n)
    BY <1>1, <1>3 DEF Create, IInv, Clean, OthersAreSettled
  <2>2. CacheMatchesOmm' /\ Progress'
    <3>1. CacheMatchesOmm'
      BY <2>1 DEF Create, CacheMatchesOmm, Exists, Clean
    <3>2. Progress'
      BY <1>1 DEF Create, Progress
    <3> QED
      BY <3>1, <3>2
  <2>3. OthersAreSettled'
    BY <2>1, UntouchedStaysSettled DEF Create, OthersAreSettled
  <2>4. ASSUME event'.kind = "update"
        PROVE  DectPending(event.number)'
    BY <1>1, <2>1, <2>4, EventFields DEF Create, DectPending, Settled, Exists
  <2>5. ASSUME event'.kind = "rename"
        PROVE  /\ AccountMoving(event.number, event.to)'
               /\ UserMoving(event.number, event.to)'
               /\ CallgroupMoving(event.number, event.to)'
    <3> DEFINE n == event'.number
               m == event'.to
    <3>1. /\ n \in Numbers /\ m \in Numbers /\ Settled(n) /\ Settled(m)
          /\ Type(m) = "OTHER"
      BY <1>1, <2>1, <2>5, EventFields DEF Type
    <3>2. accounts[m] = None /\ ~NumberTaken(m) /\ callgroups[m] = None
      BY <1>1, <2>5, <3>1 DEF Settled
    <3> QED
      BY <3>1, <3>2 DEF Create, AccountMoving, UserMoving, CallgroupMoving, Settled,
                        NumberTaken, Exists, Type
  <2> QED
    BY <2>2, <2>3, <2>4, <2>5 DEF PendingIsConsistent
<1> QED
  BY <1>2, <1>3 DEF IInv
------------------------------------------------------------------------------
(* The process between events.                                             *)

LEMMA RestartPreserves == ASSUME IInv, Restart PROVE IInv'
<1> USE DEF guru3Vars, asteriskVars, passVars
<1>1. /\ \A n \in Numbers : users'[n] =
             IF NumberTaken(n) THEN CHOOSE uid \in Uids : Exists(uid) /\ omm[uid].num = n
                               ELSE None
      /\ users' = [n \in Numbers |-> users'[n]]
  BY DEF Restart
<1>2. ASSUME NEW n \in Numbers
      PROVE  /\ NumberTaken(n) => /\ users'[n] \in Uids
                                  /\ Exists(users'[n]) /\ omm[users'[n]].num = n
             /\ ~NumberTaken(n) => users'[n] = None
  BY <1>1 DEF NumberTaken
<1>3. Structure'
  <2>1. users' \in [Numbers -> Uids \cup {None}]
    BY <1>1, <1>2
  <2>2. TypeOK'
    BY <2>1 DEF Restart, IInv, Structure, TypeOK
  <2>3. OneUserPerNumber' /\ EventIsPossible'
    BY DEF Restart, IInv, Structure, OneUserPerNumber, EventIsPossible, Exists
  <2>4. CachedUsersExist'
    BY <1>2 DEF Restart, CachedUsersExist, Exists
  <2>5. PlanFits'
    BY DEF Restart, IInv, Structure, PlanFits, PassFits
  <2> QED
    BY <2>2, <2>3, <2>4, <2>5 DEF Structure
<1>4. ASSUME Clean'
      PROVE  CacheMatchesOmm' /\ OthersAreSettled' /\ PendingIsConsistent' /\ Progress'
  <2>1. OthersAreSettled /\ PendingIsConsistent
    BY <1>4 DEF Restart, IInv, Clean
  <2>2. CacheMatchesOmm'
    <3>1. \A n \in Numbers, uid \in Uids :
            users'[n] = uid <=> Exists(uid) /\ omm[uid].num = n
      BY <1>2, NoneAssumption DEF IInv, Structure, OneUserPerNumber, NumberTaken
    <3> QED
      BY <3>1 DEF Restart, CacheMatchesOmm, Exists
  <2>3. OthersAreSettled'
    BY <2>1, UntouchedStaysSettled DEF Restart, OthersAreSettled, Concerns
  <2>4. PendingIsConsistent' /\ Progress'
    BY <2>1 DEF Restart, PendingIsConsistent, DectPending, AccountMoving, UserMoving,
                CallgroupMoving, NumberTaken, Exists, Type, Progress
  <2> QED
    BY <2>2, <2>3, <2>4
<1> QED
  BY <1>3, <1>4 DEF IInv

LEMMA Lengths ==
  /\ Len(SipStatements) = 2 /\ Len(GroupStatements) = 3
  /\ Len(DeleteStatements) = 3 /\ Len(RenameStatements) = 3
  /\ Len(<<"AsteriskDelete", "AsteriskCreate", "OmmCreate">>) = 3
  /\ Len(<<"AsteriskCreate", "OmmCreate">>) = 2 /\ Len(<<"OmmCreate">>) = 1
  /\ Len(<<"AsteriskDelete", "CallgroupUpsert">>) = 2 /\ Len(<<"CallgroupUpsert">>) = 1
  /\ Len(<<"OmmDelete", "AsteriskDelete">>) = 2 /\ Len(<<"AsteriskDelete">>) = 1
  /\ Len(<<"OmmDelete", "CallgroupDelete">>) = 2 /\ Len(<<"CallgroupDelete">>) = 1
  /\ Len(<<"OmmMove", "CallgroupMove">>) = 2 /\ Len(<<"CallgroupMove">>) = 1
  /\ Len(<<"AsteriskUpsert">>) = 1 /\ Len(<<"OmmUpdate">>) = 1 /\ Len(<<>>) = 0
BY DEF SipStatements, GroupStatements, DeleteStatements, RenameStatements

(* A handler starts with a plan that is one of the rests, and only that of *)
(* a DECT update looks at the cache.                                       *)
LEMMA HandlerPlan ==
  ASSUME NEW e \in Events
  PROVE  /\ Handler(e) \in Rests(e)
         /\ Handler(e) = <<"OmmUpdate">> => users[e.number] # None
         /\ e.kind = "update" /\ e.type = "SIP" => Len(Handler(e)) = 2
         /\ e.kind = "update" /\ e.type = "DECT" =>
              \/ Handler(e) = <<"OmmUpdate">>
              \/ users[e.number] = None /\ Len(Handler(e)) = 3
         /\ e.kind = "update" /\ e.type = "GROUP" => Len(Handler(e)) = 3
         /\ e.kind = "update" /\ e.type = "OTHER" => Len(Handler(e)) = 2
         /\ e.kind \in {"delete", "rename"} => Len(Handler(e)) = 3
         /\ e.kind = "members" => Handler(e) = <<"FetchMembers", "SyncMembers">>
         /\ Handler(e) # <<>> /\ Handler(e) # <<"OmmCreate">>
<1>1. CASE e.kind = "update"
  <2>1. CASE e.type = "SIP"
    BY <1>1, <2>1, Lengths
       DEF Handler, UpdateStatements, Rests, UpdateRests, SipStatements
  <2>2. CASE e.type = "DECT"
    BY <1>1, <2>2
       DEF Handler, UpdateStatements, DectStatements, Rests, UpdateRests, DectRests
  <2>3. CASE e.type = "GROUP"
    BY <1>1, <2>3, Lengths
       DEF Handler, UpdateStatements, Rests, UpdateRests, GroupStatements
  <2>4. CASE e.type = "OTHER"
    BY <1>1, <2>4 DEF Handler, UpdateStatements, Rests, UpdateRests
  <2> QED
    BY <1>1, <2>1, <2>2, <2>3, <2>4, EventFields DEF Types
<1>2. CASE e.kind = "delete"
  BY <1>2, Lengths DEF Handler, Rests, DeleteStatements
<1>3. CASE e.kind = "rename"
  BY <1>3, Lengths DEF Handler, Rests, RenameStatements
<1>4. CASE e.kind = "members"
  BY <1>4 DEF Handler, Rests
<1> QED
  BY <1>1, <1>2, <1>3, <1>4, EventFields

LEMMA StartEventPreserves == ASSUME IInv, StartEvent PROVE IInv'
<1> USE DEF guru3Vars, asteriskVars, ommVars, passVars
<1>1. event \in Events /\ event.number \in Numbers /\ process = "idle"
  BY EventFields DEF StartEvent, IInv, Structure, TypeOK
<1>2. /\ plan' \in Rests(event) /\ plan' \in Seq(Statements)
      /\ plan' # <<>> /\ plan' # <<"OmmCreate">>
      /\ plan' = <<"OmmUpdate">> => users[event.number] # None
      /\ event.kind = "members" => plan' = <<"FetchMembers", "SyncMembers">>
  BY <1>1, HandlerPlan, RestsAreSequences DEF StartEvent
<1>3. Structure'
  <2>1. TypeOK'
    BY <1>2 DEF StartEvent, IInv, Structure, TypeOK
  <2>2. OneUserPerNumber' /\ CachedUsersExist' /\ EventIsPossible'
    BY DEF StartEvent, IInv, Structure, OneUserPerNumber, CachedUsersExist, EventIsPossible,
           Exists
  <2>3. PlanFits'
    <3>1. process' = "handling" /\ event' = event /\ event # None /\ users' = users
      BY DEF StartEvent
    <3>2. event' # None /\ plan' \in Rests(event)'
      BY <1>2, <3>1 DEF Rests
    <3> QED
      BY <1>2, <3>1, <3>2 DEF PlanFits, PassFits
  <2> QED
    BY <2>1, <2>2, <2>3 DEF Structure
<1>4. ASSUME Clean'
      PROVE  CacheMatchesOmm' /\ OthersAreSettled' /\ PendingIsConsistent' /\ Progress'
  <2>1. CacheMatchesOmm /\ OthersAreSettled /\ PendingIsConsistent
    BY <1>4 DEF StartEvent, IInv, Clean
  <2>2. CacheMatchesOmm'
    BY <1>1, <2>1 DEF StartEvent, CacheMatchesOmm, Exists, Clean
  <2>3. OthersAreSettled'
    BY <2>1, UntouchedStaysSettled DEF StartEvent, OthersAreSettled, Concerns
  <2>4. PendingIsConsistent'
    BY <2>1 DEF StartEvent, PendingIsConsistent, DectPending, AccountMoving, UserMoving,
                CallgroupMoving, NumberTaken, Exists, Type
  <2>5. Progress'
    <3>1. users[event.number] = None => ~NumberTaken(event.number)
      BY <1>1, <1>4, <2>1, NoneAssumption
         DEF StartEvent, CacheMatchesOmm, NumberTaken, Clean
    <3>2. ~NumberTaken(event.number) => ~NumberTaken(event.number)'
      BY DEF StartEvent, NumberTaken, Exists
    <3>3. event' = event /\ plan' = Handler(event)
      BY DEF StartEvent
    <3>4. event.kind = "update" => UpdateProgress(event.number, event.type, event.version)'
      <4>1. /\ plan' # <<>> /\ plan' # <<"OmmCreate">>
            /\ event.kind = "update" =>
                 /\ event.type = "SIP" => Len(plan') = 2
                 /\ event.type = "DECT" =>
                      \/ plan' = <<"OmmUpdate">>
                      \/ users[event.number] = None /\ Len(plan') = 3
                 /\ event.type = "GROUP" => Len(plan') = 3
                 /\ event.type = "OTHER" => Len(plan') = 2
        BY <1>1, <1>2, <3>3, HandlerPlan
      <4>2. Len(<<"OmmUpdate">>) = 1
        BY Lengths
      <4>3. CASE event.type = "DECT"
        <5>1. CASE plan' = <<"OmmUpdate">>
          BY <3>3, <4>1, <4>2, <4>3, <5>1 DEF UpdateProgress
        <5>2. CASE plan' # <<"OmmUpdate">>
          BY <3>1, <3>2, <3>3, <4>1, <4>3, <5>2 DEF UpdateProgress
        <5> QED
          BY <5>1, <5>2
      <4>4. CASE event.type \in {"SIP", "GROUP", "OTHER"}
        BY <3>3, <4>1, <4>4 DEF UpdateProgress
      <4> QED
        BY <1>1, <4>3, <4>4, EventFields DEF Types
    <3>5. /\ event.kind = "delete" => DeleteProgress(event.number)'
          /\ event.kind = "rename" => RenameProgress(event.number)'
      BY <1>1, <3>3, HandlerPlan DEF DeleteProgress, RenameProgress
    <3> QED
      BY <3>3, <3>4, <3>5 DEF Progress
  <2> QED
    BY <2>2, <2>3, <2>4, <2>5
<1> QED
  BY <1>3, <1>4 DEF IInv

(* The event is complete: the numbers it concerns are settled, too.        *)
LEMMA ReportPreserves ==
  ASSUME IInv, Report
  PROVE  IInv' /\ (event.kind = "members" => InPass /\ todo = {})
<1> USE DEF asteriskVars, ommVars, HandlerEnds
<1>1. /\ event \in Events /\ event.number \in Numbers
      /\ process = "handling" /\ process' = "idle" /\ plan = <<>> /\ plan' = <<>>
      /\ event' = None /\ served' = ServedAfter(event)
  BY EventFields DEF Report, IInv, Structure, TypeOK, PlanFits, PassFits
<1>2. served' \in [Numbers -> Extensions \cup {None}]
  <2>1. CASE event.kind = "update"
    BY <1>1, <2>1, EventFields DEF ServedAfter, IInv, Structure, TypeOK, Extensions
  <2>2. CASE event.kind = "delete"
    BY <1>1, <2>2 DEF ServedAfter, IInv, Structure, TypeOK
  <2>3. CASE event.kind = "rename"
    BY <1>1, <2>3, EventFields DEF ServedAfter, IInv, Structure, TypeOK
  <2>4. CASE event.kind = "members"
    BY <1>1, <2>4 DEF ServedAfter, IInv, Structure, TypeOK
  <2> QED
    BY <1>1, <2>1, <2>2, <2>3, <2>4, EventFields
<1>3. Structure'
  <2>1. TypeOK'
    BY <1>1, <1>2 DEF Report, IInv, Structure, TypeOK
  <2>2. OneUserPerNumber' /\ CachedUsersExist' /\ EventIsPossible'
    BY <1>1 DEF Report, IInv, Structure, OneUserPerNumber, CachedUsersExist,
                EventIsPossible, Exists
  <2>3. PlanFits'
    BY <1>1 DEF PlanFits, PassFits
  <2> QED
    BY <2>1, <2>2, <2>3 DEF Structure
<1>4. ASSUME Clean'
      PROVE  CacheMatchesOmm' /\ OthersAreSettled' /\ PendingIsConsistent' /\ Progress'
  <2>1. CacheMatchesOmm /\ OthersAreSettled /\ PendingIsConsistent /\ Progress
    BY <1>4 DEF Report, IInv, Clean
  <2>2. CacheMatchesOmm' /\ PendingIsConsistent' /\ Progress'
    <3>1. CacheMatchesOmm'
      BY <1>1, <1>4, <2>1 DEF Report, CacheMatchesOmm, Exists, Clean
    <3> QED
      BY <1>1, <3>1 DEF PendingIsConsistent, Progress
  <2>3. ASSUME NEW n \in Numbers, ~Concerns(event, n)
        PROVE  Settled(n)'
    <3>1. served'[n] = served[n]
      <4>1. CASE event.kind = "update"
        BY <1>1, <2>3, <4>1 DEF ServedAfter, Concerns, IInv, Structure, TypeOK
      <4>2. CASE event.kind = "delete"
        BY <1>1, <2>3, <4>2 DEF ServedAfter, Concerns, IInv, Structure, TypeOK
      <4>3. CASE event.kind = "rename"
        BY <1>1, <2>3, <4>3, EventFields DEF ServedAfter, Concerns, IInv, Structure, TypeOK
      <4>4. CASE event.kind = "members"
        BY <1>1, <4>4 DEF ServedAfter
      <4> QED
        BY <1>1, <4>1, <4>2, <4>3, <4>4, EventFields
    <3> QED
      BY <2>1, <2>3, <3>1, UntouchedStaysSettled DEF Report, OthersAreSettled
  <2>4. ASSUME event.kind = "update"
        PROVE  \A n \in Numbers : n = event.number => Settled(n)'
    <3> SUFFICES ASSUME NEW n \in Numbers, n = event.number
                 PROVE  Settled(n)'
      OBVIOUS
    <3>1. /\ served'[n] = [type |-> event.type, version |-> event.version]
          /\ served'[n] # None /\ served'[n].type = event.type
          /\ served'[n].version = event.version
          /\ event.type \in Types /\ event.version \in Versions
      BY <1>1, <2>4, EventFields, NoneAssumption
         DEF ServedAfter, Extensions, IInv, Structure, TypeOK
    <3>2. UpdateProgress(n, event.type, event.version) /\ Len(plan) = 0
      BY <1>1, <2>1, <2>4 DEF Progress
    <3>3. event.type = "DECT" => DectPending(n)
      BY <1>1, <2>1, <2>4, EventFields DEF PendingIsConsistent
    <3>4. /\ accounts' = accounts /\ callgroups' = callgroups /\ omm' = omm
          /\ event.version # None /\ \A uid \in Uids : Exists(uid) => omm[uid] \in Users
      BY <3>1, NoneAssumption DEF Report, IInv, Structure, TypeOK, Exists
    <3>5. CASE event.type = "SIP"
      BY <3>1, <3>2, <3>4, <3>5
         DEF UpdateProgress, Settled, Type, NumberTaken, Exists
    <3>6. CASE event.type = "DECT"
      <4>1. \A uid \in Uids : Exists(uid) /\ omm[uid].num = n =>
              accounts[n] = omm[uid].sipPw /\ omm[uid].info = event.version
        BY <1>1, <3>2, <3>3, <3>6
           DEF UpdateProgress, DectPending, IInv, Structure, OneUserPerNumber
      <4>2. NumberTaken(n) /\ accounts[n] # None
        BY <1>1, <3>2, <3>4, <3>6, <4>1, NoneAssumption DEF UpdateProgress, NumberTaken, Users
      <4> QED
        BY <3>1, <3>4, <3>6, <4>1, <4>2 DEF Settled, Type, NumberTaken, Exists
    <3>7. CASE event.type = "GROUP"
      BY <3>1, <3>2, <3>4, <3>7
         DEF UpdateProgress, Settled, Type, NumberTaken, Exists
    <3>8. CASE event.type = "OTHER"
      BY <3>1, <3>2, <3>4, <3>8
         DEF UpdateProgress, Settled, Type, NumberTaken, Exists
    <3> QED
      BY <3>1, <3>5, <3>6, <3>7, <3>8 DEF Types
  <2>5. ASSUME event.kind = "delete"
        PROVE  \A n \in Numbers : n = event.number => Settled(n)'
    <3> SUFFICES ASSUME NEW n \in Numbers, n = event.number
                 PROVE  Settled(n)'
      OBVIOUS
    <3>1. served'[n] = None
      BY <1>1, <2>5 DEF ServedAfter, IInv, Structure, TypeOK
    <3>2. DeleteProgress(n) /\ Len(plan) = 0
      BY <1>1, <2>1, <2>5 DEF Progress
    <3> QED
      BY <3>1, <3>2 DEF Report, DeleteProgress, Settled, Type, NumberTaken, Exists
  <2>6. ASSUME event.kind = "rename"
        PROVE  \A n \in Numbers : n \in {event.number, event.to} => Settled(n)'
    <3> DEFINE n == event.number
               m == event.to
    <3>1. /\ n \in Numbers /\ m \in Numbers /\ served[n] # None /\ served[m] = None /\ n # m
          /\ served'[n] = None /\ served'[m] = served[n]
      BY <1>1, <2>6, EventFields
         DEF ServedAfter, IInv, Structure, TypeOK, EventIsPossible
    <3>2. RenameProgress(n) /\ Len(plan) = 0
      BY <1>1, <2>1, <2>6 DEF Progress
    <3>3. accounts[n] = None /\ ~NumberTaken(n) /\ callgroups[n] = None
      BY <3>2 DEF RenameProgress
    <3>4. AccountMoving(n, m) /\ UserMoving(n, m) /\ CallgroupMoving(n, m)
      BY <1>1, <2>1, <2>6, EventFields DEF PendingIsConsistent
    <3>5. ASSUME NEW k \in Numbers, k = n PROVE Settled(k)'
      BY <3>1, <3>3, <3>5 DEF Report, Settled, Type, NumberTaken, Exists
    <3>6. ASSUME NEW k \in Numbers, k = m PROVE Settled(k)'
      <4>1. /\ accounts[k] # None <=> Type(n) \in {"SIP", "DECT"}
            /\ Type(n) = "SIP" => accounts[k] = served[n].version
            /\ NumberTaken(k) <=> Type(n) = "DECT"
            /\ Type(n) = "GROUP" => callgroups[k] = served[n].version
        BY <1>1, <3>1, <3>3, <3>4, <3>6, NoneAssumption
           DEF AccountMoving, UserMoving, CallgroupMoving, Type, IInv, Structure, TypeOK,
               Extensions
      <4>2. \A uid \in Uids : Exists(uid) /\ omm[uid].num = k =>
              accounts[k] = omm[uid].sipPw /\ served[n].version = omm[uid].info
        BY <3>3, <3>4, <3>6, NoneAssumption
           DEF UserMoving, IInv, Structure, TypeOK, Exists, Users
      <4> QED
        BY <3>1, <3>6, <4>1, <4>2 DEF Report, Settled, Type, NumberTaken, Exists
    <3> QED
      BY <3>1, <3>5, <3>6
  <2>7. OthersAreSettled'
    BY <1>1, <2>3, <2>4, <2>5, <2>6, EventFields DEF OthersAreSettled, Concerns
  <2> QED
    BY <2>2, <2>7
<1>5. event.kind = "members" => InPass /\ todo = {}
  BY <1>1 DEF IInv, Structure, PlanFits, PassFits
<1> QED
  BY <1>3, <1>4, <1>5 DEF IInv
------------------------------------------------------------------------------
(* The statements.                                                         *)

LEMMA Running ==
  ASSUME IInv, NEW s \in Statements, Runs(s)
  PROVE  /\ event \in Events /\ event # None /\ event.number \in Numbers
         /\ process = "handling" /\ plan \in Rests(event) /\ plan # <<>> /\ Head(plan) = s
         /\ plan' = Tail(plan) /\ plan' \in Rests(event) /\ plan' \in Seq(Statements)
         /\ process' = process /\ event' = event /\ served' = served
         /\ events' = events /\ crashes' = crashes /\ current' = current /\ todo' = todo
<1>1. process = "handling"
  BY DEF Runs, IsNext, IInv, Structure, PlanFits, PassFits
<1>2. event \in Events /\ event # None /\ event.number \in Numbers
  BY <1>1, EventFields DEF IInv, Structure, TypeOK, PlanFits, PassFits
<1> QED
  BY <1>1, <1>2, PlanTails, RestsAreSequences
     DEF Runs, IsNext, guru3Vars, passVars, IInv, Structure, PlanFits, PassFits

(* A statement on accounts or callgroups leaves users and cache alone.     *)
LEMMA UsersAreKept ==
  ASSUME IInv, UNCHANGED <<omm, users, process, spilled, event, served>>
  PROVE  /\ OneUserPerNumber' /\ CachedUsersExist' /\ EventIsPossible'
         /\ Clean => CacheMatchesOmm'
         /\ \A n \in Numbers :
              (NumberTaken(n)' <=> NumberTaken(n)) /\ (Type(n)' = Type(n))
         /\ \A uid \in Uids : Exists(uid)' <=> Exists(uid)
<1>1. OneUserPerNumber' /\ CachedUsersExist' /\ EventIsPossible'
  BY DEF IInv, Structure, OneUserPerNumber, CachedUsersExist, EventIsPossible, Exists
<1>2. Clean => CacheMatchesOmm'
  BY DEF IInv, CacheMatchesOmm, Exists, Clean
<1> QED
  BY <1>1, <1>2 DEF NumberTaken, Exists, Type

LEMMA AsteriskDeletePreserves == ASSUME IInv, AsteriskDelete PROVE IInv'
<1> USE DEF OnlyAccounts, ommVars
<1> DEFINE n == event.number
<1>1. /\ event \in Events /\ event # None /\ n \in Numbers
      /\ process = "handling" /\ plan' \in Rests(event) /\ plan' \in Seq(Statements)
      /\ process' = process /\ event' = event /\ served' = served
      /\ events' = events /\ crashes' = crashes /\ current' = current /\ todo' = todo
  BY Running DEF AsteriskDelete, Statements
<1>2. \/ /\ event.kind = "update" /\ event.type = "DECT"
         /\ plan = <<"AsteriskDelete", "AsteriskCreate", "OmmCreate">>
         /\ plan' = <<"AsteriskCreate", "OmmCreate">>
      \/ /\ event.kind = "update" /\ event.type = "GROUP"
         /\ plan = <<"AsteriskDelete", "CallgroupUpsert">> /\ plan' = <<"CallgroupUpsert">>
      \/ /\ event.kind = "update" /\ event.type = "OTHER"
         /\ plan = <<"AsteriskDelete">> /\ plan' = <<>>
      \/ /\ event.kind = "delete"
         /\ plan = DeleteStatements /\ plan' = <<"OmmDelete", "CallgroupDelete">>
  BY Running, DeletionPlan, Tails DEF AsteriskDelete, Statements
<1>3. /\ accounts' \in [Numbers -> Versions \cup Generated \cup {None}]
      /\ \A m \in Numbers : accounts'[m] = IF m = n THEN None ELSE accounts[m]
  BY DEF AsteriskDelete, IInv, Structure, TypeOK
<1>4. Structure'
  <2>1. TypeOK'
    BY <1>1, <1>3 DEF AsteriskDelete, IInv, Structure, TypeOK
  <2>2. OneUserPerNumber' /\ CachedUsersExist' /\ EventIsPossible'
    BY <1>1, UsersAreKept DEF AsteriskDelete
  <2>3. PlanFits'
    BY <1>1, <1>2 DEF PlanFits, PassFits, Rests
  <2> QED
    BY <2>1, <2>2, <2>3 DEF Structure
<1>5. ASSUME Clean'
      PROVE  CacheMatchesOmm' /\ OthersAreSettled' /\ PendingIsConsistent' /\ Progress'
  <2>1. /\ OthersAreSettled /\ PendingIsConsistent /\ Progress /\ CacheMatchesOmm'
        /\ \A m \in Numbers : NumberTaken(m)' <=> NumberTaken(m)
    BY <1>1, <1>5, UsersAreKept DEF AsteriskDelete, IInv, Clean
  <2>2. OthersAreSettled'
    BY <1>1, <1>2, <1>3, <2>1, UntouchedStaysSettled
       DEF AsteriskDelete, OthersAreSettled, Concerns
  <2>3. PendingIsConsistent'
    <3>1. event.kind = "update" /\ event.type = "DECT" => ~NumberTaken(n)
      BY <1>1, <1>2, <2>1 DEF Progress, UpdateProgress
    <3> QED
      BY <1>1, <1>2, <3>1
         DEF AsteriskDelete, PendingIsConsistent, DectPending, NumberTaken, Exists
  <2>4. Progress'
    <3>1. ASSUME event.kind = "update"
          PROVE  UpdateProgress(n, event.type, event.version)'
      <4>1. UpdateProgress(n, event.type, event.version) /\ accounts'[n] = None
        BY <1>1, <1>3, <2>1, <3>1 DEF Progress
      <4>2. ~NumberTaken(n) => ~NumberTaken(n)'
        BY <1>1, <2>1
      <4>3. CASE event.type = "DECT"
        <5>1. Len(plan) = 3 /\ Len(plan') = 2
          BY <1>2, <3>1, <4>3, Lengths
        <5>2. /\ plan # <<"OmmUpdate">> /\ plan' # <<>> /\ plan' # <<"OmmUpdate">>
              /\ plan' # <<"OmmCreate">>
          BY <1>2, <3>1, <4>3
        <5> QED
          BY <1>1, <4>1, <4>2, <4>3, <5>1, <5>2 DEF UpdateProgress
      <4>4. CASE event.type = "GROUP"
        <5>1. Len(plan) = 2 /\ Len(plan') = 1
          BY <1>2, <3>1, <4>4, Lengths
        <5> QED
          BY <1>1, <4>1, <4>2, <4>4, <5>1 DEF UpdateProgress
      <4>5. CASE event.type = "OTHER"
        <5>1. Len(plan) = 1 /\ Len(plan') = 0
          BY <1>2, <3>1, <4>5, Lengths
        <5> QED
          BY <1>1, <4>1, <4>2, <4>5, <5>1 DEF UpdateProgress
      <4> QED
        BY <1>2, <3>1, <4>3, <4>4, <4>5
    <3>2. ASSUME event.kind = "delete"
          PROVE  DeleteProgress(n)'
      <4>1. accounts'[n] = None /\ Len(plan') = 2
        BY <1>1, <1>2, <1>3, <3>2, Lengths
      <4> QED
        BY <1>1, <4>1 DEF DeleteProgress
    <3> QED
      BY <1>1, <1>2, <3>1, <3>2 DEF Progress
  <2> QED
    BY <2>1, <2>2, <2>3, <2>4
<1> QED
  BY <1>4, <1>5 DEF IInv

LEMMA AsteriskUpsertPreserves == ASSUME IInv, AsteriskUpsert PROVE IInv'
<1> USE DEF OnlyAccounts, ommVars
<1> DEFINE n == event.number
<1>1. /\ event \in Events /\ event # None /\ n \in Numbers
      /\ process = "handling" /\ plan' \in Rests(event) /\ plan' \in Seq(Statements)
      /\ process' = process /\ event' = event /\ served' = served
      /\ events' = events /\ crashes' = crashes /\ current' = current /\ todo' = todo
  BY Running DEF AsteriskUpsert, Statements
<1>2. /\ event.kind = "update" /\ event.type = "SIP" /\ event.version \in Versions
      /\ plan = <<"AsteriskUpsert">> /\ plan' = <<>>
  BY Running, UpdatePlan, Tails, EventFields DEF AsteriskUpsert, Statements
<1>3. accounts' = [accounts EXCEPT ![n] = event.version]
  BY DEF AsteriskUpsert, UpdateUser, CreateUser
<1>4. /\ accounts' \in [Numbers -> Versions \cup Generated \cup {None}]
      /\ \A m \in Numbers : accounts'[m] = IF m = n THEN event.version ELSE accounts[m]
  BY <1>2, <1>3 DEF IInv, Structure, TypeOK
<1>5. Structure'
  <2>1. TypeOK'
    BY <1>1, <1>4 DEF AsteriskUpsert, IInv, Structure, TypeOK
  <2>2. OneUserPerNumber' /\ CachedUsersExist' /\ EventIsPossible'
    BY <1>1, UsersAreKept DEF AsteriskUpsert
  <2>3. PlanFits'
    BY <1>1, <1>2 DEF PlanFits, PassFits, Rests
  <2> QED
    BY <2>1, <2>2, <2>3 DEF Structure
<1>6. ASSUME Clean'
      PROVE  CacheMatchesOmm' /\ OthersAreSettled' /\ PendingIsConsistent' /\ Progress'
  <2>1. /\ OthersAreSettled /\ Progress /\ CacheMatchesOmm'
        /\ NumberTaken(n)' <=> NumberTaken(n)
    BY <1>1, <1>6, UsersAreKept DEF AsteriskUpsert, IInv, Clean
  <2>2. OthersAreSettled'
    BY <1>1, <1>2, <1>4, <2>1, UntouchedStaysSettled
       DEF AsteriskUpsert, OthersAreSettled, Concerns
  <2>3. PendingIsConsistent'
    BY <1>1, <1>2 DEF PendingIsConsistent
  <2>4. Progress'
    <3>1. Len(plan) = 1 /\ Len(plan') = 0 /\ UpdateProgress(n, "SIP", event.version)
      BY <1>1, <1>2, <2>1, Lengths DEF Progress
    <3> QED
      BY <1>1, <1>2, <1>4, <2>1, <3>1 DEF Progress, UpdateProgress
  <2> QED
    BY <2>1, <2>2, <2>3, <2>4
<1> QED
  BY <1>5, <1>6 DEF IInv

LEMMA AsteriskCreatePreserves == ASSUME IInv, AsteriskCreate PROVE IInv'
<1> USE DEF OnlyAccounts, ommVars
<1> DEFINE n == event.number
<1>1. /\ event \in Events /\ event # None /\ n \in Numbers
      /\ process = "handling" /\ plan' \in Rests(event) /\ plan' \in Seq(Statements)
      /\ process' = process /\ event' = event /\ served' = served
      /\ events' = events /\ crashes' = crashes /\ current' = current /\ todo' = todo
  BY Running DEF AsteriskCreate, Statements
<1>2. /\ event.kind = "update" /\ event.type = "DECT"
      /\ plan = <<"AsteriskCreate", "OmmCreate">> /\ plan' = <<"OmmCreate">>
  BY Running, UpdatePlan, Tails, EventFields DEF AsteriskCreate, Statements
<1>3. sipPassword' \in Generated /\ accounts' = [accounts EXCEPT ![n] = sipPassword']
  BY DEF AsteriskCreate, CreateUser
<1>4. /\ accounts' \in [Numbers -> Versions \cup Generated \cup {None}]
      /\ \A m \in Numbers : accounts'[m] = IF m = n THEN sipPassword' ELSE accounts[m]
  BY <1>3 DEF IInv, Structure, TypeOK
<1>5. plan # <<"OmmUpdate">> /\ plan' # <<>> /\ plan' # <<"OmmUpdate">>
  BY <1>2
<1>6. Structure'
  <2>1. TypeOK'
    BY <1>1, <1>3, <1>4 DEF AsteriskCreate, IInv, Structure, TypeOK
  <2>2. OneUserPerNumber' /\ CachedUsersExist' /\ EventIsPossible'
    BY <1>1, UsersAreKept DEF AsteriskCreate
  <2>3. PlanFits'
    BY <1>1, <1>2, <1>3, <1>5 DEF PlanFits, PassFits, Rests
  <2> QED
    BY <2>1, <2>2, <2>3 DEF Structure
<1>7. ASSUME Clean'
      PROVE  CacheMatchesOmm' /\ OthersAreSettled' /\ PendingIsConsistent' /\ Progress'
  <2>1. /\ OthersAreSettled /\ Progress /\ CacheMatchesOmm'
        /\ NumberTaken(n)' <=> NumberTaken(n)
    BY <1>1, <1>7, UsersAreKept DEF AsteriskCreate, IInv, Clean
  <2>2. Len(plan) = 2 /\ Len(plan') = 1 /\ ~NumberTaken(n)
    BY <1>1, <1>2, <1>5, <2>1, Lengths DEF Progress, UpdateProgress
  <2>3. OthersAreSettled'
    BY <1>1, <1>2, <1>4, <2>1, UntouchedStaysSettled
       DEF AsteriskCreate, OthersAreSettled, Concerns
  <2>4. PendingIsConsistent'
    BY <1>1, <1>2, <2>2
       DEF AsteriskCreate, PendingIsConsistent, DectPending, NumberTaken, Exists
  <2>5. Progress'
    BY <1>1, <1>2, <1>4, <1>5, <2>1, <2>2 DEF Progress, UpdateProgress
  <2> QED
    BY <2>1, <2>3, <2>4, <2>5
<1> QED
  BY <1>6, <1>7 DEF IInv

LEMMA AsteriskMovePreserves == ASSUME IInv, AsteriskMove PROVE IInv'
<1> USE DEF OnlyAccounts, ommVars
<1> DEFINE n == event.number
           m == event.to
<1>1. /\ event \in Events /\ event # None /\ n \in Numbers
      /\ process = "handling" /\ plan' \in Rests(event) /\ plan' \in Seq(Statements)
      /\ process' = process /\ event' = event /\ served' = served
      /\ events' = events /\ crashes' = crashes /\ current' = current /\ todo' = todo
  BY Running DEF AsteriskMove, Statements
<1>2. /\ event.kind = "rename" /\ m \in Numbers
      /\ plan = RenameStatements /\ plan' = <<"OmmMove", "CallgroupMove">>
  BY Running, RenamePlan, Tails, EventFields DEF AsteriskMove, Statements
<1>3. /\ served[n] # None /\ served[m] = None /\ n # m
  BY <1>1, <1>2 DEF IInv, Structure, EventIsPossible
<1>4. \/ accounts' = accounts /\ accounts[n] = None
      \/ /\ accounts[n] # None /\ accounts[m] = None
         /\ accounts' = [accounts EXCEPT ![n] = None, ![m] = accounts[n]]
  BY DEF AsteriskMove, CheckForUser
<1>5. /\ accounts' \in [Numbers -> Versions \cup Generated \cup {None}]
      /\ accounts'[n] = None
      /\ accounts'[m] = IF accounts[n] = None THEN accounts[m] ELSE accounts[n]
      /\ \A k \in Numbers \ {n, m} : accounts'[k] = accounts[k]
  BY <1>1, <1>2, <1>3, <1>4 DEF IInv, Structure, TypeOK
<1>6. plan' # <<>> /\ plan' # <<"OmmUpdate">> /\ plan' # <<"OmmCreate">>
  BY <1>2
<1>7. Structure'
  <2>1. TypeOK'
    BY <1>1, <1>5 DEF AsteriskMove, IInv, Structure, TypeOK
  <2>2. OneUserPerNumber' /\ CachedUsersExist' /\ EventIsPossible'
    BY <1>1, UsersAreKept DEF AsteriskMove
  <2>3. PlanFits'
    BY <1>1, <1>2, <1>6 DEF PlanFits, PassFits, Rests
  <2> QED
    BY <2>1, <2>2, <2>3 DEF Structure
<1>8. ASSUME Clean'
      PROVE  CacheMatchesOmm' /\ OthersAreSettled' /\ PendingIsConsistent' /\ Progress'
  <2>1. /\ OthersAreSettled /\ PendingIsConsistent /\ Progress /\ CacheMatchesOmm'
    BY <1>1, <1>8, UsersAreKept DEF AsteriskMove, IInv, Clean
  <2>2. OthersAreSettled'
    BY <1>1, <1>2, <1>5, <2>1, UntouchedStaysSettled
       DEF AsteriskMove, OthersAreSettled, Concerns
  <2>3. AccountMoving(n, m) /\ UserMoving(n, m) /\ CallgroupMoving(n, m)
    BY <1>1, <1>2, <2>1 DEF PendingIsConsistent
  <2>4. PendingIsConsistent'
    <3>1. AccountMoving(n, m)'
      BY <1>1, <1>5, <2>3 DEF AccountMoving, Type
    <3>2. UserMoving(n, m)'
      <4>1. \A uid \in Uids : Exists(uid) => omm[uid].sipPw # None
        BY NoneAssumption DEF IInv, Structure, TypeOK, Exists, Users
      <4> QED
        BY <1>1, <1>5, <2>3, <4>1 DEF AsteriskMove, AccountMoving, UserMoving, NumberTaken,
                                      Exists, Type
    <3>3. CallgroupMoving(n, m)'
      BY <1>1, <2>3 DEF AsteriskMove, CallgroupMoving, Type
    <3> QED
      BY <1>1, <1>2, <3>1, <3>2, <3>3 DEF PendingIsConsistent
  <2>5. Progress'
    <3>1. Len(plan') = 2
      BY <1>2, Lengths
    <3> QED
      BY <1>1, <1>2, <1>5, <3>1 DEF Progress, RenameProgress
  <2> QED
    BY <2>1, <2>2, <2>4, <2>5
<1> QED
  BY <1>7, <1>8 DEF IInv

LEMMA CallgroupUpsertPreserves == ASSUME IInv, CallgroupUpsert PROVE IInv'
<1> USE DEF OnlyCallgroups, ommVars
<1> DEFINE n == event.number
<1>1. /\ event \in Events /\ event # None /\ n \in Numbers
      /\ process = "handling" /\ plan' \in Rests(event) /\ plan' \in Seq(Statements)
      /\ process' = process /\ event' = event /\ served' = served
      /\ events' = events /\ crashes' = crashes /\ current' = current /\ todo' = todo
  BY Running DEF CallgroupUpsert, Statements
<1>2. /\ event.kind = "update" /\ event.type = "GROUP" /\ event.version \in Versions
      /\ plan = <<"CallgroupUpsert">> /\ plan' = <<>>
  BY Running, UpdatePlan, Tails, EventFields DEF CallgroupUpsert, Statements
<1>3. /\ callgroups' \in [Numbers -> Versions \cup {None}]
      /\ \A m \in Numbers : callgroups'[m] = IF m = n THEN event.version ELSE callgroups[m]
  BY <1>2 DEF CallgroupUpsert, IInv, Structure, TypeOK
<1>4. Structure'
  <2>1. TypeOK'
    BY <1>1, <1>3 DEF CallgroupUpsert, IInv, Structure, TypeOK
  <2>2. OneUserPerNumber' /\ CachedUsersExist' /\ EventIsPossible'
    BY <1>1, UsersAreKept DEF CallgroupUpsert
  <2>3. PlanFits'
    BY <1>1, <1>2 DEF PlanFits, PassFits, Rests
  <2> QED
    BY <2>1, <2>2, <2>3 DEF Structure
<1>5. ASSUME Clean'
      PROVE  CacheMatchesOmm' /\ OthersAreSettled' /\ PendingIsConsistent' /\ Progress'
  <2>1. /\ OthersAreSettled /\ Progress /\ CacheMatchesOmm'
        /\ NumberTaken(n)' <=> NumberTaken(n)
    BY <1>1, <1>5, UsersAreKept DEF CallgroupUpsert, IInv, Clean
  <2>2. OthersAreSettled'
    BY <1>1, <1>2, <1>3, <2>1, UntouchedStaysSettled
       DEF CallgroupUpsert, OthersAreSettled, Concerns
  <2>3. PendingIsConsistent'
    BY <1>1, <1>2 DEF PendingIsConsistent
  <2>4. Progress'
    <3>1. Len(plan) = 1 /\ Len(plan') = 0 /\ UpdateProgress(n, "GROUP", event.version)
      BY <1>1, <1>2, <2>1, Lengths DEF Progress
    <3> QED
      BY <1>1, <1>2, <1>3, <2>1, <3>1 DEF CallgroupUpsert, Progress, UpdateProgress
  <2> QED
    BY <2>1, <2>2, <2>3, <2>4
<1> QED
  BY <1>4, <1>5 DEF IInv

LEMMA CallgroupDeletePreserves == ASSUME IInv, CallgroupDelete PROVE IInv'
<1> USE DEF OnlyCallgroups, ommVars
<1> DEFINE n == event.number
<1>1. /\ event \in Events /\ event # None /\ n \in Numbers
      /\ process = "handling" /\ plan' \in Rests(event) /\ plan' \in Seq(Statements)
      /\ process' = process /\ event' = event /\ served' = served
      /\ events' = events /\ crashes' = crashes /\ current' = current /\ todo' = todo
  BY Running DEF CallgroupDelete, Statements
<1>2. event.kind = "delete" /\ plan = <<"CallgroupDelete">> /\ plan' = <<>>
  BY Running, DeletionPlan, Tails DEF CallgroupDelete, Statements
<1>3. /\ callgroups' \in [Numbers -> Versions \cup {None}]
      /\ \A m \in Numbers : callgroups'[m] = IF m = n THEN None ELSE callgroups[m]
      /\ members' \subseteq members
  BY <1>2 DEF CallgroupDelete, IInv, Structure, TypeOK
<1>4. Structure'
  <2>1. TypeOK'
    BY <1>1, <1>3 DEF CallgroupDelete, IInv, Structure, TypeOK
  <2>2. OneUserPerNumber' /\ CachedUsersExist' /\ EventIsPossible'
    BY <1>1, UsersAreKept DEF CallgroupDelete
  <2>3. PlanFits'
    BY <1>1, <1>2 DEF PlanFits, PassFits, Rests
  <2> QED
    BY <2>1, <2>2, <2>3 DEF Structure
<1>5. ASSUME Clean'
      PROVE  CacheMatchesOmm' /\ OthersAreSettled' /\ PendingIsConsistent' /\ Progress'
  <2>1. /\ OthersAreSettled /\ Progress /\ CacheMatchesOmm'
        /\ NumberTaken(n)' <=> NumberTaken(n)
    BY <1>1, <1>5, UsersAreKept DEF CallgroupDelete, IInv, Clean
  <2>2. OthersAreSettled'
    BY <1>1, <1>2, <1>3, <2>1, UntouchedStaysSettled
       DEF CallgroupDelete, OthersAreSettled, Concerns
  <2>3. PendingIsConsistent'
    BY <1>1, <1>2 DEF PendingIsConsistent
  <2>4. Progress'
    <3>1. Len(plan) = 1 /\ Len(plan') = 0 /\ DeleteProgress(n)
      BY <1>1, <1>2, <2>1, Lengths DEF Progress
    <3> QED
      BY <1>1, <1>2, <1>3, <2>1, <3>1 DEF CallgroupDelete, Progress, DeleteProgress
  <2> QED
    BY <2>1, <2>2, <2>3, <2>4
<1> QED
  BY <1>4, <1>5 DEF IInv

LEMMA CallgroupMovePreserves == ASSUME IInv, CallgroupMove PROVE IInv'
<1> USE DEF OnlyCallgroups, ommVars
<1> DEFINE n == event.number
           m == event.to
<1>1. /\ event \in Events /\ event # None /\ n \in Numbers
      /\ process = "handling" /\ plan' \in Rests(event) /\ plan' \in Seq(Statements)
      /\ process' = process /\ event' = event /\ served' = served
      /\ events' = events /\ crashes' = crashes /\ current' = current /\ todo' = todo
  BY Running DEF CallgroupMove, Statements
<1>2. /\ event.kind = "rename" /\ m \in Numbers
      /\ plan = <<"CallgroupMove">> /\ plan' = <<>>
  BY Running, RenamePlan, Tails, EventFields DEF CallgroupMove, Statements
<1>3. /\ served[n] # None /\ served[m] = None /\ n # m
  BY <1>1, <1>2 DEF IInv, Structure, EventIsPossible
<1>4. /\ callgroups' \in [Numbers -> Versions \cup {None}]
      /\ callgroups'[n] = None
      /\ callgroups'[m] = IF callgroups[n] = None THEN callgroups[m] ELSE callgroups[n]
      /\ \A k \in Numbers \ {n, m} : callgroups'[k] = callgroups[k]
  BY <1>1, <1>2, <1>3 DEF CallgroupMove, IInv, Structure, TypeOK
<1>5. members' \in SUBSET (Numbers \X Numbers)
  BY <1>1, <1>2 DEF CallgroupMove, IInv, Structure, TypeOK
<1>6. Structure'
  <2>1. TypeOK'
    BY <1>1, <1>4, <1>5 DEF CallgroupMove, IInv, Structure, TypeOK
  <2>2. OneUserPerNumber' /\ CachedUsersExist' /\ EventIsPossible'
    BY <1>1, UsersAreKept DEF CallgroupMove
  <2>3. PlanFits'
    BY <1>1, <1>2 DEF PlanFits, PassFits, Rests
  <2> QED
    BY <2>1, <2>2, <2>3 DEF Structure
<1>7. ASSUME Clean'
      PROVE  CacheMatchesOmm' /\ OthersAreSettled' /\ PendingIsConsistent' /\ Progress'
  <2>1. /\ OthersAreSettled /\ PendingIsConsistent /\ Progress /\ CacheMatchesOmm'
        /\ NumberTaken(n)' <=> NumberTaken(n)
    BY <1>1, <1>7, UsersAreKept DEF CallgroupMove, IInv, Clean
  <2>2. OthersAreSettled'
    BY <1>1, <1>2, <1>4, <2>1, UntouchedStaysSettled
       DEF CallgroupMove, OthersAreSettled, Concerns
  <2>3. AccountMoving(n, m) /\ UserMoving(n, m) /\ CallgroupMoving(n, m)
    BY <1>1, <1>2, <2>1 DEF PendingIsConsistent
  <2>4. PendingIsConsistent'
    <3>1. AccountMoving(n, m)' /\ UserMoving(n, m)'
      BY <1>1, <2>3 DEF CallgroupMove, AccountMoving, UserMoving, NumberTaken, Exists, Type
    <3>2. CallgroupMoving(n, m)'
      <4>1. Type(n) = "GROUP" => served[n].version # None
        BY <1>1, NoneAssumption DEF IInv, Structure, TypeOK, Type, Extensions
      <4> QED
        BY <1>1, <1>4, <2>3, <4>1 DEF CallgroupMoving, Type
    <3> QED
      BY <1>1, <1>2, <3>1, <3>2 DEF PendingIsConsistent
  <2>5. Progress'
    <3>1. Len(plan) = 1 /\ RenameProgress(n)
      BY <1>1, <1>2, <2>1, Lengths DEF Progress
    <3> QED
      BY <1>1, <1>2, <1>4, <2>1, <3>1 DEF CallgroupMove, Progress, RenameProgress
  <2> QED
    BY <2>1, <2>2, <2>4, <2>5
<1> QED
  BY <1>6, <1>7 DEF IInv

(* The synchronisation of a callgroup touches its rows of members only.    *)
LEMMA OnlyMembersChange ==
  ASSUME IInv, process = "handling", event.kind = "members",
         members' \in SUBSET (Numbers \X Numbers),
         current' \in SUBSET Numbers, todo' \in SUBSET Numbers,
         plan' \in Rests(event), PassFits',
         UNCHANGED <<served, event, events, accounts, callgroups, ommVars, process, crashes,
                     sipPassword>>
  PROVE  IInv'
<1> USE DEF ommVars
<1>1. /\ plan' \in {<<"FetchMembers", "SyncMembers">>, <<"SyncMembers">>, <<>>}
      /\ plan' \in Seq(Statements) /\ event # None
  BY RestsAreSequences DEF IInv, Structure, TypeOK, PlanFits, Rests
<1>2. Structure'
  <2>1. TypeOK'
    BY <1>1 DEF IInv, Structure, TypeOK
  <2>2. OneUserPerNumber' /\ CachedUsersExist' /\ EventIsPossible'
    BY UsersAreKept
  <2>3. PlanFits'
    BY <1>1 DEF PlanFits, Rests
  <2> QED
    BY <2>1, <2>2, <2>3 DEF Structure
<1>3. ASSUME Clean'
      PROVE  CacheMatchesOmm' /\ OthersAreSettled' /\ PendingIsConsistent' /\ Progress'
  <2>1. OthersAreSettled /\ CacheMatchesOmm'
    BY <1>3, UsersAreKept DEF IInv, Clean
  <2>2. OthersAreSettled'
    BY <2>1, UntouchedStaysSettled DEF OthersAreSettled, Concerns
  <2>3. PendingIsConsistent' /\ Progress'
    BY DEF PendingIsConsistent, Progress
  <2> QED
    BY <2>1, <2>2, <2>3
<1> QED
  BY <1>2, <1>3 DEF IInv

LEMMA Synchronising ==
  ASSUME IInv, NEW s \in {"FetchMembers", "SyncMembers"}, IsNext(s)
  PROVE  /\ process = "handling" /\ event.kind = "members" /\ event.number \in Numbers
         /\ event.active \in SUBSET Numbers /\ event \in Events
         /\ plan = IF s = "FetchMembers" THEN <<"FetchMembers", "SyncMembers">>
                                        ELSE <<"SyncMembers">>
<1>1. process = "handling" /\ plan # <<>> /\ event \in Events /\ plan \in Rests(event)
  BY DEF IsNext, IInv, Structure, PlanFits, TypeOK
<1> QED
  BY <1>1, RenamePlan, EventFields DEF IsNext

(* No member has been looked at, none is lost: those to look at are all    *)
(* that are members or shall be.                                           *)
LEMMA FetchMembersPreserves == ASSUME IInv, FetchMembers PROVE IInv'
<1> USE DEF OnlyCallgroups, guru3Vars, FetchMembers
<1>1. /\ process = "handling" /\ event.kind = "members" /\ event.number \in Numbers
      /\ event.active \in SUBSET Numbers /\ event \in Events
      /\ plan = <<"FetchMembers", "SyncMembers">> /\ plan' = <<"SyncMembers">>
  BY Synchronising, Tails
<1>2. current' \in SUBSET Numbers /\ todo' \in SUBSET Numbers
  BY <1>1 DEF MembersOf
<1>3. event' = event /\ members' = members
  OBVIOUS
<1>4. InPass'
  <2>1. \A ext \in Numbers : ext \in current' <=> <<ext, event.number>> \in members
    BY DEF MembersOf
  <2>2. \A ext \in Numbers : ext \in todo' <=> ext \in event.active \/ ext \in current'
    OBVIOUS
  <2> QED
    BY <1>3, <2>1, <2>2 DEF InPass
<1>5. members' \in SUBSET (Numbers \X Numbers)
  BY <1>3 DEF IInv, Structure, TypeOK
<1>6. PassFits' /\ plan' \in Rests(event)
  BY <1>1, <1>4 DEF PassFits, Rests
<1> QED
  BY <1>1, <1>2, <1>5, <1>6, OnlyMembersChange

LEMMA SyncMemberPreserves ==
  ASSUME IInv, NEW ext \in todo, SyncMember(ext)
  PROVE  IInv'
<1> USE DEF OnlyCallgroups, guru3Vars, SyncMember
<1>1. /\ process = "handling" /\ event.kind = "members" /\ event.number \in Numbers
      /\ event.active \in SUBSET Numbers /\ event \in Events /\ plan = <<"SyncMembers">>
  BY Synchronising
<1>2. /\ ext \in Numbers /\ current' = current /\ plan' = plan /\ event' = event
      /\ current' \in SUBSET Numbers /\ todo' \in SUBSET Numbers
      /\ members \in SUBSET (Numbers \X Numbers)
  BY DEF IInv, Structure, TypeOK
<1>3. InPass
  BY <1>1 DEF IInv, Structure, PlanFits, PassFits
<1>4. \/ members' = members /\ ext \in event.active /\ ext \in current
      \/ members' = members \cup {<<ext, event.number>>} /\ ext \in event.active
      \/ members' = members \ {<<ext, event.number>>} /\ ext \notin event.active
  BY DEF AddMember, RemoveMember
<1>5. members' \in SUBSET (Numbers \X Numbers)
  BY <1>1, <1>2, <1>4
<1>6. InPass'
  <2>1. ASSUME NEW other \in Numbers, other # ext
        PROVE  /\ <<other, event.number>> \in members' <=> <<other, event.number>> \in members
               /\ other \in todo' <=> other \in todo
    BY <1>4, <2>1
  <2>2. <<ext, event.number>> \in members' <=> ext \in event.active
    BY <1>2, <1>3, <1>4 DEF InPass
  <2>3. ext \notin todo'
    OBVIOUS
  <2> QED
    BY <1>2, <1>3, <2>1, <2>2, <2>3 DEF InPass
<1>7. PassFits' /\ plan' \in Rests(event)
  BY <1>1, <1>2, <1>6 DEF PassFits, Rests
<1> QED
  BY <1>1, <1>2, <1>5, <1>7, OnlyMembersChange

LEMMA MembersSyncedPreserves == ASSUME IInv, MembersSynced PROVE IInv'
<1> USE DEF OnlyCallgroups, MembersSynced
<1>1. /\ event.kind = "members" /\ plan = <<"SyncMembers">> /\ plan' = <<>>
      /\ process = "handling" /\ plan' \in Rests(event)
  BY Synchronising, Tails DEF Runs, Statements, Rests
<1>2. UNCHANGED <<served, event, events, process, crashes, current, todo, members, accounts,
                  callgroups, ommVars, sipPassword>>
  BY DEF Runs, guru3Vars, passVars
<1>3. InPass' /\ todo' = {}
  BY <1>1, <1>2 DEF IInv, Structure, PlanFits, PassFits, InPass
<1>4. PassFits'
  BY <1>1, <1>3 DEF PassFits
<1>5. /\ members' \in SUBSET (Numbers \X Numbers)
      /\ current' \in SUBSET Numbers /\ todo' \in SUBSET Numbers
  BY <1>2 DEF IInv, Structure, TypeOK
<1> QED
  BY <1>1, <1>2, <1>4, <1>5, OnlyMembersChange
------------------------------------------------------------------------------
(* The statements of OMMMgr.                                               *)

LEMMA OmmDeletePreserves == ASSUME IInv, OmmDelete PROVE IInv'
<1> USE DEF OnlyOmm, asteriskVars
<1> DEFINE n == event.number
<1>1. /\ event \in Events /\ event # None /\ n \in Numbers
      /\ process = "handling" /\ plan' \in Rests(event) /\ plan' \in Seq(Statements)
      /\ process' = process /\ event' = event /\ served' = served
      /\ events' = events /\ crashes' = crashes /\ current' = current /\ todo' = todo
  BY Running DEF OmmDelete, Statements
<1>2. \/ /\ event.kind = "update" /\ event.type = "SIP"
         /\ plan = SipStatements /\ plan' = <<"AsteriskUpsert">>
      \/ /\ event.kind = "update" /\ event.type = "GROUP"
         /\ plan = GroupStatements /\ plan' = <<"AsteriskDelete", "CallgroupUpsert">>
      \/ /\ event.kind = "update" /\ event.type = "OTHER"
         /\ plan = <<"OmmDelete", "AsteriskDelete">> /\ plan' = <<"AsteriskDelete">>
      \/ /\ event.kind = "delete"
         /\ plan = <<"OmmDelete", "CallgroupDelete">> /\ plan' = <<"CallgroupDelete">>
  BY Running, DeletionPlan, Tails DEF OmmDelete, Statements
<1>3. \/ users[n] = None /\ omm' = omm /\ users' = users
      \/ /\ users[n] \in Uids /\ users[n] # None
         /\ users' = [users EXCEPT ![n] = None] /\ omm' = [omm EXCEPT ![users[n]] = None]
  BY <1>1 DEF OmmDelete, DeletePPUser, IInv, Structure, TypeOK
<1>4. /\ omm' \in [Uids -> Users \cup {None}]
      /\ \A uid \in Uids : omm'[uid] = IF uid = users[n] THEN None ELSE omm[uid]
      /\ users' \in [Numbers -> Uids \cup {None}]
      /\ \A m \in Numbers : users'[m] = IF m = n THEN None ELSE users[m]
  BY <1>1, <1>3, NoneAssumption DEF IInv, Structure, TypeOK
<1>5. Structure'
  <2>1. TypeOK'
    BY <1>1, <1>4 DEF OmmDelete, IInv, Structure, TypeOK
  <2>2. OneUserPerNumber'
    BY <1>4 DEF IInv, Structure, OneUserPerNumber, Exists
  <2>3. CachedUsersExist'
    BY <1>1, <1>4 DEF IInv, Structure, TypeOK, CachedUsersExist, Exists
  <2>4. EventIsPossible' /\ PlanFits'
    BY <1>1, <1>2 DEF IInv, Structure, EventIsPossible, PlanFits, PassFits, Rests
  <2> QED
    BY <2>1, <2>2, <2>3, <2>4 DEF Structure
<1>6. ASSUME Clean'
      PROVE  CacheMatchesOmm' /\ OthersAreSettled' /\ PendingIsConsistent' /\ Progress'
  <2>1. CacheMatchesOmm /\ OthersAreSettled /\ Progress
    BY <1>6 DEF OmmDelete, IInv, Clean
  <2>2. \A m \in Numbers, uid \in Uids : users[m] = uid <=> Exists(uid) /\ omm[uid].num = m
    BY <1>1, <1>6, <2>1 DEF OmmDelete, CacheMatchesOmm, Clean
  <2>3. CacheMatchesOmm'
    <3>1. \A m \in Numbers, uid \in Uids :
            users'[m] = uid <=> omm'[uid] # None /\ omm'[uid].num = m
      BY <1>1, <1>4, <2>2, NoneAssumption DEF Exists
    <3> QED
      BY <3>1 DEF CacheMatchesOmm, Exists
  <2>4. OthersAreSettled'
    <3>1. ASSUME NEW m \in Numbers, ~Concerns(event, m)
          PROVE  Settled(m)'
      <4>1. m # n /\ Settled(m)
        BY <1>2, <2>1, <3>1 DEF OthersAreSettled, Concerns
      <4>2. \A uid \in Uids : Exists(uid) /\ omm[uid].num = m => uid # users[n]
        BY <1>1, <2>2, <4>1
      <4> QED
        BY <1>1, <1>4, <4>1, <4>2, UntouchedStaysSettled DEF OmmDelete, Exists
    <3> QED
      BY <1>1, <3>1 DEF OthersAreSettled, Concerns
  <2>5. PendingIsConsistent'
    BY <1>1, <1>2 DEF PendingIsConsistent
  <2>6. Progress'
    <3>1. ~NumberTaken(n)'
      BY <1>1, <1>4, <2>2 DEF NumberTaken, Exists
    <3>2. ASSUME event.kind = "update"
          PROVE  UpdateProgress(n, event.type, event.version)'
      <4>1. CASE event.type = "SIP"
        <5>1. Len(plan') = 1
          BY <1>2, <3>2, <4>1, Lengths
        <5> QED
          BY <1>1, <3>1, <4>1, <5>1 DEF UpdateProgress
      <4>2. CASE event.type = "GROUP"
        <5>1. Len(plan') = 2
          BY <1>2, <3>2, <4>2, Lengths
        <5> QED
          BY <1>1, <3>1, <4>2, <5>1 DEF UpdateProgress
      <4>3. CASE event.type = "OTHER"
        <5>1. Len(plan') = 1
          BY <1>2, <3>2, <4>3, Lengths
        <5> QED
          BY <1>1, <3>1, <4>3, <5>1 DEF UpdateProgress
      <4> QED
        BY <1>2, <3>2, <4>1, <4>2, <4>3
    <3>3. ASSUME event.kind = "delete"
          PROVE  DeleteProgress(n)'
      <4>1. Len(plan) = 2 /\ Len(plan') = 1 /\ DeleteProgress(n)
        BY <1>1, <1>2, <2>1, <3>3, Lengths DEF Progress
      <4> QED
        BY <1>1, <3>1, <4>1 DEF OmmDelete, DeleteProgress
    <3> QED
      BY <1>1, <1>2, <3>2, <3>3 DEF Progress
  <2> QED
    BY <2>3, <2>4, <2>5, <2>6
<1> QED
  BY <1>5, <1>6 DEF IInv

LEMMA OmmCreatePreserves == ASSUME IInv, OmmCreate PROVE IInv'
<1> USE DEF OnlyOmm, asteriskVars
<1> DEFINE n == event.number
<1>1. /\ event \in Events /\ event # None /\ n \in Numbers
      /\ process = "handling" /\ plan' \in Rests(event) /\ plan' \in Seq(Statements)
      /\ process' = process /\ event' = event /\ served' = served
      /\ events' = events /\ crashes' = crashes /\ current' = current /\ todo' = todo
  BY Running DEF OmmCreate, Statements
<1>2. /\ event.kind = "update" /\ event.type = "DECT" /\ event.version \in Versions
      /\ plan = <<"OmmCreate">> /\ plan' = <<>>
  BY Running, UpdatePlan, Tails, EventFields DEF OmmCreate, Statements
<1>3. sipPassword \in Generated
  BY <1>2 DEF IInv, Structure, PlanFits, PassFits
<1>4. PICK uid \in Uids :
        /\ ~NumberTaken(n) /\ ~Exists(uid)
        /\ omm' = [omm EXCEPT ![uid] =
                     [num |-> n, info |-> event.version, sipPw |-> sipPassword]]
        /\ users' = [users EXCEPT ![n] = uid]
  BY DEF OmmCreate, CreatePPUser
<1>5. /\ omm' \in [Uids -> Users \cup {None}] /\ omm'[uid] # None
      /\ omm'[uid].num = n /\ omm'[uid].info = event.version /\ omm'[uid].sipPw = sipPassword
      /\ \A other \in Uids \ {uid} : omm'[other] = omm[other]
      /\ users' \in [Numbers -> Uids \cup {None}]
      /\ \A m \in Numbers : users'[m] = IF m = n THEN uid ELSE users[m]
  BY <1>1, <1>2, <1>3, <1>4, NoneAssumption DEF IInv, Structure, TypeOK, Users
<1>6. Structure'
  <2>1. TypeOK'
    BY <1>1, <1>5 DEF OmmCreate, IInv, Structure, TypeOK
  <2>2. OneUserPerNumber'
    BY <1>4, <1>5 DEF IInv, Structure, OneUserPerNumber, NumberTaken, Exists
  <2>3. CachedUsersExist'
    BY <1>1, <1>4, <1>5 DEF IInv, Structure, TypeOK, CachedUsersExist, Exists
  <2>4. EventIsPossible' /\ PlanFits'
    BY <1>1, <1>2 DEF IInv, Structure, EventIsPossible, PlanFits, PassFits, Rests
  <2> QED
    BY <2>1, <2>2, <2>3, <2>4 DEF Structure
<1>7. ASSUME Clean'
      PROVE  CacheMatchesOmm' /\ OthersAreSettled' /\ PendingIsConsistent' /\ Progress'
  <2>1. CacheMatchesOmm /\ OthersAreSettled /\ Progress
    BY <1>7 DEF OmmCreate, IInv, Clean
  <2>2. \A m \in Numbers, u \in Uids : users[m] = u <=> Exists(u) /\ omm[u].num = m
    BY <1>1, <1>7, <2>1 DEF OmmCreate, CacheMatchesOmm, Clean
  <2>3. CacheMatchesOmm'
    <3>1. \A m \in Numbers, u \in Uids :
            users'[m] = u <=> omm'[u] # None /\ omm'[u].num = m
      BY <1>1, <1>4, <1>5, <2>2 DEF Exists, NumberTaken
    <3> QED
      BY <3>1 DEF CacheMatchesOmm, Exists
  <2>4. accounts[n] = sipPassword
    BY <1>1, <1>2, <2>1 DEF Progress, UpdateProgress
  <2>5. OthersAreSettled'
    <3>1. ASSUME NEW m \in Numbers, ~Concerns(event, m)
          PROVE  Settled(m)'
      <4>1. m # n /\ Settled(m)
        BY <1>2, <2>1, <3>1 DEF OthersAreSettled, Concerns
      <4> QED
        BY <1>1, <1>4, <1>5, <4>1, UntouchedStaysSettled DEF OmmCreate, Exists
    <3> QED
      BY <1>1, <3>1 DEF OthersAreSettled, Concerns
  <2>6. PendingIsConsistent'
    <3>1. DectPending(n)'
      BY <1>1, <1>4, <1>5, <2>4 DEF OmmCreate, DectPending, NumberTaken, Exists
    <3> QED
      BY <1>1, <1>2, <3>1 DEF PendingIsConsistent
  <2>7. Progress'
    <3>1. Len(plan') = 0 /\ plan' # <<"OmmCreate">>
      BY <1>2, Lengths
    <3> QED
      BY <1>1, <1>2, <1>5, <3>1 DEF Progress, UpdateProgress, Exists
  <2> QED
    BY <2>3, <2>5, <2>6, <2>7
<1> QED
  BY <1>6, <1>7 DEF IInv

(* What a SetPPUser does: it never takes a user away, never gives a number *)
(* twice, and does all it says when no other user has the number.          *)
LEMMA SetPPUserKeeps ==
  ASSUME Structure, NEW uid \in Uids, Exists(uid),
         NEW message \in [info : Versions \cup {None}, num : Numbers \cup {None}],
         SetPPUser(uid, message)
  PROVE  /\ omm' \in [Uids -> Users \cup {None}]
         /\ \A u \in Uids : omm'[u] # None <=> omm[u] # None
         /\ \A u \in Uids \ {uid} : omm'[u] = omm[u]
         /\ OneUserPerNumber'
         /\ LET num == IF message.num = None THEN omm[uid].num ELSE message.num
                info == IF message.info = None THEN omm[uid].info ELSE message.info
            IN (\A u \in Uids \ {uid} : Exists(u) => omm[u].num # num) =>
                 /\ omm'[uid].num = num /\ omm'[uid].info = info
                 /\ omm'[uid].sipPw = omm[uid].sipPw
<1> DEFINE num == IF message.num = None THEN omm[uid].num ELSE message.num
           info == IF message.info = None THEN omm[uid].info ELSE message.info
           new == [omm[uid] EXCEPT !.info = info, !.num = num]
<1>1. omm[uid] \in Users /\ num \in Numbers /\ info \in Versions
  BY DEF Structure, TypeOK, Exists, Users
<1>2. /\ new \in Users /\ new # None
      /\ new.num = num /\ new.info = info /\ new.sipPw = omm[uid].sipPw
  BY <1>1, NoneAssumption DEF Users
<1>3. omm' = IF \E other \in Uids \ {uid} : Exists(other) /\ omm[other].num = new.num
               THEN omm ELSE [omm EXCEPT ![uid] = new]
  BY DEF SetPPUser
<1> HIDE DEF new, num, info
<1>4. CASE \E other \in Uids \ {uid} : Exists(other) /\ omm[other].num = num
  <2>1. omm' = omm
    BY <1>2, <1>3, <1>4
  <2> QED
    BY <1>4, <2>1 DEF Structure, TypeOK, OneUserPerNumber, Exists, num
<1>5. CASE \A other \in Uids \ {uid} : Exists(other) => omm[other].num # num
  <2>1. /\ omm' \in [Uids -> Users \cup {None}]
        /\ \A u \in Uids : omm'[u] = IF u = uid THEN new ELSE omm[u]
    BY <1>2, <1>3, <1>5 DEF Structure, TypeOK
  <2>2. OneUserPerNumber'
    BY <1>2, <1>5, <2>1 DEF Structure, OneUserPerNumber, Exists
  <2> QED
    BY <1>2, <2>1, <2>2 DEF Exists, num, info
<1> QED
  BY <1>4, <1>5

LEMMA OmmUpdatePreserves == ASSUME IInv, OmmUpdate PROVE IInv'
<1> USE DEF OnlyOmm, asteriskVars
<1> DEFINE n == event.number
           uid == users[event.number]
<1>1. /\ event \in Events /\ event # None /\ n \in Numbers
      /\ process = "handling" /\ plan' \in Rests(event) /\ plan' \in Seq(Statements)
      /\ process' = process /\ event' = event /\ served' = served
      /\ events' = events /\ crashes' = crashes /\ current' = current /\ todo' = todo
  BY Running DEF OmmUpdate, Statements
<1>2. /\ event.kind = "update" /\ event.type = "DECT" /\ event.version \in Versions
      /\ plan = <<"OmmUpdate">> /\ plan' = <<>>
  BY Running, UpdatePlan, Tails, EventFields DEF OmmUpdate, Statements
<1>3. uid # None /\ uid \in Uids /\ Exists(uid)
  BY <1>1, <1>2 DEF IInv, Structure, TypeOK, PlanFits, CachedUsersExist
<1>4. /\ changes' \in [info : Versions \cup {None}, num : Numbers \cup {None}]
      /\ changes'.info = event.version /\ changes'.num = changes.num
  BY <1>2 DEF OmmUpdate, SetAttribute, IInv, Structure, TypeOK
<1>5. SetPPUser(uid, changes')
  BY DEF OmmUpdate
<1>6. /\ omm' \in [Uids -> Users \cup {None}]
      /\ \A u \in Uids : omm'[u] # None <=> omm[u] # None
      /\ \A u \in Uids \ {uid} : omm'[u] = omm[u]
      /\ OneUserPerNumber'
  BY <1>3, <1>4, <1>5, SetPPUserKeeps DEF IInv
<1>7. Structure'
  <2>1. TypeOK'
    BY <1>1, <1>4, <1>6 DEF OmmUpdate, IInv, Structure, TypeOK
  <2>2. CachedUsersExist'
    BY <1>6 DEF OmmUpdate, IInv, Structure, TypeOK, CachedUsersExist, Exists
  <2>3. EventIsPossible' /\ PlanFits'
    BY <1>1, <1>2 DEF IInv, Structure, EventIsPossible, PlanFits, PassFits, Rests
  <2> QED
    BY <1>6, <2>1, <2>2, <2>3 DEF Structure
<1>8. ASSUME Clean'
      PROVE  CacheMatchesOmm' /\ OthersAreSettled' /\ PendingIsConsistent' /\ Progress'
  <2>1. Clean /\ changes.num \in {None, omm[uid].num}
    BY <1>8 DEF OmmUpdate, Clean, Spills
  <2>2. CacheMatchesOmm /\ OthersAreSettled /\ PendingIsConsistent
    BY <2>1 DEF IInv
  <2>3. \A m \in Numbers, u \in Uids : users[m] = u <=> Exists(u) /\ omm[u].num = m
    BY <1>1, <2>1, <2>2 DEF CacheMatchesOmm
  <2>4. /\ omm'[uid].num = n /\ omm[uid].num = n /\ omm'[uid].info = event.version
        /\ omm'[uid].sipPw = omm[uid].sipPw
    <3>1. /\ omm[uid].num = n
          /\ n = IF changes'.num = None THEN omm[uid].num ELSE changes'.num
          /\ event.version = IF changes'.info = None THEN omm[uid].info ELSE changes'.info
      BY <1>1, <1>2, <1>3, <1>4, <2>1, <2>3, NoneAssumption
    <3>2. \A u \in Uids \ {uid} : Exists(u) => omm[u].num # n
      BY <1>3, <3>1 DEF IInv, Structure, OneUserPerNumber
    <3> QED
      BY <1>3, <1>4, <1>5, <3>1, <3>2, SetPPUserKeeps DEF IInv
  <2>5. CacheMatchesOmm'
    <3>1. \A m \in Numbers, u \in Uids :
            users[m] = u <=> omm'[u] # None /\ omm'[u].num = m
      BY <1>3, <1>6, <2>3, <2>4 DEF Exists
    <3> QED
      BY <3>1 DEF OmmUpdate, CacheMatchesOmm, Exists
  <2>6. OthersAreSettled'
    <3>1. ASSUME NEW m \in Numbers, ~Concerns(event, m)
          PROVE  Settled(m)'
      <4>1. m # n /\ Settled(m)
        BY <1>2, <2>2, <3>1 DEF OthersAreSettled, Concerns
      <4> QED
        BY <1>1, <1>3, <1>6, <2>4, <4>1, UntouchedStaysSettled DEF OmmUpdate, Exists
    <3> QED
      BY <1>1, <3>1 DEF OthersAreSettled, Concerns
  <2>7. PendingIsConsistent'
    <3>1. DectPending(n)
      BY <1>1, <1>2, <2>2 DEF PendingIsConsistent
    <3>2. DectPending(n)'
      BY <1>1, <1>3, <1>6, <2>4, <3>1 DEF OmmUpdate, DectPending, Exists
    <3> QED
      BY <1>1, <1>2, <3>2 DEF PendingIsConsistent
  <2>8. Progress'
    <3>1. Len(plan') = 0 /\ plan' # <<"OmmCreate">>
      BY <1>2, Lengths
    <3> QED
      BY <1>1, <1>2, <1>3, <1>6, <2>4, <3>1 DEF Progress, UpdateProgress, Exists
  <2> QED
    BY <2>5, <2>6, <2>7, <2>8
<1> QED
  BY <1>7, <1>8 DEF IInv

LEMMA OmmMovePreserves == ASSUME IInv, OmmMove PROVE IInv'
<1> USE DEF OnlyOmm, asteriskVars
<1> DEFINE n == event.number
           m == event.to
           uid == users[event.number]
<1>1. /\ event \in Events /\ event # None /\ n \in Numbers
      /\ process = "handling" /\ plan' \in Rests(event) /\ plan' \in Seq(Statements)
      /\ process' = process /\ event' = event /\ served' = served
      /\ events' = events /\ crashes' = crashes /\ current' = current /\ todo' = todo
  BY Running DEF OmmMove, Statements
<1>2. /\ event.kind = "rename" /\ m \in Numbers
      /\ plan = <<"OmmMove", "CallgroupMove">> /\ plan' = <<"CallgroupMove">>
  BY Running, RenamePlan, Tails, EventFields DEF OmmMove, Statements
<1>3. /\ served[n] # None /\ served[m] = None /\ n # m
  BY <1>1, <1>2 DEF IInv, Structure, EventIsPossible
<1>4. plan' # <<>> /\ plan' # <<"OmmUpdate">> /\ plan' # <<"OmmCreate">>
  BY <1>2
<1>5. Len(plan) = 2 /\ Len(plan') = 1
  BY <1>2, Lengths
<1>6. CASE uid = None
  <2>1. UNCHANGED <<omm, users, changes, spilled, accounts, callgroups, members, sipPassword>>
    BY <1>6 DEF OmmMove, ommVars
  <2>2. Structure'
    <3>1. TypeOK'
      BY <1>1, <2>1 DEF IInv, Structure, TypeOK
    <3>2. OneUserPerNumber' /\ CachedUsersExist' /\ EventIsPossible'
      BY <1>1, <2>1, UsersAreKept
    <3>3. PlanFits'
      BY <1>1, <1>2, <1>4 DEF PlanFits, PassFits, Rests
    <3> QED
      BY <3>1, <3>2, <3>3 DEF Structure
  <2>3. ASSUME Clean'
        PROVE  CacheMatchesOmm' /\ OthersAreSettled' /\ PendingIsConsistent' /\ Progress'
    <3>1. /\ CacheMatchesOmm /\ OthersAreSettled /\ PendingIsConsistent /\ Progress
          /\ CacheMatchesOmm'
      BY <1>1, <2>1, <2>3, UsersAreKept DEF IInv, Clean
    <3>2. OthersAreSettled'
      BY <1>1, <2>1, <3>1, UntouchedStaysSettled DEF OthersAreSettled, Concerns
    <3>3. PendingIsConsistent'
      BY <1>1, <2>1, <3>1
         DEF PendingIsConsistent, DectPending, AccountMoving, UserMoving, CallgroupMoving,
             NumberTaken, Exists, Type
    <3>4. ~NumberTaken(n)'
      BY <1>1, <1>6, <2>1, <2>3, <3>1, NoneAssumption
         DEF CacheMatchesOmm, NumberTaken, Exists, Clean
    <3>5. RenameProgress(n)
      BY <1>1, <1>2, <3>1 DEF Progress
    <3>6. Progress'
      BY <1>1, <1>2, <1>5, <2>1, <3>4, <3>5 DEF Progress, RenameProgress
    <3> QED
      BY <3>1, <3>2, <3>3, <3>6
  <2> QED
    BY <2>2, <2>3 DEF IInv
<1>7. CASE uid # None
  <2>1. uid \in Uids /\ Exists(uid)
    BY <1>1, <1>7 DEF IInv, Structure, TypeOK, CachedUsersExist
  <2>2. /\ users' \in [Numbers -> Uids \cup {None}]
        /\ \A k \in Numbers : users'[k] = IF k = n THEN None
                                          ELSE IF k = m THEN uid ELSE users[k]
    BY <1>1, <1>2, <1>3, <1>7, <2>1 DEF OmmMove, IInv, Structure, TypeOK
  <2>3. /\ changes' \in [info : Versions \cup {None}, num : Numbers \cup {None}]
        /\ changes'.num = m /\ changes'.info = changes.info
    BY <1>2, <1>7 DEF OmmMove, SetAttribute, IInv, Structure, TypeOK
  <2>4. SetPPUser(uid, changes')
    BY <1>7 DEF OmmMove
  <2>5. /\ omm' \in [Uids -> Users \cup {None}]
        /\ \A u \in Uids : omm'[u] # None <=> omm[u] # None
        /\ \A u \in Uids \ {uid} : omm'[u] = omm[u]
        /\ OneUserPerNumber'
    BY <2>1, <2>3, <2>4, SetPPUserKeeps DEF IInv
  <2>6. Structure'
    <3>1. TypeOK'
      BY <1>1, <1>7, <2>2, <2>3, <2>5 DEF OmmMove, IInv, Structure, TypeOK
    <3>2. CachedUsersExist'
      BY <1>1, <2>1, <2>2, <2>5 DEF IInv, Structure, TypeOK, CachedUsersExist, Exists
    <3>3. EventIsPossible' /\ PlanFits'
      BY <1>1, <1>2, <1>4 DEF IInv, Structure, EventIsPossible, PlanFits, PassFits, Rests
    <3> QED
      BY <2>5, <3>1, <3>2, <3>3 DEF Structure
  <2>7. ASSUME Clean'
        PROVE  CacheMatchesOmm' /\ OthersAreSettled' /\ PendingIsConsistent' /\ Progress'
    <3>1. Clean /\ changes.info \in {None, omm[uid].info}
      BY <1>7, <2>7 DEF OmmMove, Clean, Spills
    <3>2. CacheMatchesOmm /\ OthersAreSettled /\ PendingIsConsistent /\ Progress
      BY <3>1 DEF IInv
    <3>3. \A k \in Numbers, u \in Uids : users[k] = u <=> Exists(u) /\ omm[u].num = k
      BY <1>1, <3>1, <3>2 DEF CacheMatchesOmm
    <3>4. AccountMoving(n, m) /\ UserMoving(n, m) /\ CallgroupMoving(n, m) /\ RenameProgress(n)
      BY <1>1, <1>2, <3>2 DEF PendingIsConsistent, Progress
    <3>5. /\ omm[uid].num = n /\ omm'[uid].num = m /\ omm'[uid].info = omm[uid].info
          /\ omm'[uid].sipPw = omm[uid].sipPw
      <4>1. omm[uid].num = n
        BY <1>1, <2>1, <3>3
      <4>2. \A u \in Uids \ {uid} : Exists(u) => omm[u].num # m
        BY <2>1, <3>4, <4>1 DEF UserMoving, NumberTaken
      <4>3. /\ m = IF changes'.num = None THEN omm[uid].num ELSE changes'.num
            /\ omm[uid].info = IF changes'.info = None THEN omm[uid].info ELSE changes'.info
        BY <1>2, <2>3, <3>1, NoneAssumption
      <4> QED
        BY <2>1, <2>3, <2>4, <4>1, <4>2, <4>3, SetPPUserKeeps DEF IInv
    <3>6. CacheMatchesOmm'
      <4>1. ASSUME NEW k \in Numbers, NEW u \in Uids
            PROVE  users'[k] = u <=> omm'[u] # None /\ omm'[u].num = k
        <5>1. CASE u = uid
          BY <1>2, <1>3, <2>1, <2>2, <2>5, <3>3, <3>5, <5>1, NoneAssumption
             DEF Exists
        <5>2. CASE u # uid
          <6>1. k # m => (users[k] = u <=> omm'[u] # None /\ omm'[u].num = k)
            BY <2>5, <3>3, <5>2 DEF Exists
          <6>2. Exists(u) => omm[u].num # m /\ omm[u].num # n
            BY <2>1, <3>4, <3>5, <5>2
               DEF UserMoving, NumberTaken, IInv, Structure, OneUserPerNumber
          <6> QED
            BY <2>2, <2>5, <5>2, <6>1, <6>2, NoneAssumption DEF Exists
        <5> QED
          BY <5>1, <5>2
      <4> QED
        BY <4>1 DEF CacheMatchesOmm, Exists
    <3>7. OthersAreSettled'
      <4>1. ASSUME NEW k \in Numbers, ~Concerns(event, k)
            PROVE  Settled(k)'
        <5>1. k # n /\ k # m /\ Settled(k)
          BY <1>2, <3>2, <4>1 DEF OthersAreSettled, Concerns
        <5> QED
          BY <1>1, <2>1, <2>5, <3>5, <5>1, UntouchedStaysSettled DEF OmmMove, Exists
      <4> QED
        BY <1>1, <4>1 DEF OthersAreSettled, Concerns
    <3>8. \A u \in Uids : omm'[u] # None => omm'[u].num # n
      BY <2>1, <2>5, <3>5, <1>3 DEF IInv, Structure, OneUserPerNumber, Exists
    <3>9. PendingIsConsistent'
      <4>1. AccountMoving(n, m)' /\ CallgroupMoving(n, m)'
        BY <1>1, <3>4 DEF OmmMove, AccountMoving, CallgroupMoving, Type
      <4>2. NumberTaken(n) /\ NumberTaken(m)' /\ ~NumberTaken(n)'
        <5>1. NumberTaken(n)
          BY <2>1, <3>5 DEF NumberTaken
        <5>2. NumberTaken(m)'
          BY <1>1, <2>1, <2>5, <3>5 DEF NumberTaken, Exists
        <5>3. ~NumberTaken(n)'
          BY <1>1, <3>8 DEF NumberTaken, Exists
        <5> QED
          BY <5>1, <5>2, <5>3
      <4>3. Type(n)' = Type(n) /\ accounts' = accounts
        BY <1>1 DEF Type, OmmMove
      <4>4. ASSUME NEW u \in Uids, omm'[u] # None
            PROVE  omm'[u].num \in {n, m} =>
                     /\ omm'[u].sipPw \in {accounts[n], accounts[m]}
                     /\ served[n].version = omm'[u].info
        BY <2>1, <2>5, <3>4, <3>5, <4>4 DEF UserMoving, Exists
      <4>5. UserMoving(n, m)'
        BY <1>1, <3>4, <4>2, <4>3, <4>4 DEF UserMoving, Exists
      <4> QED
        BY <1>1, <1>2, <4>1, <4>5 DEF PendingIsConsistent
    <3>10. Progress'
      BY <1>1, <1>2, <1>5, <3>4, <3>8 DEF OmmMove, Progress, RenameProgress, NumberTaken, Exists
    <3> QED
      BY <3>6, <3>7, <3>9, <3>10
  <2> QED
    BY <2>6, <2>7 DEF IInv
<1> QED
  BY <1>6, <1>7
------------------------------------------------------------------------------
LEMMA NextPreserves == ASSUME IInv, [Next]_vars PROVE IInv'
<1>1. CASE Create \/ Crash \/ Restart
  BY <1>1, CreatePreserves, CrashPreserves, RestartPreserves
<1>2. CASE StartEvent \/ Raise \/ Report
  BY <1>2, StartEventPreserves, RaisePreserves, ReportPreserves
<1>3. CASE AsteriskStatement
  BY <1>3, AsteriskDeletePreserves, AsteriskUpsertPreserves, AsteriskCreatePreserves,
     AsteriskMovePreserves, CallgroupUpsertPreserves, CallgroupDeletePreserves,
     CallgroupMovePreserves, FetchMembersPreserves, SyncMemberPreserves,
     MembersSyncedPreserves
     DEF AsteriskStatement
<1>4. CASE OmmStatement
  BY <1>4, OmmDeletePreserves, OmmCreatePreserves, OmmUpdatePreserves, OmmMovePreserves
     DEF OmmStatement
<1>5. CASE UNCHANGED vars
  <2> USE <1>5 DEF vars, guru3Vars, asteriskVars, ommVars, passVars
  <2>1. Structure'
    BY DEF IInv, Structure, TypeOK, OneUserPerNumber, CachedUsersExist, EventIsPossible,
           PlanFits, PassFits, InPass, Exists, Rests
  <2>2. ASSUME Clean'
        PROVE  CacheMatchesOmm' /\ OthersAreSettled' /\ PendingIsConsistent' /\ Progress'
    <3>1. /\ CacheMatchesOmm /\ OthersAreSettled /\ PendingIsConsistent /\ Progress
      BY <2>2 DEF IInv, Clean
    <3>2. CacheMatchesOmm'
      BY <2>2, UsersAreKept DEF Clean
    <3>3. OthersAreSettled'
      BY <3>1, UntouchedStaysSettled DEF OthersAreSettled, Concerns
    <3>4. PendingIsConsistent'
      BY <3>1 DEF PendingIsConsistent, DectPending, AccountMoving, UserMoving,
                  CallgroupMoving, NumberTaken, Exists, Type
    <3>5. Progress'
      BY <3>1 DEF Progress, UpdateProgress, DeleteProgress, RenameProgress, NumberTaken, Exists
    <3> QED
      BY <3>2, <3>3, <3>4, <3>5
  <2> QED
    BY <2>1, <2>2 DEF IInv
<1> QED
  BY <1>1, <1>2, <1>3, <1>4, <1>5 DEF Next, Work

LEMMA Invariance == Spec => []IInv
BY InitEstablishes, NextPreserves, PTL DEF Spec

(* The stores, the event at hand and the handler's plan keep their types:  *)
(* every update of a user reaches one the OMM has, with whatever the       *)
(* shared changes hold by then (OMMClient.py:670, PPUser.py).              *)
THEOREM TypeCorrect == Spec => []TypeOK
BY Invariance, PTL DEF IInv, Structure

(* Once Guru3 has been told that an event is complete, the stores show     *)
(* what it asked for, for every number and every sequence of events and    *)
(* crashes: a handler that runs again from its start finishes what the     *)
(* interrupted one left (EventHandler.py:131-281).                         *)
THEOREM StoresMirrorGuru3 == Spec => []MirrorsGuru3
<1>1. IInv => MirrorsGuru3
  BY DEF IInv, OthersAreSettled, Settled, MirrorsGuru3
<1> QED
  BY <1>1, Invariance, PTL

(* Every user the OMM keeps between events can register at Asterisk, and   *)
(* is the one Guru3 described last (EventHandler.py:166-203).              *)
THEOREM UsersAreUsable == Spec => []OmmUsersAreUsable
<1>1. IInv => OmmUsersAreUsable
  <2> SUFFICES ASSUME IInv, Clean, event = None, NEW uid \in Uids, Exists(uid)
               PROVE  /\ accounts[omm[uid].num] = omm[uid].sipPw
                      /\ served[omm[uid].num].version = omm[uid].info
    BY DEF OmmUsersAreUsable
  <2>1. omm[uid].num \in Numbers
    BY DEF IInv, Structure, TypeOK, Exists, Users
  <2> QED
    BY <2>1 DEF IInv, OthersAreSettled, Settled
<1> QED
  BY <1>1, Invariance, PTL

(* The cache that decides between update and creation, and names the user  *)
(* that is deleted, is what the OMM has, after a restart as well           *)
(* (OMMMgr.py:38-124).                                                     *)
THEOREM CacheIsTheOmms == Spec => []CacheMatchesOmm
<1>1. IInv => CacheMatchesOmm
  BY DEF IInv, CacheMatchesOmm
<1> QED
  BY <1>1, Invariance, PTL

(* No handler meets a primary key that is there or a number the OMM        *)
(* refuses, also when it runs again over what a dead process left.         *)
THEOREM HandlersDoNotRaise == Spec => []NoHandlerRaises
<1>1. IInv => NoHandlerRaises
  <2> SUFFICES ASSUME IInv, Clean, plan # <<>> PROVE ~Raises
    BY DEF NoHandlerRaises, Raises, IsNext
  <2> DEFINE n == event.number
  <2>1. /\ process = "handling" /\ event # None /\ event \in Events /\ n \in Numbers
        /\ plan \in Rests(event) /\ PendingIsConsistent /\ Progress
    BY EventFields DEF IInv, Structure, TypeOK, PlanFits, PassFits
  <2>2. Head(plan) = "AsteriskCreate" => ~CheckForUser(n)
    <3> SUFFICES ASSUME Head(plan) = "AsteriskCreate" PROVE accounts[n] = None
      BY DEF CheckForUser
    <3>1. /\ event.kind = "update" /\ event.type = "DECT" /\ Len(plan) = 2
      BY <2>1, UpdatePlan, Lengths
    <3> QED
      BY <2>1, <3>1 DEF Progress, UpdateProgress
  <2>3. Head(plan) = "OmmCreate" => ~NumberTaken(n)
    <3> SUFFICES ASSUME Head(plan) = "OmmCreate" PROVE ~NumberTaken(n)
      OBVIOUS
    <3>1. /\ event.kind = "update" /\ event.type = "DECT" /\ plan = <<"OmmCreate">>
      BY <2>1, UpdatePlan
    <3>2. Len(plan) = 1 /\ plan # <<"OmmUpdate">>
      BY <3>1, Lengths
    <3> QED
      BY <2>1, <3>1, <3>2 DEF Progress, UpdateProgress
  <2>4. Head(plan) \in {"AsteriskMove", "CallgroupMove"} =>
          AccountMoving(n, event.to) /\ CallgroupMoving(n, event.to)
    BY <2>1, RenamePlan DEF PendingIsConsistent
  <2> QED
    BY <2>2, <2>3, <2>4 DEF Raises, IsNext, CheckForUser, AccountMoving, CallgroupMoving
<1> QED
  BY <1>1, Invariance, PTL

(* An UPDATE_CALLGROUP is reported when the rows of the callgroup are      *)
(* those of the active members, whatever rows its former runs and other    *)
(* events left: the one pass over the active and the fetched members, in   *)
(* any order, misses none (EventHandler.py:284-296).                       *)
THEOREM CallgroupsReflectEvents == Spec => CallgroupReflectsEvent
<1> DEFINE Reflects == {row \in members : row[2] = event.number}
                         = event.active \X {event.number}
<1>1. ASSUME IInv, Report, event.kind = "members"
      PROVE  Reflects
  <2>1. InPass /\ todo = {} /\ members \subseteq Numbers \X Numbers
    BY <1>1, ReportPreserves DEF IInv, Structure, TypeOK
  <2>2. event \in Events
    BY <1>1 DEF Report, IInv, Structure, PlanFits, TypeOK
  <2>3. event.number \in Numbers /\ event.active \subseteq Numbers
    BY <1>1, <2>2, EventFields
  <2>4. \A ext \in Numbers : ext \in event.active <=> <<ext, event.number>> \in members
    BY <2>1 DEF InPass
  <2> QED
    BY <2>1, <2>3, <2>4
<1>2. ASSUME [Next]_vars, event # None, event' = None
      PROVE  Report
  BY <1>2 DEF Next, Work, AsteriskStatement, OmmStatement, Create, Crash, Restart, StartEvent,
     Raise, AsteriskDelete, AsteriskUpsert, AsteriskCreate, AsteriskMove, CallgroupUpsert,
     CallgroupDelete, CallgroupMove, FetchMembers, SyncMember, MembersSynced, OmmDelete, OmmCreate,
     OmmUpdate, OmmMove, Runs, guru3Vars, vars
<1>3. IInv /\ [Next]_vars =>
        [event # None /\ event' = None /\ event.kind = "members" => Reflects]_vars
  BY <1>1, <1>2
<1> QED
  BY <1>3, Invariance, PTL DEF Spec, CallgroupReflectsEvent
==============================================================================
