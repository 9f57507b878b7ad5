---------------------------- MODULE Provisioning ----------------------------
(***************************************************************************)
(* What the handlers of EventHandler.py do to the three stores of an       *)
(* extension: the Asterisk database (AsteriskMgr.py), the users of the OMM *)
(* (OMMMgr.py, OMMClient.py) and hexidian's cache of these users.          *)
(*                                                                         *)
(* Guru3 hands over one event after the other (module Guru3Events).  A     *)
(* handler is a list of statements; every statement is one committed       *)
(* database transaction or one OMM request, and the process may die        *)
(* between any two of them.  Guru3 then lists the event again and the next *)
(* process runs its handler from the start.                                *)
(*                                                                         *)
(* A version stands for the name with the password or token that Guru3     *)
(* gives an extension.  External, modelled from how the code uses them:    *)
(* the OMM answers in time, keeps one user per number and refuses a        *)
(* request that would give a number to a second one; ids are primary keys  *)
(* of the database, and so are the numbers of callgroups.                  *)
(***************************************************************************)
EXTENDS Naturals, Sequences

CONSTANTS
  Numbers,     \* the telephone numbers
  Uids,        \* user ids of the OMM, which may be given again
  Versions,    \* what Guru3 says about an extension
  Generated,   \* what create_password returns
  Kinds,       \* the events Guru3 creates, updates named by their type
  None,        \* no row, no user, no event, no change
  MaxEvents,   \* bound: Guru3 creates at most this many events
  MaxCrashes   \* bound: the process is killed at most this often

Types == {"SIP", "DECT", "GROUP", "OTHER"}
Statements == {"OmmDelete", "OmmUpdate", "OmmCreate", "OmmMove",
               "AsteriskDelete", "AsteriskUpsert", "AsteriskCreate",
               "AsteriskMove", "CallgroupUpsert", "CallgroupDelete",
               "CallgroupMove", "FetchMembers", "SyncMembers"}

ASSUME KindsAssumption == Kinds \subseteq Types \cup {"delete", "rename", "members"}
ASSUME BoundsAssumption == MaxEvents \in Nat /\ MaxCrashes \in Nat

VARIABLES
  served,      \* Guru3: the extensions after the events completed so far
  event,       \* Guru3: the event not completed yet
  accounts,    \* Asterisk: the password of the aor, auth and endpoint
  callgroups,  \* Asterisk: table callgroups
  members,     \* Asterisk: table callgroup_members
  omm,         \* OMM: its users managed by hexidian
  process,     \* "down", "idle" or "handling" an event
  users,       \* OMMMgr.users: number to uid
  changes,     \* PPUser.changes, one dict for all users
  plan,        \* the statements the handler has still to run
  sipPassword, \* the handler's password for a new DECT extension
  current,     \* the members do_update_callgroup fetched at its start
  todo,        \* the extensions its loop has still to look at
  spilled,     \* history: did a SetPPUser carry another user's values?
  events,      \* counters of the two bounds
  crashes

guru3Vars == <<served, event, events>>
asteriskVars == <<accounts, callgroups, members>>
ommVars == <<omm, users, changes, spilled>>
passVars == <<current, todo>>
vars == <<guru3Vars, asteriskVars, ommVars, process, plan, sipPassword, passVars, crashes>>

Extensions == [type : Types, version : Versions]
Users == [num : Numbers, info : Versions, sipPw : Generated]
Events ==
  [kind : {"update"}, number : Numbers, type : Types, version : Versions]
    \cup [kind : {"delete"}, number : Numbers]
    \cup [kind : {"rename"}, number : Numbers, to : Numbers]
    \cup [kind : {"members"}, number : Numbers, active : SUBSET Numbers]

ASSUME NoneAssumption ==
  /\ None \notin Numbers \cup Uids \cup Versions \cup Generated
  /\ None \notin Extensions \cup Users \cup Events

TypeOK ==
  /\ served \in [Numbers -> Extensions \cup {None}]
  /\ event \in Events \cup {None}
  /\ accounts \in [Numbers -> Versions \cup Generated \cup {None}]
  /\ callgroups \in [Numbers -> Versions \cup {None}]
  /\ members \subseteq Numbers \X Numbers
  /\ omm \in [Uids -> Users \cup {None}]
  /\ process \in {"down", "idle", "handling"}
  /\ users \in [Numbers -> Uids \cup {None}]
  /\ changes \in [info : Versions \cup {None}, num : Numbers \cup {None}]
  /\ plan \in Seq(Statements)
  /\ sipPassword \in Generated \cup {None}
  /\ current \subseteq Numbers
  /\ todo \subseteq Numbers
  /\ spilled \in {"no", "yes"}
  /\ events \in 0 .. MaxEvents
  /\ crashes \in 0 .. MaxCrashes

Nowhere == [n \in Numbers |-> None]
NoChanges == [info |-> None, num |-> None]
Exists(uid) == omm[uid] # None
NumberTaken(n) == \E uid \in Uids : Exists(uid) /\ omm[uid].num = n
Type(n) == IF served[n] = None THEN "OTHER" ELSE served[n].type

Init ==
  /\ served = Nowhere
  /\ event = None
  /\ accounts = Nowhere
  /\ callgroups = Nowhere
  /\ members = {}
  /\ omm = [uid \in Uids |-> None]
  /\ process = "idle"
  /\ users = Nowhere
  /\ changes = NoChanges
  /\ plan = <<>>
  /\ sipPassword = None
  /\ current = {} /\ todo = {}
  /\ spilled = "no"
  /\ events = 0
  /\ crashes = 0
------------------------------------------------------------------------------
(* Guru3.                                                                  *)

PossibleEvents ==
  LET Known == {n \in Numbers : served[n] # None}
  IN {e \in Events :
        \/ e.kind = "update" /\ e.type \in Kinds
        \/ e.kind = "delete" /\ "delete" \in Kinds /\ e.number \in Known
        \/ e.kind = "rename" /\ "rename" \in Kinds /\ e.number \in Known
                             /\ e.to \notin Known
        \/ e.kind = "members" /\ "members" \in Kinds
                              /\ Type(e.number) = "GROUP"
                              /\ e.active \subseteq Known \ {e.number}}

Create ==
  /\ event = None
  /\ events < MaxEvents
  /\ events' = events + 1
  /\ event' \in PossibleEvents
  /\ UNCHANGED <<served, asteriskVars, ommVars, process, plan, sipPassword, passVars,
                 crashes>>

(* Guru3's extensions once the event is complete.                          *)
ServedAfter(e) ==
  CASE e.kind = "update" ->
         [served EXCEPT ![e.number] = [type |-> e.type, version |-> e.version]]
    [] e.kind = "delete" -> [served EXCEPT ![e.number] = None]
    [] e.kind = "rename" ->
         [served EXCEPT ![e.number] = None, ![e.to] = served[e.number]]
    [] e.kind = "members" -> served
------------------------------------------------------------------------------
(* The process.                                                            *)

(* The variables of a handler are gone.                                    *)
HandlerEnds ==
  /\ sipPassword' = None
  /\ current' = {} /\ todo' = {}

Die ==
  /\ process' = "down"
  /\ users' = Nowhere
  /\ changes' = NoChanges
  /\ plan' = <<>>
  /\ HandlerEnds

Crash ==
  /\ process # "down"
  /\ crashes < MaxCrashes
  /\ crashes' = crashes + 1
  /\ Die
  /\ UNCHANGED <<guru3Vars, asteriskVars, omm, spilled>>

(* Mutant: no read_users after the login.                                  *)
Restart_WithoutReadUsers ==
  /\ process = "down"
  /\ process' = "idle"
  /\ UNCHANGED <<guru3Vars, asteriskVars, ommVars, plan, sipPassword, passVars, crashes>>

(* A new process logs in to the OMM and reads its users into the cache.    *)
Restart ==
  /\ process = "down"
  /\ process' = "idle"
  /\ users' = [n \in Numbers |->
                 IF NumberTaken(n)
                   THEN CHOOSE uid \in Uids : Exists(uid) /\ omm[uid].num = n
                   ELSE None]
  /\ UNCHANGED <<guru3Vars, asteriskVars, omm, changes, spilled, plan,
                 sipPassword, passVars, crashes>>

(* Each handler's statements in the order of the code.  A conditional      *)
(* deletion or move is a statement that may find nothing to do.            *)

SipStatements == <<"OmmDelete", "AsteriskUpsert">>
GroupStatements == <<"OmmDelete", "AsteriskDelete", "CallgroupUpsert">>
DeleteStatements == <<"AsteriskDelete", "OmmDelete", "CallgroupDelete">>
RenameStatements == <<"AsteriskMove", "OmmMove", "CallgroupMove">>

(* Mutant: a new DECT extension does not clear what a SIP extension or an  *)
(* interrupted handler left behind.                                        *)
DectStatements_KeepsAccount(number) ==
  IF users[number] # None THEN <<"OmmUpdate">> ELSE <<"AsteriskCreate", "OmmCreate">>

DectStatements(number) ==
  IF users[number] # None
    THEN <<"OmmUpdate">>
    ELSE <<"AsteriskDelete", "AsteriskCreate", "OmmCreate">>

(* Mutant: a SIP update leaves the OMM user of the number alone.           *)
UpdateStatements_SipKeepsOmmUser(e) ==
  CASE e.type = "SIP" -> <<"AsteriskUpsert">>
    [] e.type = "DECT" -> DectStatements(e.number)
    [] e.type = "GROUP" -> GroupStatements
    [] e.type = "OTHER" -> <<"OmmDelete", "AsteriskDelete">>

UpdateStatements(e) ==
  CASE e.type = "SIP" -> SipStatements
    [] e.type = "DECT" -> DectStatements(e.number)
    [] e.type = "GROUP" -> GroupStatements
    [] e.type = "OTHER" -> <<"OmmDelete", "AsteriskDelete">>

Handler(e) ==
  CASE e.kind = "update" -> UpdateStatements(e)
    [] e.kind = "delete" -> DeleteStatements
    [] e.kind = "rename" -> RenameStatements
    [] e.kind = "members" -> <<"FetchMembers", "SyncMembers">>

StartEvent ==
  /\ process = "idle"
  /\ event # None
  /\ process' = "handling"
  /\ plan' = Handler(event)
  /\ UNCHANGED <<guru3Vars, asteriskVars, ommVars, sipPassword, passVars, crashes>>

(* The handler returned and mark_event_complete reported the event.        *)
Report ==
  /\ process = "handling"
  /\ plan = <<>>
  /\ process' = "idle"
  /\ served' = ServedAfter(event)
  /\ event' = None
  /\ HandlerEnds
  /\ UNCHANGED <<events, asteriskVars, ommVars, plan, crashes>>

(* The next statement of the plan is s.                                    *)
IsNext(s) == plan # <<>> /\ Head(plan) = s

Runs(s) ==
  /\ IsNext(s)
  /\ plan' = Tail(plan)
  /\ UNCHANGED <<guru3Vars, process, passVars, crashes>>
------------------------------------------------------------------------------
(* Statements: AsteriskMgr.  Each is one transaction.                      *)

OnlyAccounts == UNCHANGED <<callgroups, members, ommVars>>
OnlyCallgroups == UNCHANGED <<accounts, ommVars, sipPassword>>

CheckForUser(n) == accounts[n] # None
UpdateUser(n, password) == accounts' = [accounts EXCEPT ![n] = password]

(* The number is a primary key: a second insert raises.                    *)
CreateUser(n, password) ==
  /\ ~CheckForUser(n)
  /\ accounts' = [accounts EXCEPT ![n] = password]

AsteriskDelete ==
  /\ Runs("AsteriskDelete")
  /\ accounts' = [accounts EXCEPT ![event.number] = None]
  /\ UNCHANGED sipPassword
  /\ OnlyAccounts

AsteriskUpsert ==
  /\ Runs("AsteriskUpsert")
  /\ IF CheckForUser(event.number)
       THEN UpdateUser(event.number, event.version)
       ELSE CreateUser(event.number, event.version)
  /\ UNCHANGED sipPassword
  /\ OnlyAccounts

(* create_user for a DECT extension, with a new password.                  *)
AsteriskCreate ==
  /\ Runs("AsteriskCreate")
  /\ sipPassword' \in Generated
  /\ CreateUser(event.number, sipPassword')
  /\ OnlyAccounts

(* move_user of a number that check_for_user finds.                        *)
AsteriskMove ==
  /\ Runs("AsteriskMove")
  /\ \/ /\ ~CheckForUser(event.number)
        /\ UNCHANGED accounts
     \/ /\ CheckForUser(event.number)
        /\ ~CheckForUser(event.to)
        /\ accounts' = [accounts EXCEPT ![event.number] = None,
                                        ![event.to] = accounts[event.number]]
  /\ UNCHANGED sipPassword
  /\ OnlyAccounts

(* update_callgroup when check_for_callgroup finds it, else create_callgroup. *)
CallgroupUpsert ==
  /\ Runs("CallgroupUpsert")
  /\ callgroups' = [callgroups EXCEPT ![event.number] = event.version]
  /\ UNCHANGED members
  /\ OnlyCallgroups

(* delete_callgroup deletes the callgroup and the rows that make its       *)
(* number a member of another; the rows of its own members stay.           *)
CallgroupDelete ==
  /\ Runs("CallgroupDelete")
  /\ callgroups' = [callgroups EXCEPT ![event.number] = None]
  /\ members' = IF callgroups[event.number] = None
                  THEN members
                  ELSE {row \in members : row[1] # event.number}
  /\ OnlyCallgroups

(* move_callgroup moves the callgroup with the rows of its members.        *)
CallgroupMove ==
  /\ Runs("CallgroupMove")
  /\ \/ /\ callgroups[event.number] = None
        /\ UNCHANGED <<callgroups, members>>
     \/ /\ callgroups[event.number] # None
        /\ callgroups[event.to] = None
        /\ callgroups' = [callgroups EXCEPT ![event.number] = None,
                                            ![event.to] = callgroups[event.number]]
        /\ members' = {<<row[1], IF row[2] = event.number THEN event.to ELSE row[2]>> :
                         row \in members}
  /\ OnlyCallgroups

(* do_update_callgroup: one pass over set(active + current), the members   *)
(* as they were at its start, in any order.                                *)
MembersOf(group) == {ext \in Numbers : <<ext, group>> \in members}

(* Mutant: the pass is over the active extensions.                         *)
FetchMembers_PassOverActive ==
  /\ IsNext("FetchMembers")
  /\ plan' = Tail(plan)
  /\ current' = MembersOf(event.number)
  /\ todo' = event.active
  /\ UNCHANGED <<guru3Vars, process, crashes, callgroups, members>>
  /\ OnlyCallgroups

FetchMembers ==
  /\ IsNext("FetchMembers")
  /\ plan' = Tail(plan)
  /\ current' = MembersOf(event.number)
  /\ todo' = event.active \cup current'
  /\ UNCHANGED <<guru3Vars, process, crashes, callgroups, members>>
  /\ OnlyCallgroups

AddMember(ext, group) == members' = members \cup {<<ext, group>>}
RemoveMember(ext, group) == members' = members \ {<<ext, group>>}

(* One transaction for each member to add or to remove.                    *)
SyncMember(ext) ==
  /\ IsNext("SyncMembers")
  /\ todo' = todo \ {ext}
  /\ \/ ext \in event.active \cap current /\ UNCHANGED members
     \/ ext \in event.active \ current /\ AddMember(ext, event.number)
     \/ ext \notin event.active /\ RemoveMember(ext, event.number)
  /\ UNCHANGED <<guru3Vars, process, plan, crashes, callgroups, current>>
  /\ OnlyCallgroups

MembersSynced ==
  /\ todo = {}
  /\ Runs("SyncMembers")
  /\ UNCHANGED <<callgroups, members>>
  /\ OnlyCallgroups
------------------------------------------------------------------------------
(* Statements: OMMMgr.  Each is one request; the cache changes with it.    *)

OnlyOmm == UNCHANGED <<asteriskVars, sipPassword>>

(* OMMClient: the requests.  The OMM refuses a number that is taken.       *)
DeletePPUser(uid) == omm' = [omm EXCEPT ![uid] = None]

CreatePPUser(uid, number, info, password) ==
  /\ ~NumberTaken(number)
  /\ ~Exists(uid)
  /\ omm' = [omm EXCEPT ![uid] = [num |-> number, info |-> info, sipPw |-> password]]

(* update_user sends all that PPUser.changes holds by now to the user uid. *)
SetPPUser(uid, message) ==
  LET old == omm[uid]
      new == [old EXCEPT !.info = IF message.info = None THEN @ ELSE message.info,
                         !.num = IF message.num = None THEN @ ELSE message.num]
  IN omm' = IF \E other \in Uids \ {uid} : Exists(other) /\ omm[other].num = new.num
              THEN omm
              ELSE [omm EXCEPT ![uid] = new]

(* Setting an attribute of a PPUser adds it to the changes of its class.   *)
SetAttribute(field, value) == changes' = [changes EXCEPT ![field] = value]

OmmDelete ==
  /\ Runs("OmmDelete")
  /\ LET uid == users[event.number]
     IN IF uid = None
          THEN UNCHANGED <<omm, users>>
          ELSE /\ users' = [users EXCEPT ![event.number] = None]
               /\ DeletePPUser(uid)
  /\ UNCHANGED <<changes, spilled>>
  /\ OnlyOmm

(* Mutant: the OMM user gets a password of its own.                        *)
OmmCreate_OwnPassword ==
  /\ Runs("OmmCreate")
  /\ \E uid \in Uids, password \in Generated :
       /\ CreatePPUser(uid, event.number, event.version, password)
       /\ users' = [users EXCEPT ![event.number] = uid]
  /\ sipPassword' = None
  /\ UNCHANGED <<asteriskVars, changes, spilled>>

(* Mutant: the number goes into the cache where the user belongs.          *)
OmmCreate_CachesNumber ==
  /\ Runs("OmmCreate")
  /\ \E uid \in Uids : CreatePPUser(uid, event.number, event.version, sipPassword)
  /\ users' = [users EXCEPT ![event.number] = event.number]
  /\ sipPassword' = None
  /\ UNCHANGED <<asteriskVars, changes, spilled>>

(* create_user: the new user is read back into the cache.                  *)
OmmCreate ==
  /\ Runs("OmmCreate")
  /\ \E uid \in Uids :
       /\ CreatePPUser(uid, event.number, event.version, sipPassword)
       /\ users' = [users EXCEPT ![event.number] = uid]
  /\ sipPassword' = None
  /\ UNCHANGED <<asteriskVars, changes, spilled>>

(* The message has values that are neither the user's nor meant for it.    *)
Spills(foreign, own) == foreign \notin {None, own}

(* update_user_info of a user the cache holds.                             *)
OmmUpdate ==
  LET uid == users[event.number]
  IN /\ Runs("OmmUpdate")
     /\ SetAttribute("info", event.version)
     /\ SetPPUser(uid, changes')
     /\ spilled' = IF Spills(changes.num, omm[uid].num) THEN "yes" ELSE spilled
     /\ UNCHANGED users
     /\ OnlyOmm

(* move_user, with num and sipAuthId always the same number.               *)
OmmMove ==
  LET uid == users[event.number]
  IN /\ Runs("OmmMove")
     /\ IF uid = None
          THEN UNCHANGED ommVars
          ELSE /\ users' = [users EXCEPT ![event.number] = None, ![event.to] = uid]
               /\ SetAttribute("num", event.to)
               /\ SetPPUser(uid, changes')
               /\ spilled' = IF Spills(changes.info, omm[uid].info) THEN "yes"
                                                                   ELSE spilled
     /\ OnlyOmm
------------------------------------------------------------------------------
(* A primary key that exists, or the None of a refused CreatePPUser.       *)
Raises ==
  \/ IsNext("AsteriskCreate") /\ CheckForUser(event.number)
  \/ IsNext("AsteriskMove") /\ CheckForUser(event.number) /\ CheckForUser(event.to)
  \/ IsNext("CallgroupMove") /\ callgroups[event.number] # None
                             /\ callgroups[event.to] # None
  \/ IsNext("OmmCreate") /\ NumberTaken(event.number)

(* The exception ends the process.                                         *)
Raise ==
  /\ Raises
  /\ Die
  /\ UNCHANGED <<guru3Vars, asteriskVars, omm, spilled, crashes>>

AsteriskStatement ==
  \/ AsteriskDelete \/ AsteriskUpsert \/ AsteriskCreate \/ AsteriskMove
  \/ CallgroupUpsert \/ CallgroupDelete \/ CallgroupMove
  \/ FetchMembers \/ (\E ext \in todo : SyncMember(ext)) \/ MembersSynced

OmmStatement == OmmDelete \/ OmmCreate \/ OmmUpdate \/ OmmMove

Work == StartEvent \/ AsteriskStatement \/ OmmStatement \/ Raise \/ Report

Next == Create \/ Crash \/ Restart \/ Work

Spec == Init /\ [][Next]_vars

(* The process runs on by itself, and a dead one is started again.         *)
FairSpec == Spec /\ WF_vars(Restart) /\ WF_vars(Work)
------------------------------------------------------------------------------
(* Properties.  All but the last say nothing once a SetPPUser spilled the  *)
(* values of one user into another.                                        *)

Clean == spilled = "no"

(* Between two events the stores hold exactly what Guru3 asked for: SIP    *)
(* and DECT extensions have accounts, SIP ones with Guru3's password, DECT *)
(* ones are users of the OMM, groups exist, and no account, user or        *)
(* callgroup is left of a deleted extension, whatever crash and second run *)
(* of a handler led here.  (An extension that is no longer a group keeps   *)
(* its row in callgroups until it is deleted.)                             *)
MirrorsGuru3 ==
  Clean /\ event = None =>
    \A n \in Numbers :
      /\ accounts[n] # None <=> Type(n) \in {"SIP", "DECT"}
      /\ Type(n) = "SIP" => accounts[n] = served[n].version
      /\ NumberTaken(n) <=> Type(n) = "DECT"
      /\ Type(n) = "GROUP" => callgroups[n] = served[n].version
      /\ callgroups[n] # None => served[n] # None

(* A handset can register: the OMM knows the password that Asterisk will   *)
(* ask its user for, and the name and token are the ones Guru3 gave last.  *)
OmmUsersAreUsable ==
  Clean /\ event = None =>
    \A uid \in Uids :
      Exists(uid) => /\ accounts[omm[uid].num] = omm[uid].sipPw
                     /\ served[omm[uid].num].version = omm[uid].info

(* The cache a handler consults agrees with the OMM at every statement.    *)
CacheMatchesOmm ==
  Clean /\ process # "down" =>
    \A n \in Numbers, uid \in Uids :
      users[n] = uid <=> Exists(uid) /\ omm[uid].num = n

(* No event makes its handler raise, in any process that runs it again:    *)
(* one that did would stop hexidian at every start (EventHandler.py:61-67). *)
NoHandlerRaises == Clean => ~Raises

(* A completed UPDATE_CALLGROUP left exactly the active members, also when *)
(* a crash split its transactions (EventHandler.py:284).                   *)
CallgroupReflectsEvent ==
  [][event # None /\ event' = None /\ event.kind = "members" =>
       {row \in members : row[2] = event.number} = event.active \X {event.number}]_vars

(* Every event is completed, or values were spilled.                       *)
EveryEventCompletes == event # None ~> event = None \/ ~Clean

(* OMMClient.py:670: update_user updates a user by the changes done to the *)
(* PPUser object it is given, so none of another user's.                   *)
NothingSpills == spilled = "no"
==============================================================================
