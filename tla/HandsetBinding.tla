--------------------------- MODULE HandsetBinding ---------------------------
(***************************************************************************)
(* How a handset comes to its extension.  find_unbound_pps looks for       *)
(* unbound handsets at the OMM and gives each a temporary user with an     *)
(* Asterisk account.  With it the token of an extension can be called;     *)
(* Asterisk posts the call (RegistrationMgr.py), and                       *)
(* try_device_registration moves the handset from the temporary user to    *)
(* the user of the extension.  UNSUBSCRIBE_DEVICE deletes the handset.     *)
(*                                                                         *)
(* All of it runs on the asyncio thread, one round of the collector or one *)
(* POST or event at a time; but handsets come and go, and the process      *)
(* may die, between any two requests.  Users are named by their number.    *)
(* What the handlers do to an extension is module Provisioning; here an    *)
(* extension with its OMM user comes and goes in one step.                 *)
(*                                                                         *)
(* External, modelled from how the code uses it: a handset belongs to one  *)
(* user and a user has one handset; attaching one to a user that has one   *)
(* is refused or takes the user away from the other; an unknown handset or *)
(* user is refused; a handset whose user is deleted is unbound; a POST may *)
(* come late or twice, and a number is not given out while one with it is  *)
(* under way.                                                              *)
(***************************************************************************)
EXTENDS Naturals, FiniteSets

CONSTANTS
  Handsets,       \* by ppn
  Temps,          \* numbers for temporary users
  Extensions,     \* numbers of DECT extensions
  None,           \* no handset, no number, no POST
  MaxCalls,       \* bound: tokens are called at most this often
  MaxEvents,      \* bound: events from Guru3
  MaxDepartures,  \* bound: handsets taken out of the OMM by others
  MaxCrashes      \* bound: the process is killed at most this often

Numbers == Temps \cup Extensions

ASSUME NumbersAssumption ==
  /\ Temps \cap Extensions = {}
  /\ None \notin Numbers \cup Handsets
  /\ Numbers \cap {"unbound", "gone"} = {}
  /\ Handsets \cap {"0", "absent"} = {}
ASSUME BoundsAssumption == {MaxCalls, MaxEvents, MaxDepartures, MaxCrashes} \subseteq Nat

VARIABLES
  holder,        \* OMM: whose handset it is, or "unbound" or "gone"
  ommUsers,      \* OMM: its users
  accounts,      \* Asterisk: the temporary accounts
  posts,         \* POSTs of Asterisk that may still arrive
  called,        \* history: the tokens called with a handset
  process,       \* "up" or "down"
  cache,         \* OMMMgr.users: for a number in it, the ppn read last
  collector,     \* where find_unbound_pps is
  batch,         \* the unbound handsets it has still to go through
  device,        \* its handset and temporary number
  temp,
  registration,  \* where try_device_registration is
  post,          \* its POST, and the ppn of the temporary user
  ppn,
  discarded,     \* history: was an UNSUBSCRIBE_DEVICE discarded wrongly?
  calls,         \* counters of the bounds
  events,
  departures,
  crashes

ommVars == <<holder, ommUsers>>
collectorVars == <<collector, batch, device, temp>>
registrationVars == <<registration, post, ppn>>
counters == <<calls, events, departures, crashes>>
worldVars == <<posts, called, discarded>>
vars == <<ommVars, accounts, worldVars, process, cache, collectorVars,
          registrationVars, counters>>

Posts == [from : Temps, to : Extensions]

TypeOK ==
  /\ holder \in [Handsets -> Numbers \cup {"unbound", "gone"}]
  /\ ommUsers \subseteq Numbers
  /\ accounts \subseteq Temps
  /\ posts \subseteq Posts
  /\ called \subseteq Handsets \X Extensions
  /\ process \in {"up", "down"}
  /\ cache \in [Numbers -> Handsets \cup {"absent", "0"}]
  /\ collector \in {"idle", "next", "attach", "account"}
  /\ batch \subseteq Handsets
  /\ device \in Handsets \cup {None}
  /\ temp \in Temps \cup {None}
  /\ registration \in {"idle", "detach", "attach", "delete", "clear"}
  /\ post \in Posts \cup {None}
  /\ ppn \in Handsets \cup {None, "0"}
  /\ discarded \in {"no", "yes"}
  /\ calls \in 0 .. MaxCalls /\ events \in 0 .. MaxEvents
  /\ departures \in 0 .. MaxDepartures /\ crashes \in 0 .. MaxCrashes

HandsetOf(n) ==
  IF \E d \in Handsets : holder[d] = n
    THEN CHOOSE d \in Handsets : holder[d] = n
    ELSE "0"

ThreadIdle == collector = "idle" /\ registration = "idle"

Forgotten ==
  /\ collector' = "idle" /\ batch' = {} /\ device' = None /\ temp' = None
  /\ registration' = "idle" /\ post' = None /\ ppn' = None

Init ==
  /\ holder = [d \in Handsets |-> "gone"]
  /\ ommUsers \in SUBSET Extensions
  /\ accounts = {} /\ posts = {} /\ called = {}
  /\ process = "up"
  /\ cache = [n \in Numbers |-> IF n \in ommUsers THEN "0" ELSE "absent"]
  /\ collector = "idle" /\ batch = {} /\ device = None /\ temp = None
  /\ registration = "idle" /\ post = None /\ ppn = None
  /\ discarded = "no"
  /\ calls = 0 /\ events = 0 /\ departures = 0 /\ crashes = 0
------------------------------------------------------------------------------
(* Handsets and their users.                                               *)

Outside == UNCHANGED <<ommUsers, accounts, discarded, process, cache, collectorVars,
                       registrationVars, events, crashes>>

Subscribe(d) ==
  /\ holder[d] = "gone"
  /\ holder' = [holder EXCEPT ![d] = "unbound"]
  /\ UNCHANGED <<posts, called, calls, departures>>
  /\ Outside

Leave(d) ==
  /\ holder[d] # "gone"
  /\ departures < MaxDepartures
  /\ departures' = departures + 1
  /\ holder' = [holder EXCEPT ![d] = "gone"]
  /\ UNCHANGED <<posts, called, calls>>
  /\ Outside

(* A call needs the Asterisk account of the temporary user.                *)
CallToken(d, extension) ==
  /\ holder[d] \in accounts
  /\ calls < MaxCalls
  /\ calls' = calls + 1
  /\ posts' = posts \cup {[from |-> holder[d], to |-> extension]}
  /\ called' = called \cup {<<d, extension>>}
  /\ UNCHANGED <<holder, departures>>
  /\ Outside

LosePost(p) ==
  /\ posts' = posts \ {p}
  /\ UNCHANGED <<holder, called, calls, departures>>
  /\ Outside
------------------------------------------------------------------------------
(* The process.                                                            *)

Crash ==
  /\ process = "up"
  /\ crashes < MaxCrashes
  /\ crashes' = crashes + 1
  /\ process' = "down"
  /\ cache' = [n \in Numbers |-> "absent"]
  /\ Forgotten
  /\ UNCHANGED <<ommVars, accounts, worldVars, calls, events, departures>>

(* Mutant: users without an extension's token are not read.                *)
Restart_SkipsTemps ==
  /\ process = "down"
  /\ process' = "up"
  /\ cache' = [n \in Numbers |->
                 IF n \in ommUsers \cap Extensions THEN HandsetOf(n) ELSE "absent"]
  /\ UNCHANGED <<ommVars, accounts, worldVars, collectorVars, registrationVars, counters>>

(* read_users: temporary users are managed by hexidian as well.            *)
Restart ==
  /\ process = "down"
  /\ process' = "up"
  /\ cache' = [n \in Numbers |-> IF n \in ommUsers THEN HandsetOf(n) ELSE "absent"]
  /\ UNCHANGED <<ommVars, accounts, worldVars, collectorVars, registrationVars, counters>>
------------------------------------------------------------------------------
(* OMMClient: the requests SetPP and DeletePPDev.                          *)

(* Mutant: the handset loses its user, but is not made unbound.            *)
DetachDevice_KeepsRelType(d, n) ==
  holder' = IF d \in Handsets /\ holder[d] = n
              THEN [holder EXCEPT ![d] = "0"]
              ELSE holder

(* detach_user_device; without a ppn it returns False at once.             *)
DetachDevice(d, n) ==
  holder' = IF d \in Handsets /\ holder[d] = n
              THEN [holder EXCEPT ![d] = "unbound"]
              ELSE holder

Moved(d, n) ==
  [other \in Handsets |->
     CASE other = d -> n
       [] other # d /\ holder[other] = n -> "unbound"
       [] OTHER -> holder[other]]

(* attach_user_device: done, or refused, which nobody looks at.            *)
AttachDevice(d, n) ==
  \/ /\ d \in Handsets /\ n \in ommUsers
     /\ holder[d] # "gone"
     /\ holder' = Moved(d, n)
  \/ /\ ~ (d \in Handsets /\ n \in ommUsers
             /\ holder[d] = "unbound" /\ HandsetOf(n) = "0")
     /\ UNCHANGED holder

(* OMMMgr.delete_user of a user in the cache.                              *)
DeleteUser(n) ==
  /\ ommUsers' = ommUsers \ {n}
  /\ cache' = [cache EXCEPT ![n] = "absent"]
  /\ holder' = [d \in Handsets |-> IF holder[d] = n THEN "unbound" ELSE holder[d]]
------------------------------------------------------------------------------
(* The event task.                                                         *)

HandlesEvent ==
  /\ process = "up"
  /\ ThreadIdle
  /\ events < MaxEvents
  /\ events' = events + 1
  /\ UNCHANGED <<accounts, posts, called, process, collectorVars, registrationVars,
                 calls, departures, crashes>>

CreateExtension(n) ==
  /\ HandlesEvent
  /\ n \notin ommUsers
  /\ ommUsers' = ommUsers \cup {n}
  /\ cache' = [cache EXCEPT ![n] = "0"]
  /\ UNCHANGED <<holder, discarded>>

DeleteExtension(n) ==
  /\ HandlesEvent
  /\ n \in ommUsers
  /\ DeleteUser(n)
  /\ UNCHANGED discarded

(* do_unsubscribe_device asks the cache, not the OMM, for the ppn.         *)
UnsubscribeDevice(n) ==
  /\ HandlesEvent
  /\ cache[n] # "absent"
  /\ \/ /\ cache[n] = "0"
        /\ discarded' = IF HandsetOf(n) = "0" THEN discarded ELSE "yes"
        /\ UNCHANGED holder
     \/ /\ cache[n] # "0"
        /\ holder' = [holder EXCEPT ![cache[n]] = "gone"]
        /\ UNCHANGED discarded
  /\ UNCHANGED <<ommUsers, cache>>

(* The number has no user: KeyError, which nobody catches.                 *)
UnsubscribeDeviceRaises(n) ==
  /\ process = "up"
  /\ ThreadIdle
  /\ events < MaxEvents
  /\ events' = events + 1
  /\ cache[n] = "absent"
  /\ process' = "down"
  /\ cache' = [m \in Numbers |-> "absent"]
  /\ Forgotten
  /\ UNCHANGED <<ommVars, accounts, worldVars, calls, departures, crashes>>

EventTask(n) ==
  \/ CreateExtension(n) \/ DeleteExtension(n)
  \/ UnsubscribeDevice(n) \/ UnsubscribeDeviceRaises(n)
------------------------------------------------------------------------------
(* find_unbound_pps.                                                       *)

Collects == UNCHANGED <<worldVars, process, registrationVars, counters>>

(* Mutant: the relType is not looked at.                                   *)
FindUnbound_All ==
  /\ process = "up"
  /\ ThreadIdle
  /\ batch' = {d \in Handsets : holder[d] # "gone"}
  /\ batch' # {}
  /\ collector' = "next"
  /\ UNCHANGED <<ommVars, accounts, cache, device, temp>>
  /\ Collects

(* get_devices, and the test of relType.                                   *)
FindUnbound ==
  /\ process = "up"
  /\ ThreadIdle
  /\ batch' = {d \in Handsets : holder[d] = "unbound"}
  /\ batch' # {}
  /\ collector' = "next"
  /\ UNCHANGED <<ommVars, accounts, cache, device, temp>>
  /\ Collects

(* A number that Asterisk does not know, and that is in no POST.           *)
FreeNumbers == {n \in Temps \ accounts : \A p \in posts : p.from # n}

TakeNext ==
  /\ collector = "next"
  /\ \E d \in batch : device' = d /\ batch' = batch \ {d}
  /\ temp' \in FreeNumbers

CreateTempUser ==
  /\ TakeNext
  /\ temp' \notin ommUsers
  /\ ommUsers' = ommUsers \cup {temp'}
  /\ cache' = [cache EXCEPT ![temp'] = "0"]
  /\ collector' = "attach"
  /\ UNCHANGED <<holder, accounts>>
  /\ Collects

(* The OMM refuses a second user of the number: TypeError in create_user,  *)
(* which nobody catches.                                                   *)
CreateTempUserRaises ==
  /\ collector = "next"
  /\ FreeNumbers \cap ommUsers # {}
  /\ process' = "down"
  /\ cache' = [n \in Numbers |-> "absent"]
  /\ Forgotten
  /\ UNCHANGED <<ommVars, accounts, worldVars, counters>>

AttachTempUser ==
  /\ collector = "attach"
  /\ AttachDevice(device, temp)
  /\ collector' = "account"
  /\ UNCHANGED <<ommUsers, accounts, cache, batch, device, temp>>
  /\ Collects

(* Mutant: the account is not committed.                                   *)
CreateTempAccount_Lost ==
  /\ collector = "account"
  /\ collector' = IF batch = {} THEN "idle" ELSE "next"
  /\ UNCHANGED <<ommVars, accounts, cache, batch, device, temp>>
  /\ Collects

CreateTempAccount ==
  /\ collector = "account"
  /\ accounts' = accounts \cup {temp}
  /\ collector' = IF batch = {} THEN "idle" ELSE "next"
  /\ UNCHANGED <<ommVars, cache, batch, device, temp>>
  /\ Collects

Collect ==
  FindUnbound \/ CreateTempUser \/ CreateTempUserRaises \/ AttachTempUser \/ CreateTempAccount
------------------------------------------------------------------------------
(* handle_post and try_device_registration.                                *)

Registers == UNCHANGED <<called, discarded, process, collectorVars, counters>>

Receive(p) ==
  /\ process = "up"
  /\ p \in posts
  /\ posts' \in {posts, posts \ {p}}

(* find_user by number and by token: both asked of the OMM.                *)
FindUsers(p) ==
  /\ Receive(p)
  /\ ThreadIdle
  /\ {p.from, p.to} \subseteq ommUsers
  /\ registration' = "detach"
  /\ post' = p
  /\ ppn' = HandsetOf(p.from)
  /\ UNCHANGED <<ommVars, accounts, cache>>
  /\ Registers

(* One of them is not found: 404.                                          *)
AnswerNak(p) ==
  /\ Receive(p)
  /\ ThreadIdle
  /\ ~ {p.from, p.to} \subseteq ommUsers
  /\ UNCHANGED <<ommVars, accounts, cache, registrationVars>>
  /\ Registers

(* transfer_pp ignores both results.                                       *)
DetachTempUser ==
  /\ registration = "detach"
  /\ DetachDevice(ppn, post.from)
  /\ registration' = "attach"
  /\ UNCHANGED <<posts, ommUsers, accounts, cache, post, ppn>>
  /\ Registers

AttachExtension ==
  /\ registration = "attach"
  /\ AttachDevice(ppn, post.to)
  /\ registration' = "delete"
  /\ UNCHANGED <<posts, ommUsers, accounts, cache, post, ppn>>
  /\ Registers

DeleteTempUser ==
  /\ registration = "delete"
  /\ DeleteUser(post.from)
  /\ registration' = "clear"
  /\ UNCHANGED <<posts, accounts, post, ppn>>
  /\ Registers

(* Mutant: the account of the temporary user is not deleted.               *)
DeleteTempAccount_Kept ==
  /\ registration = "clear"
  /\ registration' = "idle"
  /\ post' = None /\ ppn' = None
  /\ UNCHANGED <<posts, accounts, ommVars, cache>>
  /\ Registers

DeleteTempAccount ==
  /\ registration = "clear"
  /\ accounts' = accounts \ {post.from}
  /\ registration' = "idle"
  /\ post' = None /\ ppn' = None
  /\ UNCHANGED <<posts, ommVars, cache>>
  /\ Registers

Transfer == DetachTempUser \/ AttachExtension \/ DeleteTempUser \/ DeleteTempAccount
Register == (\E p \in posts : FindUsers(p) \/ AnswerNak(p)) \/ Transfer
------------------------------------------------------------------------------
Next ==
  \/ \E d \in Handsets :
       Subscribe(d) \/ Leave(d) \/ \E n \in Extensions : CallToken(d, n)
  \/ \E p \in posts : LosePost(p)
  \/ Crash \/ Restart
  \/ \E n \in Extensions : EventTask(n)
  \/ Collect \/ Register

Spec == Init /\ [][Next]_vars

(* The loop runs its tasks, every 404 or transfer comes to its end, and a  *)
(* supervisor restarts the process.  Temporary numbers are drawn at        *)
(* random, so it is not one that is taken at the OMM for ever.             *)
FairSpec ==
  /\ Spec
  /\ WF_vars(Restart)
  /\ SF_vars(FindUnbound)
  /\ WF_vars(Collect)
  /\ SF_vars(CreateTempUser)
  /\ WF_vars(Transfer)
------------------------------------------------------------------------------
(* Properties.                                                             *)

(* A handset lives as HandsetLife says.  In particular the collector, which *)
(* works on a list it read before, never takes a handset from its user,    *)
(* and no POST connects a handset to an extension it did not call.         *)
Life == INSTANCE HandsetLife
          WITH Handsets <- Handsets, Temps <- Temps, Extensions <- Extensions,
               holder <- holder, called <- called
ImplementsHandsetLife == Life!Spec

(* The temporary users and accounts nobody uses, while no task is at them. *)
Orphans ==
  {n \in Temps : /\ n \in ommUsers \cup accounts
                 /\ \A d \in Handsets : holder[d] # n}

(* No temporary number is left behind but by a crash, a handset that goes  *)
(* or an UNSUBSCRIBE_DEVICE, which may hit a handset that changed hands;   *)
(* and each costs at most one: repeated, late and refused POSTs leave none.*)
OrphansHaveACause ==
  ThreadIdle => Cardinality(Orphans) <= crashes + departures + events

(* try_device_registration finds the temporary user in the cache whenever  *)
(* it found it at the OMM, also after a restart: no KeyError.              *)
CacheKnowsTempUser == registration = "delete" => cache[post.from] # "absent"

(* The handset is of use: with a temporary account or an extension.        *)
CanCall(d) == holder[d] \in accounts \cup Extensions \cup {"gone"}

(* A crash fell between the temporary user and its account.                *)
Stranded(d) == crashes > 0 /\ holder[d] \in Temps \ accounts

(* README.md:14: a new handset gets a temporary user with which it can     *)
(* call, or it leaves, whatever handsets, POSTs and events do meanwhile;   *)
(* but a crash may strand it, and a temporary number must be left for it.  *)
EveryHandsetCanCall ==
  \A d \in Handsets :
    holder[d] = "unbound" ~> CanCall(d) \/ Stranded(d) \/ FreeNumbers \subseteq ommUsers

(* EventHandler.py:248: the event is discarded since the user has no PP.   *)
DiscardedOnlyWithoutPP == discarded = "no"
==============================================================================
