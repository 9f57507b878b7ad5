------------------------ MODULE HandsetBindingProofs ------------------------
(***************************************************************************)
(* Proofs about HandsetBinding, for every number of handsets, numbers,     *)
(* calls, events, departures and crashes.                                  *)
(*                                                                         *)
(* The invariant says what the collector and the registration may rely on  *)
(* when they come back from a request: the handset in hand is with nobody  *)
(* else, since only they bind handsets and exclude each other, and a       *)
(* number in a POST belongs to the handset the call was made with, since   *)
(* it is not given to another one meanwhile.                               *)
(*                                                                         *)
(* That temporary numbers are not lost is a matter of counting: a number   *)
(* without a handset that no task has in hand, and a handset the collector *)
(* will fail to attach since it left, has a crash, a departure or an event *)
(* of its own.                                                             *)
(***************************************************************************)
EXTENDS HandsetBinding, FiniteSetTheorems, TLAPS

(* A handset belongs to a user of the OMM, and a user has one handset.     *)
HoldersAreUsers == \A d \in Handsets : holder[d] \in Numbers => holder[d] \in ommUsers
OneHandset ==
  \A d1, d2 \in Handsets : d1 # d2 /\ holder[d1] \in Numbers => holder[d1] # holder[d2]

CacheShowsUsers ==
  process = "up" => \A n \in Numbers : cache[n] # "absent" <=> n \in ommUsers

(* A POST is about the handset that has its number.                        *)
CalledBefore ==
  \A p \in posts, d \in Handsets : holder[d] = p.from => <<d, p.to>> \in called

WithNobody(d) == holder[d] \in {"unbound", "gone"}

CollectorKnows ==
  /\ collector # "idle" =>
       process = "up" /\ registration = "idle" /\ \A d \in batch : WithNobody(d)
  /\ collector \in {"attach", "account"} => device \in Handsets /\ temp \in Temps
  /\ collector = "attach" =>
       /\ WithNobody(device) /\ device \notin batch
       /\ temp \in ommUsers
       /\ \A d \in Handsets : holder[d] # temp
       /\ \A p \in posts : p.from # temp

RegistrationKnows ==
  /\ registration # "idle" =>
       process = "up" /\ collector = "idle" /\ post \in Posts /\ ppn \in Handsets \cup {"0"}
  /\ registration \in {"detach", "attach", "delete"} => post.from \in ommUsers
  /\ registration \in {"detach", "attach"} /\ ppn \in Handsets => <<ppn, post.to>> \in called
  /\ registration = "detach" /\ ppn \in Handsets => WithNobody(ppn) \/ holder[ppn] = post.from
  /\ registration = "attach" /\ ppn \in Handsets => WithNobody(ppn)

IInv ==
  /\ TypeOK
  /\ HoldersAreUsers /\ OneHandset /\ CacheShowsUsers /\ CalledBefore
  /\ CollectorKnows /\ RegistrationKnows

LEMMA InitEstablishes == Init => IInv
<1> SUFFICES ASSUME Init PROVE IInv
  OBVIOUS
<1>1. TypeOK
  BY NumbersAssumption, BoundsAssumption DEF Init, TypeOK, Numbers
<1>2. HoldersAreUsers /\ OneHandset /\ CalledBefore
  BY NumbersAssumption DEF Init, HoldersAreUsers, OneHandset, CalledBefore
<1>3. CacheShowsUsers /\ CollectorKnows /\ RegistrationKnows
  BY DEF Init, CacheShowsUsers, CollectorKnows, RegistrationKnows
<1> QED
  BY <1>1, <1>2, <1>3 DEF IInv
------------------------------------------------------------------------------
(* Handsets, callers and Asterisk.                                         *)

LEMMA SubscribePreserves ==
  ASSUME IInv, NEW d \in Handsets, Subscribe(d)
  PROVE  IInv' /\ Life!Subscribe(d)
<1> USE DEF Outside, collectorVars, registrationVars
<1>1. /\ holder[d] = "gone" /\ holder' \in [Handsets -> Numbers \cup {"unbound", "gone"}]
      /\ \A e \in Handsets : holder'[e] = IF e = d THEN "unbound" ELSE holder[e]
  BY DEF Subscribe, IInv, TypeOK
<1>2. TypeOK'
  BY <1>1 DEF Subscribe, IInv, TypeOK, Posts, Numbers
<1>3. HoldersAreUsers' /\ OneHandset' /\ CacheShowsUsers'
  BY <1>1, NumbersAssumption
     DEF Subscribe, IInv, HoldersAreUsers, OneHandset, CacheShowsUsers, Numbers
<1>4. CalledBefore'
  BY <1>1, NumbersAssumption DEF Subscribe, IInv, TypeOK, CalledBefore, Posts, Numbers
<1>5. CollectorKnows'
  BY <1>1, NumbersAssumption DEF Subscribe, IInv, TypeOK, CollectorKnows, WithNobody, Numbers
<1>6. RegistrationKnows'
  BY <1>1 DEF Subscribe, IInv, RegistrationKnows, WithNobody, Posts
<1>7. Life!Subscribe(d)
  BY DEF Subscribe, Life!Subscribe
<1> QED
  BY <1>2, <1>3, <1>4, <1>5, <1>6, <1>7 DEF IInv

(* A handset leaves, by itself or with an UNSUBSCRIBE_DEVICE.              *)
LEMMA GoneKeeps ==
  ASSUME IInv, NEW d \in Handsets, holder' = [holder EXCEPT ![d] = "gone"],
         UNCHANGED <<ommUsers, accounts, posts, called, process, cache, collectorVars,
                     registrationVars>>
  PROVE  /\ holder' \in [Handsets -> Numbers \cup {"unbound", "gone"}]
         /\ HoldersAreUsers' /\ OneHandset' /\ CacheShowsUsers' /\ CalledBefore'
         /\ CollectorKnows' /\ RegistrationKnows'
         /\ Life!Leave(d)
<1> USE DEF collectorVars, registrationVars
<1>1. /\ holder' \in [Handsets -> Numbers \cup {"unbound", "gone"}]
      /\ \A e \in Handsets : holder'[e] = IF e = d THEN "gone" ELSE holder[e]
  BY DEF IInv, TypeOK
<1>2. HoldersAreUsers' /\ OneHandset' /\ CacheShowsUsers'
  BY <1>1, NumbersAssumption
     DEF IInv, HoldersAreUsers, OneHandset, CacheShowsUsers, Numbers
<1>3. CalledBefore'
  BY <1>1, NumbersAssumption DEF IInv, TypeOK, CalledBefore, Posts, Numbers
<1>4. CollectorKnows'
  BY <1>1, NumbersAssumption DEF IInv, TypeOK, CollectorKnows, WithNobody, Numbers
<1>5. RegistrationKnows'
  BY <1>1 DEF IInv, RegistrationKnows, WithNobody, Posts
<1>6. Life!Leave(d)
  BY DEF Life!Leave
<1> QED
  BY <1>1, <1>2, <1>3, <1>4, <1>5, <1>6

LEMMA LeavePreserves ==
  ASSUME IInv, NEW d \in Handsets, Leave(d)
  PROVE  IInv' /\ Life!Leave(d)
<1> USE DEF Outside, collectorVars, registrationVars
<1>1. /\ holder' \in [Handsets -> Numbers \cup {"unbound", "gone"}]
      /\ HoldersAreUsers' /\ OneHandset' /\ CacheShowsUsers' /\ CalledBefore'
      /\ CollectorKnows' /\ RegistrationKnows' /\ Life!Leave(d)
  BY GoneKeeps DEF Leave
<1>2. TypeOK'
  BY <1>1, BoundsAssumption DEF Leave, IInv, TypeOK, Posts, Numbers
<1> QED
  BY <1>1, <1>2 DEF IInv

LEMMA CallTokenPreserves ==
  ASSUME IInv, NEW d \in Handsets, NEW n \in Extensions, CallToken(d, n)
  PROVE  IInv' /\ Life!CallToken(d, n)
<1> USE DEF Outside, collectorVars, registrationVars
<1>1. /\ holder[d] \in accounts /\ holder[d] \in Temps
      /\ posts' = posts \cup {[from |-> holder[d], to |-> n]}
      /\ called' = called \cup {<<d, n>>}
      /\ holder' = holder
  BY DEF CallToken, IInv, TypeOK
<1>2. TypeOK'
  BY <1>1, BoundsAssumption DEF CallToken, IInv, TypeOK, Posts, Numbers
<1>3. HoldersAreUsers' /\ OneHandset' /\ CacheShowsUsers'
  BY <1>1 DEF CallToken, IInv, HoldersAreUsers, OneHandset, CacheShowsUsers, Numbers
<1>4. CalledBefore'
  <2>1. \A e \in Handsets : holder[e] = holder[d] => e = d
    BY <1>1 DEF IInv, OneHandset, Numbers
  <2> QED
    BY <1>1, <2>1 DEF IInv, CalledBefore
<1>5. CollectorKnows'
  BY <1>1 DEF CallToken, IInv, CollectorKnows, WithNobody
<1>6. RegistrationKnows'
  BY <1>1 DEF CallToken, IInv, RegistrationKnows, WithNobody, Posts
<1>7. Life!CallToken(d, n)
  BY <1>1 DEF Life!CallToken
<1> QED
  BY <1>2, <1>3, <1>4, <1>5, <1>6, <1>7 DEF IInv

LEMMA LosePostPreserves ==
  ASSUME IInv, NEW p \in posts, LosePost(p)
  PROVE  IInv' /\ UNCHANGED Life!lifeVars
<1> USE DEF Outside, collectorVars, registrationVars
<1>1. TypeOK'
  BY DEF LosePost, IInv, TypeOK, Posts, Numbers
<1>2. HoldersAreUsers' /\ OneHandset' /\ CacheShowsUsers' /\ CalledBefore'
  BY DEF LosePost, IInv, HoldersAreUsers, OneHandset, CacheShowsUsers, CalledBefore, Numbers
<1>3. CollectorKnows' /\ RegistrationKnows'
  BY DEF LosePost, IInv, CollectorKnows, RegistrationKnows, WithNobody, Posts
<1> QED
  BY <1>1, <1>2, <1>3 DEF IInv, LosePost, Life!lifeVars
------------------------------------------------------------------------------
(* The process and the events.                                             *)

LEMMA CrashPreserves ==
  ASSUME IInv, Crash
  PROVE  IInv' /\ UNCHANGED Life!lifeVars
<1> USE DEF ommVars, worldVars, Forgotten
<1>1. TypeOK'
  BY BoundsAssumption DEF Crash, IInv, TypeOK, Posts, Numbers
<1>2. HoldersAreUsers' /\ OneHandset' /\ CacheShowsUsers' /\ CalledBefore'
  BY DEF Crash, IInv, HoldersAreUsers, OneHandset, CacheShowsUsers, CalledBefore, Numbers
<1>3. CollectorKnows' /\ RegistrationKnows'
  BY DEF Crash, CollectorKnows, RegistrationKnows
<1> QED
  BY <1>1, <1>2, <1>3 DEF IInv, Crash, Life!lifeVars

LEMMA HandsetOfIsHandset ==
  ASSUME NEW n
  PROVE  /\ HandsetOf(n) \in Handsets \cup {"0"}
         /\ HandsetOf(n) \in Handsets => holder[HandsetOf(n)] = n
         /\ HandsetOf(n) # "absent"
<1>1. CASE \E d \in Handsets : holder[d] = n
  <2> DEFINE d == CHOOSE d \in Handsets : holder[d] = n
  <2>1. d \in Handsets /\ holder[d] = n
    BY <1>1
  <2> QED
    BY <1>1, <2>1, NumbersAssumption DEF HandsetOf
<1>2. CASE ~ \E d \in Handsets : holder[d] = n
  BY <1>2, NumbersAssumption DEF HandsetOf
<1> QED
  BY <1>1, <1>2

LEMMA RestartPreserves ==
  ASSUME IInv, Restart
  PROVE  IInv' /\ UNCHANGED Life!lifeVars
<1> USE DEF ommVars, worldVars, collectorVars, registrationVars, counters
<1>1. cache' \in [Numbers -> Handsets \cup {"absent", "0"}]
      /\ \A n \in Numbers : cache'[n] # "absent" <=> n \in ommUsers
  BY HandsetOfIsHandset DEF Restart
<1>2. TypeOK'
  BY <1>1 DEF Restart, IInv, TypeOK, Posts, Numbers
<1>3. HoldersAreUsers' /\ OneHandset' /\ CacheShowsUsers' /\ CalledBefore'
  BY <1>1 DEF Restart, IInv, HoldersAreUsers, OneHandset, CacheShowsUsers, CalledBefore, Numbers
<1>4. CollectorKnows' /\ RegistrationKnows'
  BY DEF Restart, IInv, CollectorKnows, RegistrationKnows, WithNobody, Posts
<1> QED
  BY <1>2, <1>3, <1>4 DEF IInv, Restart, Life!lifeVars

LEMMA CreateExtensionPreserves ==
  ASSUME IInv, NEW n \in Extensions, CreateExtension(n)
  PROVE  IInv' /\ UNCHANGED Life!lifeVars
<1> USE DEF HandlesEvent, collectorVars, registrationVars, ThreadIdle
<1>1. n \in Numbers /\ TypeOK'
  BY BoundsAssumption DEF CreateExtension, IInv, TypeOK, Posts, Numbers
<1>2. HoldersAreUsers' /\ OneHandset' /\ CacheShowsUsers' /\ CalledBefore'
  BY <1>1 DEF CreateExtension, IInv, TypeOK, HoldersAreUsers, OneHandset, CacheShowsUsers,
     CalledBefore, Numbers
<1>3. CollectorKnows' /\ RegistrationKnows'
  BY DEF CreateExtension, CollectorKnows, RegistrationKnows
<1> QED
  BY <1>1, <1>2, <1>3 DEF IInv, CreateExtension, Life!lifeVars

(* A user is deleted: its handset, if it has one, is released.             *)
LEMMA DeleteUserKeeps ==
  ASSUME IInv, NEW n \in Numbers, DeleteUser(n), process = "up",
         UNCHANGED <<called, posts, process>>
  PROVE  /\ holder' \in [Handsets -> Numbers \cup {"unbound", "gone"}]
         /\ ommUsers' \subseteq Numbers
         /\ cache' \in [Numbers -> Handsets \cup {"absent", "0"}]
         /\ HoldersAreUsers' /\ OneHandset' /\ CacheShowsUsers' /\ CalledBefore'
         /\ UNCHANGED Life!lifeVars \/ \E d \in Handsets : Life!Release(d)
<1>1. /\ holder' \in [Handsets -> Numbers \cup {"unbound", "gone"}]
      /\ \A d \in Handsets : holder'[d] = IF holder[d] = n THEN "unbound" ELSE holder[d]
      /\ ommUsers' = ommUsers \ {n}
      /\ cache' \in [Numbers -> Handsets \cup {"absent", "0"}]
      /\ \A m \in Numbers : cache'[m] = IF m = n THEN "absent" ELSE cache[m]
  BY DEF DeleteUser, IInv, TypeOK
<1>2. HoldersAreUsers' /\ OneHandset' /\ CacheShowsUsers'
  BY <1>1, NumbersAssumption
     DEF IInv, TypeOK, HoldersAreUsers, OneHandset, CacheShowsUsers, Numbers
<1>3. CalledBefore'
  BY <1>1, NumbersAssumption DEF IInv, TypeOK, CalledBefore, Posts, Numbers
<1>4. UNCHANGED Life!lifeVars \/ \E d \in Handsets : Life!Release(d)
  <2>1. CASE \E d \in Handsets : holder[d] = n
    <3>1. PICK d \in Handsets : holder[d] = n
      BY <2>1
    <3>2. \A e \in Handsets : holder[e] = n => e = d
      BY <3>1 DEF IInv, OneHandset
    <3>3. holder' = [holder EXCEPT ![d] = "unbound"]
      BY <1>1, <3>1, <3>2 DEF IInv, TypeOK
    <3>4. holder[d] # "gone"
      BY <3>1, NumbersAssumption
    <3> QED
      BY <3>3, <3>4 DEF Life!Release
  <2>2. CASE ~ \E d \in Handsets : holder[d] = n
    BY <1>1, <2>2 DEF IInv, TypeOK, Life!lifeVars
  <2> QED
    BY <2>1, <2>2
<1> QED
  BY <1>1, <1>2, <1>3, <1>4 DEF IInv, TypeOK

LEMMA DeleteExtensionPreserves ==
  ASSUME IInv, NEW n \in Extensions, DeleteExtension(n)
  PROVE  IInv' /\ (UNCHANGED Life!lifeVars \/ \E d \in Handsets : Life!Release(d))
<1> USE DEF HandlesEvent, collectorVars, registrationVars, ThreadIdle
<1>1. /\ holder' \in [Handsets -> Numbers \cup {"unbound", "gone"}]
      /\ ommUsers' \subseteq Numbers
      /\ cache' \in [Numbers -> Handsets \cup {"absent", "0"}]
      /\ HoldersAreUsers' /\ OneHandset' /\ CacheShowsUsers' /\ CalledBefore'
      /\ UNCHANGED Life!lifeVars \/ \E d \in Handsets : Life!Release(d)
  BY DeleteUserKeeps DEF DeleteExtension, Numbers
<1>2. TypeOK'
  BY <1>1, BoundsAssumption DEF DeleteExtension, IInv, TypeOK, Posts
<1>3. CollectorKnows' /\ RegistrationKnows'
  BY DEF DeleteExtension, CollectorKnows, RegistrationKnows
<1> QED
  BY <1>1, <1>2, <1>3 DEF IInv

LEMMA UnsubscribeDevicePreserves ==
  ASSUME IInv, NEW n \in Extensions, UnsubscribeDevice(n)
  PROVE  IInv' /\ (UNCHANGED Life!lifeVars \/ \E d \in Handsets : Life!Leave(d))
<1> USE DEF HandlesEvent, collectorVars, registrationVars, ThreadIdle
<1>1. CASE cache[n] = "0"
  <2>1. TypeOK'
    BY <1>1, BoundsAssumption DEF UnsubscribeDevice, IInv, TypeOK, Posts, Numbers
  <2>2. HoldersAreUsers' /\ OneHandset' /\ CacheShowsUsers' /\ CalledBefore'
    BY <1>1 DEF UnsubscribeDevice, IInv, HoldersAreUsers, OneHandset, CacheShowsUsers,
       CalledBefore, Numbers
  <2>3. CollectorKnows' /\ RegistrationKnows'
    BY DEF UnsubscribeDevice, CollectorKnows, RegistrationKnows
  <2> QED
    BY <1>1, <2>1, <2>2, <2>3 DEF IInv, UnsubscribeDevice, Life!lifeVars
<1>2. CASE cache[n] # "0"
  <2>1. cache[n] \in Handsets /\ holder' = [holder EXCEPT ![cache[n]] = "gone"]
        /\ discarded' = discarded
    BY <1>2 DEF UnsubscribeDevice, IInv, TypeOK, Numbers
  <2>2. /\ holder' \in [Handsets -> Numbers \cup {"unbound", "gone"}]
        /\ HoldersAreUsers' /\ OneHandset' /\ CacheShowsUsers' /\ CalledBefore'
        /\ CollectorKnows' /\ RegistrationKnows' /\ Life!Leave(cache[n])
    BY <2>1, GoneKeeps DEF UnsubscribeDevice
  <2>3. TypeOK'
    BY <2>1, <2>2, BoundsAssumption DEF UnsubscribeDevice, IInv, TypeOK, Posts, Numbers
  <2> QED
    BY <2>1, <2>2, <2>3 DEF IInv
<1> QED
  BY <1>1, <1>2
------------------------------------------------------------------------------
(* The collector.                                                          *)

LEMMA UnsubscribeDeviceRaisesPreserves ==
  ASSUME IInv, NEW n \in Extensions, UnsubscribeDeviceRaises(n)
  PROVE  IInv' /\ UNCHANGED Life!lifeVars
<1> USE DEF ommVars, worldVars, Forgotten
<1>1. TypeOK'
  BY BoundsAssumption DEF UnsubscribeDeviceRaises, IInv, TypeOK, Posts, Numbers
<1>2. HoldersAreUsers' /\ OneHandset' /\ CacheShowsUsers' /\ CalledBefore'
  BY DEF UnsubscribeDeviceRaises, IInv, HoldersAreUsers, OneHandset, CacheShowsUsers,
     CalledBefore, Numbers
<1>3. CollectorKnows' /\ RegistrationKnows'
  BY DEF UnsubscribeDeviceRaises, CollectorKnows, RegistrationKnows
<1> QED
  BY <1>1, <1>2, <1>3 DEF IInv, UnsubscribeDeviceRaises, Life!lifeVars

LEMMA FindUnboundPreserves ==
  ASSUME IInv, FindUnbound
  PROVE  IInv' /\ UNCHANGED Life!lifeVars
<1> USE DEF Collects, ommVars, worldVars, registrationVars, counters, ThreadIdle
<1>1. TypeOK'
  BY DEF FindUnbound, IInv, TypeOK, Posts, Numbers
<1>2. HoldersAreUsers' /\ OneHandset' /\ CacheShowsUsers' /\ CalledBefore'
  BY DEF FindUnbound, IInv, HoldersAreUsers, OneHandset, CacheShowsUsers, CalledBefore, Numbers
<1>3. CollectorKnows' /\ RegistrationKnows'
  BY DEF FindUnbound, IInv, CollectorKnows, RegistrationKnows, WithNobody
<1> QED
  BY <1>1, <1>2, <1>3 DEF IInv, FindUnbound, Life!lifeVars

(* The number is new to the OMM, so no handset has it, and to the POSTs.   *)
LEMMA CreateTempUserPreserves ==
  ASSUME IInv, CreateTempUser
  PROVE  IInv' /\ UNCHANGED Life!lifeVars
<1> USE DEF Collects, ommVars, worldVars, registrationVars, counters
<1>1. /\ collector = "next" /\ collector' = "attach"
      /\ device' \in batch /\ batch' = batch \ {device'}
      /\ temp' \in Temps /\ temp' \notin ommUsers /\ \A p \in posts : p.from # temp'
      /\ ommUsers' = ommUsers \cup {temp'}
      /\ device' \in Handsets
  BY DEF CreateTempUser, TakeNext, FreeNumbers, IInv, TypeOK
<1>2. cache' \in [Numbers -> Handsets \cup {"absent", "0"}]
      /\ \A n \in Numbers : cache'[n] = IF n = temp' THEN "0" ELSE cache[n]
  BY DEF CreateTempUser, IInv, TypeOK
<1>3. TypeOK'
  BY <1>1, <1>2 DEF CreateTempUser, IInv, TypeOK, Posts, Numbers
<1>4. HoldersAreUsers' /\ OneHandset' /\ CacheShowsUsers' /\ CalledBefore'
  BY <1>1, <1>2 DEF CreateTempUser, IInv, HoldersAreUsers, OneHandset, CacheShowsUsers,
     CalledBefore, Numbers
<1>5. CollectorKnows'
  <2>1. \A d \in Handsets : holder[d] # temp'
    BY <1>1 DEF IInv, HoldersAreUsers, Numbers
  <2> QED
    BY <1>1, <2>1 DEF CreateTempUser, IInv, CollectorKnows, WithNobody
<1>6. RegistrationKnows'
  BY <1>1 DEF CreateTempUser, IInv, CollectorKnows, RegistrationKnows
<1> QED
  BY <1>3, <1>4, <1>5, <1>6 DEF IInv, CreateTempUser, Life!lifeVars

LEMMA CreateTempUserRaisesPreserves ==
  ASSUME IInv, CreateTempUserRaises
  PROVE  IInv' /\ UNCHANGED Life!lifeVars
<1> USE DEF ommVars, worldVars, counters, Forgotten
<1>1. TypeOK'
  BY DEF CreateTempUserRaises, IInv, TypeOK, Posts, Numbers
<1>2. HoldersAreUsers' /\ OneHandset' /\ CacheShowsUsers' /\ CalledBefore'
  BY DEF CreateTempUserRaises, IInv, HoldersAreUsers, OneHandset, CacheShowsUsers,
     CalledBefore, Numbers
<1>3. CollectorKnows' /\ RegistrationKnows'
  BY DEF CreateTempUserRaises, CollectorKnows, RegistrationKnows
<1> QED
  BY <1>1, <1>2, <1>3 DEF IInv, CreateTempUserRaises, Life!lifeVars

(* The handset is still with nobody, and so is the number.                 *)
LEMMA AttachTempUserPreserves ==
  ASSUME IInv, AttachTempUser
  PROVE  IInv' /\ (UNCHANGED Life!lifeVars \/ Life!Collect(device, temp))
<1> USE DEF Collects, worldVars, registrationVars, counters
<1>1. /\ collector = "attach" /\ collector' = "account" /\ process = "up"
      /\ registration = "idle"
      /\ device \in Handsets /\ temp \in Temps /\ temp \in Numbers /\ temp \in ommUsers
      /\ WithNobody(device) /\ device \notin batch
      /\ \A d \in Handsets : holder[d] # temp
      /\ \A p \in posts : p.from # temp
  BY DEF AttachTempUser, IInv, CollectorKnows, Numbers
<1>2. holder' = holder \/ (holder[device] = "unbound" /\ holder' = [holder EXCEPT ![device] = temp])
  <2>1. CASE holder[device] # "gone" /\ holder' = Moved(device, temp)
    <3>1. holder[device] = "unbound"
      BY <1>1, <2>1 DEF WithNobody
    <3>2. Moved(device, temp) = [holder EXCEPT ![device] = temp]
      BY <1>1 DEF Moved, IInv, TypeOK
    <3> QED
      BY <2>1, <3>1, <3>2
  <2> QED
    BY <2>1 DEF AttachTempUser, AttachDevice
<1>3. /\ holder' \in [Handsets -> Numbers \cup {"unbound", "gone"}]
      /\ \A d \in Handsets : holder'[d] = holder[d] \/ (d = device /\ holder'[d] = temp)
  BY <1>1, <1>2 DEF IInv, TypeOK
<1>4. TypeOK'
  BY <1>3 DEF AttachTempUser, IInv, TypeOK, Posts, Numbers
<1>5. HoldersAreUsers' /\ OneHandset' /\ CacheShowsUsers'
  BY <1>1, <1>3 DEF AttachTempUser, IInv, HoldersAreUsers, OneHandset, CacheShowsUsers, Numbers
<1>6. CalledBefore'
  BY <1>1, <1>3 DEF IInv, CalledBefore, AttachTempUser
<1>7. CollectorKnows' /\ RegistrationKnows'
  <2>1. \A d \in batch : holder'[d] = holder[d]
    BY <1>1, <1>3 DEF IInv, TypeOK
  <2> QED
    BY <1>1, <2>1 DEF AttachTempUser, IInv, CollectorKnows, RegistrationKnows, WithNobody
<1>8. UNCHANGED Life!lifeVars \/ Life!Collect(device, temp)
  BY <1>1, <1>2 DEF AttachTempUser, Life!lifeVars, Life!Collect
<1> QED
  BY <1>4, <1>5, <1>6, <1>7, <1>8 DEF IInv

LEMMA CreateTempAccountPreserves ==
  ASSUME IInv, CreateTempAccount
  PROVE  IInv' /\ UNCHANGED Life!lifeVars
<1> USE DEF Collects, ommVars, worldVars, registrationVars, counters
<1>1. collector = "account" /\ temp \in Temps /\ collector' \in {"idle", "next"}
  BY DEF CreateTempAccount, IInv, CollectorKnows
<1>2. TypeOK'
  BY <1>1 DEF CreateTempAccount, IInv, TypeOK, Posts, Numbers
<1>3. HoldersAreUsers' /\ OneHandset' /\ CacheShowsUsers' /\ CalledBefore'
  BY DEF CreateTempAccount, IInv, HoldersAreUsers, OneHandset, CacheShowsUsers,
     CalledBefore, Numbers
<1>4. CollectorKnows' /\ RegistrationKnows'
  BY <1>1 DEF CreateTempAccount, IInv, CollectorKnows, RegistrationKnows, WithNobody
<1> QED
  BY <1>2, <1>3, <1>4 DEF IInv, CreateTempAccount, Life!lifeVars
------------------------------------------------------------------------------
(* The registration.                                                       *)

LEMMA FindUsersPreserves ==
  ASSUME IInv, NEW p \in posts, FindUsers(p)
  PROVE  IInv' /\ UNCHANGED Life!lifeVars
<1> USE DEF Registers, Receive, ommVars, collectorVars, counters, ThreadIdle
<1>1. p \in Posts /\ posts' \subseteq posts /\ ppn' = HandsetOf(p.from)
  BY DEF FindUsers, IInv, TypeOK
<1>2. /\ ppn' \in Handsets \cup {"0"}
      /\ ppn' \in Handsets => holder[ppn'] = p.from /\ <<ppn', p.to>> \in called
  BY <1>1, HandsetOfIsHandset DEF IInv, CalledBefore
<1>3. TypeOK'
  BY <1>1, <1>2 DEF FindUsers, IInv, TypeOK, Numbers
<1>4. HoldersAreUsers' /\ OneHandset' /\ CacheShowsUsers' /\ CalledBefore'
  BY <1>1 DEF FindUsers, IInv, HoldersAreUsers, OneHandset, CacheShowsUsers, CalledBefore, Numbers
<1>5. CollectorKnows'
  BY DEF FindUsers, CollectorKnows
<1>6. RegistrationKnows'
  BY <1>1, <1>2 DEF FindUsers, RegistrationKnows, Posts
<1> QED
  BY <1>3, <1>4, <1>5, <1>6 DEF IInv, FindUsers, Life!lifeVars

LEMMA AnswerNakPreserves ==
  ASSUME IInv, NEW p \in posts, AnswerNak(p)
  PROVE  IInv' /\ UNCHANGED Life!lifeVars
<1> USE DEF Registers, Receive, ommVars, collectorVars, registrationVars, counters, ThreadIdle
<1>1. posts' \subseteq posts
  BY DEF AnswerNak
<1>2. TypeOK'
  BY <1>1 DEF AnswerNak, IInv, TypeOK, Posts, Numbers
<1>3. HoldersAreUsers' /\ OneHandset' /\ CacheShowsUsers' /\ CalledBefore'
  BY <1>1 DEF AnswerNak, IInv, HoldersAreUsers, OneHandset, CacheShowsUsers, CalledBefore, Numbers
<1>4. CollectorKnows' /\ RegistrationKnows'
  BY DEF AnswerNak, CollectorKnows, RegistrationKnows
<1> QED
  BY <1>2, <1>3, <1>4 DEF IInv, AnswerNak, Life!lifeVars

LEMMA DetachTempUserPreserves ==
  ASSUME IInv, DetachTempUser
  PROVE  IInv' /\ (UNCHANGED Life!lifeVars \/ \E d \in Handsets : Life!Release(d))
<1> USE DEF Registers, collectorVars, counters
<1>1. /\ registration = "detach" /\ registration' = "attach" /\ process = "up"
      /\ collector = "idle" /\ post \in Posts /\ ppn \in Handsets \cup {"0"}
      /\ post.from \in ommUsers /\ post.from \in Temps
  BY DEF DetachTempUser, IInv, RegistrationKnows, Posts
<1>2. \/ holder' = holder /\ (ppn \in Handsets => holder[ppn] # post.from)
      \/ /\ ppn \in Handsets /\ holder[ppn] = post.from
         /\ holder' = [holder EXCEPT ![ppn] = "unbound"]
  BY DEF DetachTempUser, DetachDevice
<1>3. /\ holder' \in [Handsets -> Numbers \cup {"unbound", "gone"}]
      /\ \A d \in Handsets : holder'[d] = holder[d] \/ holder'[d] = "unbound"
      /\ ppn \in Handsets => holder'[ppn] \in {"unbound", "gone"}
  BY <1>1, <1>2 DEF IInv, TypeOK, RegistrationKnows, WithNobody
<1>4. TypeOK'
  BY <1>3 DEF DetachTempUser, IInv, TypeOK, Posts, Numbers
<1>5. HoldersAreUsers' /\ OneHandset' /\ CacheShowsUsers'
  BY <1>3, NumbersAssumption
     DEF DetachTempUser, IInv, TypeOK, HoldersAreUsers, OneHandset, CacheShowsUsers, Numbers
<1>6. CalledBefore'
  BY <1>3, NumbersAssumption DEF DetachTempUser, IInv, TypeOK, CalledBefore, Posts, Numbers
<1>7. CollectorKnows' /\ RegistrationKnows'
  BY <1>1, <1>3 DEF DetachTempUser, IInv, CollectorKnows, RegistrationKnows, WithNobody
<1>8. UNCHANGED Life!lifeVars \/ \E d \in Handsets : Life!Release(d)
  <2>1. holder[ppn] = post.from => holder[ppn] # "gone"
    BY <1>1, NumbersAssumption DEF Numbers
  <2> QED
    BY <1>2, <2>1 DEF DetachTempUser, Life!lifeVars, Life!Release
<1> QED
  BY <1>4, <1>5, <1>6, <1>7, <1>8 DEF IInv

(* The handset is with nobody, and has called the extension.               *)
LEMMA AttachExtensionPreserves ==
  ASSUME IInv, AttachExtension
  PROVE  IInv' /\ (UNCHANGED Life!lifeVars
                     \/ \E d \in Handsets, n \in Extensions : Life!Connect(d, n))
<1> USE DEF Registers, collectorVars, counters
<1>1. /\ registration = "attach" /\ registration' = "delete" /\ process = "up"
      /\ collector = "idle" /\ post \in Posts /\ ppn \in Handsets \cup {"0"}
      /\ post.from \in ommUsers
      /\ ppn \in Handsets => <<ppn, post.to>> \in called /\ WithNobody(ppn)
  BY DEF AttachExtension, IInv, RegistrationKnows
<1>2. post.to \in Extensions /\ post.to \in Numbers /\ post.to \notin Temps
  BY <1>1, NumbersAssumption DEF Posts, Numbers
<1>3. \/ holder' = holder
      \/ /\ ppn \in Handsets /\ post.to \in ommUsers /\ holder[ppn] = "unbound"
         /\ holder' = Moved(ppn, post.to)
  BY <1>1 DEF AttachExtension, AttachDevice, WithNobody
<1>4. CASE holder' = holder
  <2>1. TypeOK'
    BY <1>4 DEF AttachExtension, IInv, TypeOK, Posts, Numbers
  <2>2. HoldersAreUsers' /\ OneHandset' /\ CacheShowsUsers' /\ CalledBefore'
    BY <1>4 DEF AttachExtension, IInv, HoldersAreUsers, OneHandset, CacheShowsUsers,
       CalledBefore, Numbers
  <2>3. CollectorKnows' /\ RegistrationKnows'
    BY <1>1 DEF AttachExtension, CollectorKnows, RegistrationKnows
  <2> QED
    BY <1>4, <2>1, <2>2, <2>3 DEF IInv, AttachExtension, Life!lifeVars
<1>5. CASE /\ ppn \in Handsets /\ post.to \in ommUsers /\ holder[ppn] = "unbound"
           /\ holder' = Moved(ppn, post.to)
  <2>1. /\ holder' \in [Handsets -> Numbers \cup {"unbound", "gone"}]
        /\ \A d \in Handsets :
             holder'[d] = IF d = ppn THEN post.to
                          ELSE IF holder[d] = post.to THEN "unbound" ELSE holder[d]
    BY <1>2, <1>5 DEF Moved, IInv, TypeOK
  <2>2. TypeOK'
    BY <2>1 DEF AttachExtension, IInv, TypeOK, Posts, Numbers
  <2>3. HoldersAreUsers' /\ OneHandset' /\ CacheShowsUsers'
    BY <1>2, <1>5, <2>1, NumbersAssumption
       DEF AttachExtension, IInv, HoldersAreUsers, OneHandset, CacheShowsUsers, Numbers
  <2>4. CalledBefore'
    <3>1. \A p \in posts : p.from \in Temps
      BY DEF IInv, TypeOK, Posts
    <3> QED
      BY <1>2, <2>1, <3>1, NumbersAssumption DEF AttachExtension, IInv, CalledBefore, Numbers
  <2>5. CollectorKnows' /\ RegistrationKnows'
    BY <1>1 DEF AttachExtension, CollectorKnows, RegistrationKnows
  <2>6. Life!Connect(ppn, post.to)
    BY <1>1, <1>5 DEF AttachExtension, Life!Connect, Moved
  <2> QED
    BY <1>2, <1>5, <2>2, <2>3, <2>4, <2>5, <2>6 DEF IInv
<1> QED
  BY <1>3, <1>4, <1>5

LEMMA DeleteTempUserPreserves ==
  ASSUME IInv, DeleteTempUser
  PROVE  IInv' /\ (UNCHANGED Life!lifeVars \/ \E d \in Handsets : Life!Release(d))
<1> USE DEF Registers, collectorVars, counters
<1>1. /\ registration = "delete" /\ registration' = "clear" /\ process = "up"
      /\ collector = "idle" /\ post \in Posts /\ ppn \in Handsets \cup {"0"}
      /\ post.from \in Numbers
  BY DEF DeleteTempUser, IInv, RegistrationKnows, Posts, Numbers
<1>2. /\ holder' \in [Handsets -> Numbers \cup {"unbound", "gone"}]
      /\ ommUsers' \subseteq Numbers
      /\ cache' \in [Numbers -> Handsets \cup {"absent", "0"}]
      /\ HoldersAreUsers' /\ OneHandset' /\ CacheShowsUsers' /\ CalledBefore'
      /\ UNCHANGED Life!lifeVars \/ \E d \in Handsets : Life!Release(d)
  BY <1>1, DeleteUserKeeps DEF DeleteTempUser
<1>3. TypeOK'
  BY <1>2 DEF DeleteTempUser, IInv, TypeOK, Posts
<1>4. CollectorKnows' /\ RegistrationKnows'
  BY <1>1 DEF DeleteTempUser, CollectorKnows, RegistrationKnows
<1> QED
  BY <1>2, <1>3, <1>4 DEF IInv

LEMMA DeleteTempAccountPreserves ==
  ASSUME IInv, DeleteTempAccount
  PROVE  IInv' /\ UNCHANGED Life!lifeVars
<1> USE DEF Registers, ommVars, collectorVars, counters
<1>1. TypeOK'
  BY DEF DeleteTempAccount, IInv, TypeOK, Posts, Numbers
<1>2. HoldersAreUsers' /\ OneHandset' /\ CacheShowsUsers' /\ CalledBefore'
  BY DEF DeleteTempAccount, IInv, HoldersAreUsers, OneHandset, CacheShowsUsers,
     CalledBefore, Numbers
<1>3. CollectorKnows' /\ RegistrationKnows'
  BY DEF DeleteTempAccount, IInv, CollectorKnows, RegistrationKnows
<1> QED
  BY <1>1, <1>2, <1>3 DEF IInv, DeleteTempAccount, Life!lifeVars
------------------------------------------------------------------------------
LEMMA StutterPreserves ==
  ASSUME IInv, UNCHANGED vars
  PROVE  IInv' /\ UNCHANGED Life!lifeVars
<1> USE DEF vars, ommVars, worldVars, collectorVars, registrationVars, counters
<1>1. TypeOK'
  BY DEF IInv, TypeOK, Posts, Numbers
<1>2. HoldersAreUsers' /\ OneHandset' /\ CacheShowsUsers' /\ CalledBefore'
  BY DEF IInv, HoldersAreUsers, OneHandset, CacheShowsUsers, CalledBefore, Numbers
<1>3. CollectorKnows' /\ RegistrationKnows'
  BY DEF IInv, CollectorKnows, RegistrationKnows, WithNobody, Posts
<1> QED
  BY <1>1, <1>2, <1>3 DEF IInv, Life!lifeVars

LEMMA NextPreserves ==
  ASSUME IInv, [Next]_vars
  PROVE  IInv' /\ [Life!Next]_(Life!lifeVars)
<1>1. CASE \E d \in Handsets : Subscribe(d) \/ Leave(d)
  BY <1>1, SubscribePreserves, LeavePreserves DEF Life!Next
<1>2. CASE \E d \in Handsets, n \in Extensions : CallToken(d, n)
  BY <1>2, CallTokenPreserves DEF Life!Next
<1>3. CASE (\E p \in posts : LosePost(p)) \/ Crash \/ Restart
  BY <1>3, LosePostPreserves, CrashPreserves, RestartPreserves
<1>4. CASE \E n \in Extensions : EventTask(n)
  BY <1>4, CreateExtensionPreserves, DeleteExtensionPreserves, UnsubscribeDevicePreserves,
     UnsubscribeDeviceRaisesPreserves DEF EventTask, Life!Next
<1>5. CASE Collect
  <2>1. CASE AttachTempUser
    <3>1. device \in Handsets /\ temp \in Temps
      BY <2>1 DEF AttachTempUser, IInv, CollectorKnows
    <3> QED
      BY <2>1, <3>1, AttachTempUserPreserves DEF Life!Next
  <2>2. CASE ~AttachTempUser
    BY <1>5, <2>2, FindUnboundPreserves, CreateTempUserPreserves,
       CreateTempUserRaisesPreserves, CreateTempAccountPreserves DEF Collect
  <2> QED
    BY <2>1, <2>2
<1>6. CASE Register
  BY <1>6, FindUsersPreserves, AnswerNakPreserves, DetachTempUserPreserves,
     AttachExtensionPreserves, DeleteTempUserPreserves, DeleteTempAccountPreserves
     DEF Register, Transfer, Life!Next
<1>7. CASE UNCHANGED vars
  BY <1>7, StutterPreserves
<1> QED
  BY <1>1, <1>2, <1>3, <1>4, <1>5, <1>6, <1>7 DEF Next

LEMMA Invariance == Spec => []IInv
  BY InitEstablishes, NextPreserves, PTL DEF Spec

(* Every variable of the binding keeps its type.                           *)
THEOREM TypeCorrect == Spec => []TypeOK
<1>1. IInv => TypeOK
  BY DEF IInv
<1> QED
  BY <1>1, Invariance, PTL

(* delete_user finds the temporary user in the cache, also when it was     *)
(* created by an earlier process: no KeyError after a transfer.            *)
THEOREM TempUserIsKnown == Spec => []CacheKnowsTempUser
<1>1. IInv => CacheKnowsTempUser
  BY DEF IInv, CacheShowsUsers, RegistrationKnows, CacheKnowsTempUser, Posts, Numbers
<1> QED
  BY <1>1, Invariance, PTL

(* No handset is taken from its user by the collector, or given to an      *)
(* extension it did not call, however requests, POSTs, crashes and the     *)
(* handsets themselves interleave.                                         *)
THEOREM BindingImplementsLife == Spec => ImplementsHandsetLife
<1>1. Init => Life!Init
  BY DEF Init, Life!Init
<1> QED
  BY <1>1, NextPreserves, Invariance, PTL DEF Spec, ImplementsHandsetLife, Life!Spec
------------------------------------------------------------------------------
(* The temporary numbers left behind, and what they are the price of.      *)

(* The orphans no task is about to use or to delete.                       *)
Loose ==
  {n \in Orphans : /\ collector = "attach" => n # temp
                   /\ registration # "idle" => n # post.from}

(* The handsets that left before the collector came to them: a number will *)
(* be left for each, unless it comes back in time.                         *)
Missed ==
  {d \in Handsets : /\ holder[d] = "gone"
                    /\ \/ collector # "idle" /\ d \in batch
                       \/ collector = "attach" /\ d = device}

Causes == crashes + departures + events

Counted ==
  /\ IsFiniteSet(Loose) /\ IsFiniteSet(Missed)
  /\ Cardinality(Loose) + Cardinality(Missed) <= Causes

(* The account comes after its user, and goes after it.                    *)
UserFirst ==
  /\ collector = "account" => temp \in ommUsers
  /\ registration = "clear" => post.from \notin ommUsers

CInv == IInv /\ UserFirst /\ Counted

LEMMA CausesAreCounted == ASSUME IInv PROVE Causes \in Nat
BY DEF IInv, TypeOK, Causes

LEMMA NotMore ==
  ASSUME NEW S, IsFiniteSet(S), NEW T, T \subseteq S
  PROVE  /\ IsFiniteSet(T)
         /\ Cardinality(T) \in Nat /\ Cardinality(S) \in Nat
         /\ Cardinality(T) <= Cardinality(S)
BY FS_Subset, FS_CardinalityType

LEMMA OneMore ==
  ASSUME NEW S, IsFiniteSet(S), NEW x, NEW T, T \subseteq S \cup {x}
  PROVE  /\ IsFiniteSet(T)
         /\ Cardinality(T) \in Nat /\ Cardinality(S) \in Nat
         /\ Cardinality(T) <= Cardinality(S) + 1
<1>1. IsFiniteSet(S \cup {x}) /\ Cardinality(S \cup {x}) <= Cardinality(S) + 1
      /\ Cardinality(S) \in Nat /\ Cardinality(S \cup {x}) \in Nat
  BY FS_AddElement, FS_CardinalityType
<1>2. /\ IsFiniteSet(T) /\ Cardinality(T) \in Nat
      /\ Cardinality(T) <= Cardinality(S \cup {x})
  BY <1>1, NotMore
<1> QED
  BY <1>1, <1>2

LEMMA CountStays ==
  ASSUME IInv, Counted, Loose' \subseteq Loose, Missed' \subseteq Missed,
         Causes' = Causes \/ Causes' = Causes + 1
  PROVE  Counted'
<1>1. IsFiniteSet(Loose) /\ IsFiniteSet(Missed)
  BY DEF Counted
<1>2. /\ IsFiniteSet(Loose') /\ Cardinality(Loose') \in Nat /\ Cardinality(Loose) \in Nat
      /\ Cardinality(Loose') <= Cardinality(Loose)
  BY <1>1, NotMore
<1>3. /\ IsFiniteSet(Missed') /\ Cardinality(Missed') \in Nat /\ Cardinality(Missed) \in Nat
      /\ Cardinality(Missed') <= Cardinality(Missed)
  BY <1>1, NotMore
<1> QED
  BY <1>2, <1>3, CausesAreCounted DEF Counted

(* One cause, one number.                                                  *)
LEMMA CauseCounts ==
  ASSUME IInv, Counted, NEW x,
         \/ Loose' \subseteq Loose \cup {x} /\ Missed' \subseteq Missed
         \/ Loose' \subseteq Loose /\ Missed' \subseteq Missed \cup {x},
         Causes' = Causes + 1
  PROVE  Counted'
<1>1. IsFiniteSet(Loose) /\ IsFiniteSet(Missed)
  BY DEF Counted
<1>2. CASE Loose' \subseteq Loose \cup {x} /\ Missed' \subseteq Missed
  <2>1. /\ IsFiniteSet(Loose') /\ Cardinality(Loose') \in Nat /\ Cardinality(Loose) \in Nat
        /\ Cardinality(Loose') <= Cardinality(Loose) + 1
    BY <1>1, <1>2, OneMore
  <2>2. /\ IsFiniteSet(Missed') /\ Cardinality(Missed') \in Nat /\ Cardinality(Missed) \in Nat
        /\ Cardinality(Missed') <= Cardinality(Missed)
    BY <1>1, <1>2, NotMore
  <2> QED
    BY <2>1, <2>2, CausesAreCounted DEF Counted
<1>3. CASE Loose' \subseteq Loose /\ Missed' \subseteq Missed \cup {x}
  <2>1. /\ IsFiniteSet(Loose') /\ Cardinality(Loose') \in Nat /\ Cardinality(Loose) \in Nat
        /\ Cardinality(Loose') <= Cardinality(Loose)
    BY <1>1, <1>3, NotMore
  <2>2. /\ IsFiniteSet(Missed') /\ Cardinality(Missed') \in Nat /\ Cardinality(Missed) \in Nat
        /\ Cardinality(Missed') <= Cardinality(Missed) + 1
    BY <1>1, <1>3, OneMore
  <2> QED
    BY <2>1, <2>2, CausesAreCounted DEF Counted
<1> QED
  BY <1>2, <1>3

(* The number of a handset that left becomes an orphan.                    *)
LEMMA MissIsCounted ==
  ASSUME IInv, Counted, NEW n, NEW d \in Missed,
         Loose' \subseteq Loose \cup {n}, Missed' \subseteq Missed \ {d}, Causes' = Causes
  PROVE  Counted'
<1>1. IsFiniteSet(Loose) /\ IsFiniteSet(Missed)
  BY DEF Counted
<1>2. /\ IsFiniteSet(Loose') /\ Cardinality(Loose') \in Nat /\ Cardinality(Loose) \in Nat
      /\ Cardinality(Loose') <= Cardinality(Loose) + 1
  BY <1>1, OneMore
<1>3. /\ IsFiniteSet(Missed \ {d}) /\ Cardinality(Missed \ {d}) = Cardinality(Missed) - 1
      /\ Cardinality(Missed) \in Nat
  BY <1>1, FS_RemoveElement, FS_CardinalityType
<1>4. /\ IsFiniteSet(Missed') /\ Cardinality(Missed') \in Nat
      /\ Cardinality(Missed') <= Cardinality(Missed \ {d})
  BY <1>3, NotMore
<1> QED
  BY <1>2, <1>3, <1>4, CausesAreCounted DEF Counted

(* Handsets, callers and Asterisk.                                         *)
LEMMA HandsetsCount ==
  ASSUME CInv, NEW d \in Handsets, Subscribe(d) \/ Leave(d)
  PROVE  UserFirst' /\ Counted'
<1> USE DEF Outside, collectorVars, registrationVars
<1>1. UserFirst'
  BY DEF CInv, UserFirst, Subscribe, Leave
<1>2. /\ \A n \in Temps : n # "unbound" /\ n # "gone"
      /\ collector # "idle" => \A e \in batch : WithNobody(e)
      /\ collector = "attach" => WithNobody(device)
  BY NumbersAssumption DEF CInv, IInv, CollectorKnows, Numbers
<1>3. CASE Subscribe(d)
  <2>1. \A e \in Handsets : holder'[e] = IF e = d THEN "unbound" ELSE holder[e]
    BY <1>3 DEF Subscribe, CInv, IInv, TypeOK
  <2>2. Loose' \subseteq Loose /\ Missed' \subseteq Missed
    BY <1>2, <1>3, <2>1 DEF Subscribe, Loose, Missed, Orphans
  <2>3. Causes' = Causes
    BY <1>3 DEF Subscribe, Causes
  <2> QED
    BY <1>1, <2>2, <2>3, CountStays DEF CInv
<1>4. CASE Leave(d)
  <2>1. /\ \A e \in Handsets : holder'[e] = IF e = d THEN "gone" ELSE holder[e]
        /\ departures' = departures + 1
        /\ UNCHANGED <<ommUsers, accounts, collectorVars, registrationVars, crashes, events>>
    BY <1>4 DEF Leave, CInv, IInv, TypeOK
  <2>2. Causes' = Causes + 1
    BY <2>1 DEF Causes, CInv, IInv, TypeOK
  <2>3. CASE holder[d] \in Temps
    <3>1. Missed' \subseteq Missed
      BY <1>2, <2>1, <2>3 DEF Missed, WithNobody
    <3>2. Loose' \subseteq Loose \cup {holder[d]}
      BY <2>1 DEF Loose, Orphans
    <3> QED
      BY <1>1, <2>2, <3>1, <3>2, CauseCounts DEF CInv
  <2>4. CASE holder[d] \notin Temps
    <3>1. Missed' \subseteq Missed \cup {d}
      BY <2>1 DEF Missed
    <3>2. Loose' \subseteq Loose
      BY <2>1, <2>4 DEF Loose, Orphans
    <3> QED
      BY <1>1, <2>2, <3>1, <3>2, CauseCounts DEF CInv
  <2> QED
    BY <2>3, <2>4
<1> QED
  BY <1>3, <1>4

(* A step that leaves handsets, users, accounts and tasks as they are.     *)
LEMMA NothingCounts ==
  ASSUME CInv, UNCHANGED <<ommVars, accounts, collectorVars, registrationVars,
                           crashes, departures, events>>
  PROVE  UserFirst' /\ Counted'
<1> USE DEF ommVars, collectorVars, registrationVars
<1>1. Loose' = Loose /\ Missed' = Missed /\ Causes' = Causes
  BY DEF Loose, Orphans, Missed, Causes
<1>2. UserFirst'
  BY DEF CInv, UserFirst
<1> QED
  BY <1>1, <1>2, CountStays DEF CInv

(* A crash leaves the number the process had in hand, and no other.        *)
LEMMA CrashCounts ==
  ASSUME CInv, Crash
  PROVE  UserFirst' /\ Counted'
<1> USE DEF ommVars, Forgotten
<1> DEFINE n == IF collector = "attach" THEN temp ELSE post.from
<1>1. /\ collector' = "idle" /\ registration' = "idle"
      /\ UNCHANGED <<holder, ommUsers, accounts>>
      /\ Causes' = Causes + 1
  BY DEF Crash, Causes, CInv, IInv, TypeOK
<1>2. registration # "idle" => collector # "attach"
  BY DEF CInv, IInv, RegistrationKnows
<1>3. Loose' \subseteq Loose \cup {n}
  BY <1>1, <1>2 DEF Loose, Orphans
<1>4. Missed' \subseteq Missed /\ UserFirst'
  BY <1>1 DEF Missed, UserFirst
<1> QED
  BY <1>1, <1>3, <1>4, CauseCounts DEF CInv

(* The event task: a number is left when a handset with it is deleted.     *)
LEMMA EventsCount ==
  ASSUME CInv, NEW n \in Extensions, EventTask(n)
  PROVE  UserFirst' /\ Counted'
<1> USE DEF collectorVars, registrationVars, Forgotten
<1>1. /\ collector = "idle" /\ registration = "idle"
      /\ collector' = "idle" /\ registration' = "idle" /\ batch' \in {batch, {}}
      /\ UNCHANGED <<accounts, departures, crashes>>
      /\ events' = events + 1
  BY DEF EventTask, CreateExtension, DeleteExtension, UnsubscribeDevice,
         UnsubscribeDeviceRaises, HandlesEvent, ThreadIdle
<1>2. Causes' = Causes + 1
  BY <1>1 DEF Causes, CInv, IInv, TypeOK
<1>3. UserFirst' /\ Missed' \subseteq Missed
  BY <1>1 DEF UserFirst, Missed
<1>4. n \notin Temps /\ n \in Numbers
  BY NumbersAssumption DEF Numbers
<1>5. CASE CreateExtension(n)
  <2>1. Loose' \subseteq Loose
    BY <1>1, <1>4, <1>5 DEF CreateExtension, Loose, Orphans
  <2> QED
    BY <1>2, <1>3, <2>1, CountStays DEF CInv
<1>6. CASE DeleteExtension(n)
  <2>1. \A d \in Handsets : holder'[d] = IF holder[d] = n THEN "unbound" ELSE holder[d]
    BY <1>6 DEF DeleteExtension, DeleteUser
  <2>2. Loose' \subseteq Loose
    BY <1>1, <1>4, <1>6, <2>1 DEF DeleteExtension, DeleteUser, Loose, Orphans
  <2> QED
    BY <1>2, <1>3, <2>2, CountStays DEF CInv
<1>7. CASE UnsubscribeDevice(n)
  <2>1. PICK d : Loose' \subseteq Loose \cup {d}
    <3>1. CASE UNCHANGED holder
      BY <1>1, <1>7, <3>1 DEF UnsubscribeDevice, Loose, Orphans
    <3>2. CASE cache[n] # "0" /\ holder' = [holder EXCEPT ![cache[n]] = "gone"]
      <4>1. cache[n] \in Handsets
        BY <1>4, <1>7, <3>2 DEF UnsubscribeDevice, CInv, IInv, TypeOK
      <4>2. \A e \in Handsets : e # cache[n] => holder'[e] = holder[e]
        BY <3>2, <4>1 DEF CInv, IInv, TypeOK
      <4>3. Loose' \subseteq Loose \cup {holder[cache[n]]}
        BY <1>1, <1>7, <4>2 DEF UnsubscribeDevice, Loose, Orphans
      <4> QED
        BY <4>3
    <3> QED
      BY <1>7, <3>1, <3>2 DEF UnsubscribeDevice
  <2> QED
    BY <1>2, <1>3, <2>1, CauseCounts DEF CInv
<1>8. CASE UnsubscribeDeviceRaises(n)
  <2>1. Loose' \subseteq Loose
    BY <1>1, <1>8 DEF UnsubscribeDeviceRaises, ommVars, Loose, Orphans
  <2> QED
    BY <1>2, <1>3, <2>1, CountStays DEF CInv
<1> QED
  BY <1>5, <1>6, <1>7, <1>8 DEF EventTask

(* The collector: the number of a handset that left is left in its place.  *)
LEMMA CollectCounts ==
  ASSUME CInv, Collect
  PROVE  UserFirst' /\ Counted'
<1> USE DEF Collects, worldVars, registrationVars, ommVars, counters
<1>1. CASE FindUnbound
  <2>1. Loose' \subseteq Loose /\ Missed' \subseteq Missed
    BY <1>1 DEF FindUnbound, ThreadIdle, Loose, Orphans, Missed
  <2>2. UserFirst' /\ Causes' = Causes
    BY <1>1 DEF FindUnbound, ThreadIdle, UserFirst, Causes
  <2> QED
    BY <2>1, <2>2, CountStays DEF CInv
<1>2. CASE CreateTempUser
  <2>1. /\ collector = "next" /\ collector' = "attach" /\ registration = "idle"
        /\ device' \in batch /\ batch' \subseteq batch
        /\ ommUsers' = ommUsers \cup {temp'}
        /\ UNCHANGED <<holder, accounts, registration, post, crashes, departures, events>>
    BY <1>2 DEF CreateTempUser, TakeNext, CInv, IInv, CollectorKnows
  <2>2. Loose' \subseteq Loose
    BY <2>1 DEF Loose, Orphans
  <2>3. Missed' \subseteq Missed
    BY <2>1 DEF Missed
  <2>4. UserFirst' /\ Causes' = Causes
    BY <2>1 DEF UserFirst, Causes
  <2> QED
    BY <2>2, <2>3, <2>4, CountStays DEF CInv
<1>3. CASE CreateTempUserRaises
  <2>1. /\ collector = "next" /\ collector' = "idle" /\ registration' = "idle"
        /\ registration = "idle"
        /\ UNCHANGED <<holder, ommUsers, accounts, crashes, departures, events>>
    BY <1>3 DEF CreateTempUserRaises, Forgotten, CInv, IInv, CollectorKnows
  <2>2. Loose' \subseteq Loose /\ Missed' \subseteq Missed
    BY <2>1 DEF Loose, Orphans, Missed
  <2>3. UserFirst' /\ Causes' = Causes
    BY <2>1 DEF UserFirst, Causes
  <2> QED
    BY <2>2, <2>3, CountStays DEF CInv
<1>4. CASE AttachTempUser
  <2>1. /\ collector = "attach" /\ collector' = "account" /\ registration = "idle"
        /\ device \in Handsets /\ WithNobody(device) /\ device \notin batch
        /\ temp \in ommUsers /\ \A d \in Handsets : holder[d] # temp
        /\ AttachDevice(device, temp)
        /\ UNCHANGED <<ommUsers, accounts, batch, device, temp, registration, post,
                       crashes, departures, events>>
    BY <1>4 DEF AttachTempUser, CInv, IInv, CollectorKnows
  <2>2. UserFirst' /\ Causes' = Causes
    BY <2>1 DEF UserFirst, Causes
  <2>3. CASE holder[device] = "unbound"
    <3>1. HandsetOf(temp) = "0"
      BY <2>1 DEF HandsetOf
    <3>2. holder' = Moved(device, temp)
      BY <2>1, <2>3, <3>1 DEF AttachDevice
    <3>3. \A d \in Handsets : holder'[d] = IF d = device THEN temp ELSE holder[d]
      BY <2>1, <3>2 DEF Moved
    <3>4. Loose' \subseteq Loose
      BY <2>1, <2>3, <3>3, NumbersAssumption DEF Loose, Orphans, Numbers
    <3>5. Missed' \subseteq Missed
      BY <2>1, <3>3 DEF Missed
    <3> QED
      BY <2>2, <3>4, <3>5, CountStays DEF CInv
  <2>4. CASE holder[device] # "unbound"
    <3>1. holder[device] = "gone"
      BY <2>1, <2>4 DEF WithNobody
    <3>2. holder' = holder
      BY <2>1, <3>1 DEF AttachDevice
    <3>3. Loose' \subseteq Loose \cup {temp} /\ device \in Missed /\ Missed' \subseteq Missed \ {device}
      BY <2>1, <3>1, <3>2 DEF Loose, Orphans, Missed
    <3> QED
      BY <2>2, <3>3, MissIsCounted DEF CInv
  <2> QED
    BY <2>3, <2>4
<1>5. CASE CreateTempAccount
  <2>1. /\ collector = "account" /\ collector' \in {"idle", "next"}
        /\ temp \in ommUsers /\ accounts' = accounts \cup {temp}
        /\ UNCHANGED <<holder, ommUsers, batch, registration, post,
                       crashes, departures, events>>
    BY <1>5 DEF CreateTempAccount, CInv, UserFirst
  <2>2. Loose' \subseteq Loose /\ Missed' \subseteq Missed
    BY <2>1 DEF Loose, Orphans, Missed
  <2>3. UserFirst' /\ Causes' = Causes
    BY <2>1 DEF UserFirst, Causes, CInv
  <2> QED
    BY <2>2, <2>3, CountStays DEF CInv
<1> QED
  BY <1>1, <1>2, <1>3, <1>4, <1>5 DEF Collect

(* The registration: its number is deleted with user and account in the    *)
(* end, whatever was refused on the way, so no POST leaves one.            *)
LEMMA RegisterCounts ==
  ASSUME CInv, Register
  PROVE  UserFirst' /\ Counted'
<1> USE DEF Registers, collectorVars, ommVars, counters
<1>1. ASSUME NEW p \in posts, FindUsers(p)
      PROVE  UserFirst' /\ Counted'
  <2>1. /\ collector = "idle" /\ registration = "idle" /\ registration' = "detach"
        /\ UNCHANGED <<holder, ommUsers, accounts, collector, batch, device, temp,
                       crashes, departures, events>>
    BY <1>1 DEF FindUsers, ThreadIdle
  <2>2. Loose' \subseteq Loose /\ Missed' \subseteq Missed
    BY <2>1 DEF Loose, Orphans, Missed
  <2>3. UserFirst' /\ Causes' = Causes
    BY <2>1 DEF UserFirst, Causes
  <2> QED
    BY <2>2, <2>3, CountStays DEF CInv
<1>2. ASSUME NEW p \in posts, AnswerNak(p)
      PROVE  UserFirst' /\ Counted'
  BY <1>2, NothingCounts DEF AnswerNak
<1>3. CASE Transfer
  <2>1. /\ registration # "idle" /\ collector = "idle" /\ post \in Posts
        /\ UNCHANGED <<collector, batch, device, temp, crashes, departures, events>>
        /\ \A n \in Temps : n # post.to /\ n # "unbound"
    BY <1>3, NumbersAssumption DEF Transfer, DetachTempUser, AttachExtension,
       DeleteTempUser, DeleteTempAccount, CInv, IInv, RegistrationKnows, Posts, Numbers
  <2>2. Missed' \subseteq Missed /\ Causes' = Causes
    BY <2>1 DEF Missed, Causes
  <2>3. CASE DetachTempUser
    <3>1. /\ registration' = "attach"
          /\ UNCHANGED <<ommUsers, accounts, post>>
          /\ \A d \in Handsets : holder'[d] = holder[d] \/ holder[d] = post.from
      BY <2>3 DEF DetachTempUser, DetachDevice, CInv, IInv, TypeOK
    <3>2. Loose' \subseteq Loose /\ UserFirst'
      BY <2>1, <3>1 DEF Loose, Orphans, UserFirst
    <3> QED
      BY <2>2, <3>2, CountStays DEF CInv
  <2>4. CASE AttachExtension
    <3>1. /\ registration = "attach" /\ registration' = "delete"
          /\ UNCHANGED <<ommUsers, accounts, post>>
          /\ AttachDevice(ppn, post.to)
      BY <2>4 DEF AttachExtension
    <3>2. \A d \in Handsets : holder'[d] = holder[d] \/ holder[d] \notin Temps
      <4>1. CASE UNCHANGED holder
        BY <4>1
      <4>2. CASE ppn \in Handsets /\ holder' = Moved(ppn, post.to)
        <5>1. holder[ppn] \notin Temps
          BY <3>1, <4>2, NumbersAssumption
             DEF CInv, IInv, RegistrationKnows, WithNobody, Numbers
        <5> QED
          BY <2>1, <4>2, <5>1 DEF Moved
      <4> QED
        BY <3>1, <4>1, <4>2 DEF AttachDevice
    <3>3. Loose' \subseteq Loose /\ UserFirst'
      BY <2>1, <3>1, <3>2 DEF Loose, Orphans, UserFirst
    <3> QED
      BY <2>2, <3>3, CountStays DEF CInv
  <2>5. CASE DeleteTempUser
    <3>1. /\ registration' = "clear" /\ ommUsers' = ommUsers \ {post.from}
          /\ UNCHANGED <<accounts, post>>
          /\ \A d \in Handsets : holder'[d] = holder[d] \/ holder[d] = post.from
      BY <2>5 DEF DeleteTempUser, DeleteUser
    <3>2. Loose' \subseteq Loose /\ UserFirst'
      BY <2>1, <3>1 DEF Loose, Orphans, UserFirst
    <3> QED
      BY <2>2, <3>2, CountStays DEF CInv
  <2>6. CASE DeleteTempAccount
    <3>1. /\ registration' = "idle" /\ post.from \notin ommUsers
          /\ accounts' = accounts \ {post.from}
          /\ UNCHANGED <<holder, ommUsers>>
      BY <2>6 DEF DeleteTempAccount, CInv, UserFirst
    <3>2. Loose' \subseteq Loose /\ UserFirst'
      BY <2>1, <3>1 DEF Loose, Orphans, UserFirst
    <3> QED
      BY <2>2, <3>2, CountStays DEF CInv
  <2> QED
    BY <1>3, <2>3, <2>4, <2>5, <2>6 DEF Transfer
<1> QED
  BY <1>1, <1>2, <1>3 DEF Register

LEMMA CInvStays ==
  ASSUME CInv, [Next]_vars
  PROVE  CInv'
<1> DEFINE Same == UNCHANGED <<ommVars, accounts, collectorVars, registrationVars,
                              crashes, departures, events>>
           Fine == UserFirst' /\ Counted'
<1>1. IInv'
  BY NextPreserves DEF CInv
<1>2. Same => Fine
  BY NothingCounts
<1>3. ASSUME UNCHANGED vars PROVE Fine
  <2>1. Same
    BY <1>3 DEF vars, counters
  <2> QED
    BY <1>2, <2>1
<1>4. ASSUME NEW d \in Handsets, NEW n \in Extensions, CallToken(d, n)
      PROVE  Fine
  <2>1. Same
    BY <1>4 DEF CallToken, Outside, ommVars
  <2> QED
    BY <1>2, <2>1
<1>5. ASSUME NEW p \in posts, LosePost(p)
      PROVE  Fine
  <2>1. Same
    BY <1>5 DEF LosePost, Outside, ommVars
  <2> QED
    BY <1>2, <2>1
<1>6. ASSUME Restart PROVE Fine
  <2>1. Same
    BY <1>6 DEF Restart, counters
  <2> QED
    BY <1>2, <2>1
<1>7. ASSUME NEW d \in Handsets, Subscribe(d) \/ Leave(d)
      PROVE  Fine
  BY <1>7, HandsetsCount
<1>8. ASSUME NEW n \in Extensions, EventTask(n)
      PROVE  Fine
  BY <1>8, EventsCount
<1>9. ASSUME Crash PROVE Fine
  BY <1>9, CrashCounts
<1>10. ASSUME Collect PROVE Fine
  BY <1>10, CollectCounts
<1>11. ASSUME Register PROVE Fine
  BY <1>11, RegisterCounts
<1> HIDE DEF Fine
<1>12. Fine
  BY <1>3, <1>4, <1>5, <1>6, <1>7, <1>8, <1>9, <1>10, <1>11 DEF Next
<1> QED
  BY <1>1, <1>12 DEF CInv, Fine

(* find_unbound_pps and try_device_registration leave no temporary number  *)
(* behind by themselves: there is a crash, a departure or an               *)
(* UNSUBSCRIBE_DEVICE for each, however POSTs are repeated, late or        *)
(* refused.                                                                *)
THEOREM OrphansAreCounted == Spec => []OrphansHaveACause
<1>1. Init => CInv
  <2>1. ASSUME Init PROVE UserFirst /\ Counted
    <3>1. Loose = {} /\ Missed = {}
      BY <2>1, NumbersAssumption DEF Init, Loose, Orphans, Missed
    <3>2. Causes = 0
      BY <2>1 DEF Init, Causes
    <3> QED
      BY <2>1, <3>1, <3>2, FS_EmptySet DEF Init, UserFirst, Counted
  <2> QED
    BY <2>1, InitEstablishes DEF CInv
<1>2. CInv => OrphansHaveACause
  <2>1. ASSUME CInv, ThreadIdle PROVE Cardinality(Orphans) <= crashes + departures + events
    <3>1. Loose = Orphans /\ Missed = {}
      BY <2>1 DEF ThreadIdle, Loose, Orphans, Missed
    <3>2. Cardinality(Missed) = 0 /\ IsFiniteSet(Orphans)
          /\ Cardinality(Orphans) + Cardinality(Missed) <= Causes
      BY <2>1, <3>1, FS_EmptySet DEF CInv, Counted
    <3>3. Cardinality(Orphans) \in Nat
      BY <3>2, FS_CardinalityType
    <3> QED
      BY <3>2, <3>3 DEF Causes
  <2> QED
    BY <2>1 DEF OrphansHaveACause
<1> QED
  BY <1>1, <1>2, CInvStays, PTL DEF Spec
==============================================================================
