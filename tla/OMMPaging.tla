------------------------------ MODULE OMMPaging ------------------------------
(***************************************************************************)
(* get_users and get_devices of OMMClient.py: generators that ask the OMM  *)
(* for page after page of records, while other clients of the OMM create   *)
(* and delete records, and find_user and find_device, which stop at the    *)
(* first record that matches.  OMMMgr.read_users, find_unbound_pps and     *)
(* try_device_registration build on them.                                  *)
(*                                                                         *)
(* A record is its id (uid or ppn).  External, modelled from how the code  *)
(* uses it: the OMM answers with its records from the id on, in the order  *)
(* of their ids, and with all of them or as many as were asked for.        *)
(***************************************************************************)
EXTENDS Naturals, FiniteSets

CONSTANTS
  MaxId,             \* ids are 1 .. MaxId
  MaxUserRecords,    \* MAX_RECORDS of get_users
  MaxDeviceRecords,  \* MAX_RECORDS of get_devices
  MaxChanges         \* bound: records created or deleted meanwhile

ASSUME SizesAssumption ==
  /\ MaxId \in Nat /\ MaxChanges \in Nat
  /\ MaxUserRecords \in Nat \ {0} /\ MaxDeviceRecords \in Nat \ {0}

VARIABLES
  kind,     \* "user" or "device"
  wanted,   \* the records find_... looks for, none for get_...
  records,  \* the records of the OMM
  lasting,  \* history: those that were there all the time
  phase,    \* "query", "yield", "end" or "found"
  start,    \* start_uid, start_ppn
  page,     \* the records of the answer still to be yielded
  top,      \* the id of the last record of the answer
  size,     \* was the answer as large as it could be: "full" or "short"
  yielded,  \* the records yielded so far
  last,     \* the one yielded last
  queries,  \* history: how many queries were made, counted to QueryCap
  changes   \* counter of the bound

ommVars == <<records, lasting, changes>>
answerVars == <<page, top, size>>
vars == <<kind, wanted, ommVars, phase, start, answerVars, yielded, last, queries>>

Ids == 1 .. MaxId
QueryCap == MaxId + 2

TypeOK ==
  /\ kind \in {"user", "device"}
  /\ wanted \subseteq Ids
  /\ records \subseteq Ids /\ lasting \subseteq Ids
  /\ phase \in {"query", "yield", "end", "found"}
  /\ start \in 0 .. MaxId + 1
  /\ page \subseteq Ids
  /\ top \in 0 .. MaxId
  /\ size \in {"full", "short"}
  /\ yielded \subseteq Ids
  /\ last \in 0 .. MaxId
  /\ queries \in 0 .. QueryCap
  /\ changes \in 0 .. MaxChanges

Init ==
  /\ kind \in {"user", "device"}
  /\ wanted \in SUBSET Ids
  /\ records \in SUBSET Ids
  /\ lasting = records
  /\ phase = "query"
  /\ start = 0
  /\ page = {} /\ top = 0 /\ size = "short"
  /\ yielded = {} /\ last = 0
  /\ queries = 0
  /\ changes = 0
------------------------------------------------------------------------------
(* The OMM.                                                                *)

Change ==
  /\ changes < MaxChanges
  /\ changes' = changes + 1
  /\ UNCHANGED <<kind, wanted, phase, start, answerVars, yielded, last, queries>>

Create(r) ==
  /\ Change
  /\ records' = records \cup {r}
  /\ UNCHANGED lasting

Delete(r) ==
  /\ Change
  /\ records' = records \ {r}
  /\ lasting' = lasting \ {r}

(* The answers to a query for max records from the id from on.             *)
IsAnswer(answer, from, max) ==
  LET Rest == {r \in records : r >= from}
  IN /\ answer \subseteq Rest
     /\ Cardinality(answer) <= max
     /\ answer # Rest => Cardinality(answer) = max
     /\ \A r \in Rest, s \in answer : r < s => r \in answer
------------------------------------------------------------------------------
(* The generators.                                                         *)

CountQuery == queries' = IF queries < QueryCap THEN queries + 1 ELSE queries

(* Mutant: an answer that is exactly full counts as the last one.          *)
Query_FullIsLast(max) ==
  \E answer \in SUBSET Ids :
    /\ phase = "query"
    /\ IsAnswer(answer, start, max)
    /\ answer # {}
    /\ CountQuery
    /\ phase' = "yield"
    /\ page' = answer
    /\ \E r \in answer : top' = r /\ \A s \in answer : s <= r
    /\ size' = "short"
    /\ UNCHANGED <<kind, wanted, ommVars, start, yielded, last>>

(* Mutant: only an empty answer is the last one.                           *)
Query_UntilEmpty(max) ==
  \E answer \in SUBSET Ids :
    /\ phase = "query"
    /\ IsAnswer(answer, start, max)
    /\ CountQuery
    /\ IF answer = {}
         THEN phase' = "end" /\ UNCHANGED answerVars
         ELSE /\ phase' = "yield"
              /\ page' = answer
              /\ \E r \in answer : top' = r /\ \A s \in answer : s <= r
              /\ size' = "full"
    /\ UNCHANGED <<kind, wanted, ommVars, start, yielded, last>>

EmptyAnswer ==
  /\ phase' = "end"
  /\ UNCHANGED answerVars

Answer(answer, max) ==
  /\ phase' = "yield"
  /\ page' = answer
  /\ \E r \in answer : top' = r /\ \A s \in answer : s <= r
  /\ size' = IF Cardinality(answer) = max THEN "full" ELSE "short"

Query(max) ==
  \E answer \in SUBSET Ids :
    /\ phase = "query"
    /\ IsAnswer(answer, start, max)
    /\ CountQuery
    /\ IF answer = {} THEN EmptyAnswer ELSE Answer(answer, max)
    /\ UNCHANGED <<kind, wanted, ommVars, start, yielded, last>>

(* Mutant: every record counts as a match.                                 *)
Yield_NoMatch ==
  \E r \in page :
    /\ phase = "yield"
    /\ \A other \in page : r <= other
    /\ page' = page \ {r}
    /\ yielded' = yielded \cup {r}
    /\ last' = r
    /\ phase' = IF wanted # {} THEN "found" ELSE "yield"
    /\ UNCHANGED <<kind, wanted, ommVars, start, top, size, queries>>

(* The next record of the page; find_user and find_device return the first *)
(* that matches and drop the generator.                                    *)
Yield ==
  \E r \in page :
    /\ phase = "yield"
    /\ \A other \in page : r <= other
    /\ page' = page \ {r}
    /\ yielded' = yielded \cup {r}
    /\ last' = r
    /\ phase' = IF r \in wanted THEN "found" ELSE "yield"
    /\ UNCHANGED <<kind, wanted, ommVars, start, top, size, queries>>

(* Mutant: the next query is the same again.                               *)
PageDone_SameStart ==
  /\ phase = "yield"
  /\ page = {}
  /\ phase' = IF size = "full" THEN "query" ELSE "end"
  /\ UNCHANGED <<kind, wanted, ommVars, start, answerVars, yielded, last, queries>>

(* Mutant: the next query begins one id too late.                          *)
PageDone_Skips ==
  /\ phase = "yield"
  /\ page = {}
  /\ IF size = "full"
       THEN phase' = "query" /\ start' = top + 2
       ELSE phase' = "end" /\ UNCHANGED start
  /\ UNCHANGED <<kind, wanted, ommVars, answerVars, yielded, last, queries>>

PageDone ==
  /\ phase = "yield"
  /\ page = {}
  /\ IF size = "full"
       THEN phase' = "query" /\ start' = top + 1
       ELSE phase' = "end" /\ UNCHANGED start
  /\ UNCHANGED <<kind, wanted, ommVars, answerVars, yielded, last, queries>>

GetUsers == kind = "user" /\ Query(MaxUserRecords)
GetDevices == kind = "device" /\ Query(MaxDeviceRecords)
FindUser == kind = "user" /\ Yield
FindDevice == kind = "device" /\ Yield
Generate == GetUsers \/ GetDevices \/ FindUser \/ FindDevice \/ PageDone

Next == Generate \/ \E r \in Ids : Create(r) \/ Delete(r)

Spec == Init /\ [][Next]_vars
------------------------------------------------------------------------------
(* Properties.                                                             *)

(* A listing that ran to its end returned every record that was there from *)
(* the start to the end, whatever was created and deleted between pages.   *)
Complete == phase = "end" => lasting \subseteq yielded

(* Records come in the order of their ids, so none is returned twice.      *)
Ascending == [][Yield => last' > last]_vars

(* find_user returns a match, the first of those that lasted, and None     *)
(* only when none of them matches.                                         *)
FindsFirst ==
  /\ phase = "found" => last \in wanted /\ \A r \in lasting \cap wanted : r >= last
  /\ phase = "end" => lasting \cap wanted = {}

(* OMMClient.py:301 and 368: only as many queries as necessary.            *)
FewQueries ==
  LET max == IF kind = "user" THEN MaxUserRecords ELSE MaxDeviceRecords
  IN queries * max <= Cardinality(yielded) + max
==============================================================================
