--------------------------- MODULE OMMPagingProofs ---------------------------
(***************************************************************************)
(* Proofs about OMMPaging, for every number of ids and changes and every   *)
(* size of a page.                                                         *)
(*                                                                         *)
(* The invariant says what a position in the listing stands for: all that  *)
(* lasted below it was yielded, and what the page at hand still holds lies *)
(* between the record yielded last and the top of the page.                *)
(*                                                                         *)
(* The number of queries is paid for by what is behind the position: each  *)
(* full page is as many ids as it has records.                             *)
(***************************************************************************)
EXTENDS OMMPaging, FiniteSetTheorems, TLAPS

(* What lasted is still there.                                             *)
LastingStay == lasting \subseteq records

(* The position is behind the record yielded last.                         *)
Position ==
  /\ phase = "query" => last < start \/ last = 0
  /\ phase = "yield" => last <= top /\ \A r \in page : last < r /\ r <= top

(* What the listing has behind it was yielded, if it lasted.               *)
Covered ==
  /\ phase = "query" => \A r \in lasting : r < start => r \in yielded
  /\ phase = "yield" =>
       \A r \in lasting : r <= top \/ size = "short" => r \in yielded \cup page
  /\ phase = "end" => lasting \subseteq yielded

(* Until find_user returns, nothing it yielded matches.                    *)
NoMatchYet == phase # "found" => yielded \cap wanted = {}

FirstFound ==
  phase = "found" => last \in wanted /\ \A r \in lasting \cap wanted : r >= last

IInv == TypeOK /\ LastingStay /\ Position /\ Covered /\ NoMatchYet /\ FirstFound

LEMMA InitEstablishes == Init => IInv
  BY SizesAssumption
     DEF Init, IInv, TypeOK, LastingStay, Position, Covered, NoMatchYet, FirstFound,
         Ids, QueryCap

(* Another client of the OMM: what lasted can only become less.            *)
LEMMA ChangePreserves ==
  ASSUME IInv, NEW r \in Ids, Create(r) \/ Delete(r)
  PROVE  IInv'
<1>1. Change /\ lasting' \subseteq lasting /\ lasting' \subseteq records'
      /\ records' \subseteq Ids
  BY DEF IInv, TypeOK, LastingStay, Create, Delete
<1>2. TypeOK' /\ LastingStay'
  BY <1>1, SizesAssumption DEF IInv, TypeOK, LastingStay, Change, answerVars, Ids, QueryCap
<1>3. Position' /\ NoMatchYet'
  BY <1>1 DEF IInv, Position, NoMatchYet, Change, answerVars
<1>4. Covered'
  BY <1>1 DEF IInv, Covered, Change, answerVars
<1>5. FirstFound'
  BY <1>1 DEF IInv, FirstFound, Change, answerVars
<1> QED
  BY <1>2, <1>3, <1>4, <1>5 DEF IInv

(* A query: the answer begins at start, and leaves out nothing up to its   *)
(* last record; one that is not full leaves out nothing at all.            *)
LEMMA QueryPreserves ==
  ASSUME IInv, NEW max \in Nat \ {0}, Query(max)
  PROVE  IInv'
<1>1. PICK answer \in SUBSET Ids :
        /\ phase = "query"
        /\ IsAnswer(answer, start, max)
        /\ CountQuery
        /\ IF answer = {} THEN EmptyAnswer ELSE Answer(answer, max)
        /\ UNCHANGED <<kind, wanted, ommVars, start, yielded, last>>
  BY DEF Query
<1> DEFINE Rest == {r \in records : r >= start}
<1>2. queries' \in 0 .. QueryCap
  BY <1>1, SizesAssumption DEF CountQuery, IInv, TypeOK, QueryCap
<1>3. LastingStay' /\ NoMatchYet' /\ FirstFound'
  BY <1>1 DEF IInv, LastingStay, NoMatchYet, FirstFound, ommVars, EmptyAnswer, Answer
<1>4. CASE answer = {}
  <2>1. Rest = {}
    BY <1>1, <1>4, FS_EmptySet DEF IsAnswer
  <2>2. \A r \in lasting : r < start
    BY <2>1 DEF IInv, TypeOK, LastingStay, Ids
  <2>3. TypeOK' /\ Position' /\ Covered'
    BY <1>1, <1>2, <1>4, <2>2, SizesAssumption
       DEF IInv, TypeOK, Position, Covered, ommVars, answerVars, EmptyAnswer
  <2> QED
    BY <1>3, <2>3 DEF IInv
<1>5. CASE answer # {}
  <2>1. /\ phase' = "yield" /\ page' = answer
        /\ top' \in answer /\ \A s \in answer : s <= top'
        /\ size' = IF Cardinality(answer) = max THEN "full" ELSE "short"
    BY <1>1, <1>5 DEF Answer
  <2>2. \A r \in answer : r \in records /\ r >= start
    BY <1>1 DEF IsAnswer
  <2>3. TypeOK'
    BY <1>1, <1>2, <2>1, SizesAssumption DEF IInv, TypeOK, ommVars, Ids
  <2>4. Position'
    BY <1>1, <2>1, <2>2 DEF IInv, TypeOK, Position, Ids
  <2>5. ASSUME NEW r \in lasting, r >= start, r <= top' \/ size' = "short"
        PROVE  r \in answer
    <3>1. r \in Rest
      BY <2>5 DEF IInv, LastingStay
    <3>2. CASE size' = "short"
      BY <1>1, <2>1, <3>1, <3>2 DEF IsAnswer
    <3>3. CASE r <= top'
      <4>1. r = top' \/ r < top'
        BY <2>1, <3>1, <3>3 DEF IInv, TypeOK, Ids
      <4> QED
        BY <1>1, <2>1, <3>1, <4>1 DEF IsAnswer
    <3> QED
      BY <2>5, <3>2, <3>3
  <2>6. Covered'
    BY <1>1, <2>1, <2>5 DEF IInv, TypeOK, LastingStay, Covered, ommVars, Ids
  <2> QED
    BY <1>3, <2>3, <2>4, <2>6 DEF IInv
<1> QED
  BY <1>4, <1>5

(* A record of the page is yielded: it is the next in order.               *)
LEMMA YieldPreserves ==
  ASSUME IInv, Yield
  PROVE  IInv' /\ last' > last
<1>1. PICK r \in page :
        /\ phase = "yield"
        /\ \A other \in page : r <= other
        /\ page' = page \ {r}
        /\ yielded' = yielded \cup {r}
        /\ last' = r
        /\ phase' = IF r \in wanted THEN "found" ELSE "yield"
        /\ UNCHANGED <<kind, wanted, ommVars, start, top, size, queries>>
  BY DEF Yield
<1>2. r \in Ids /\ last < r /\ r <= top
  BY <1>1 DEF IInv, TypeOK, Position
<1>3. TypeOK' /\ LastingStay'
  BY <1>1, <1>2 DEF IInv, TypeOK, LastingStay, ommVars, Ids
<1>4. Position'
  BY <1>1, <1>2 DEF IInv, TypeOK, Position, Ids
<1>5. Covered'
  BY <1>1 DEF IInv, Covered, ommVars
<1>6. NoMatchYet'
  BY <1>1 DEF IInv, NoMatchYet
<1>7. FirstFound'
  <2>1. ASSUME r \in wanted, NEW q \in lasting, q \in wanted
        PROVE  q >= r
    <3>1. q \in Ids /\ q \notin yielded
      BY <1>1, <2>1 DEF IInv, TypeOK, NoMatchYet
    <3>2. CASE q <= top
      <4>1. q \in page
        BY <1>1, <3>1, <3>2 DEF IInv, Covered
      <4> QED
        BY <1>1, <1>2, <3>1, <4>1 DEF Ids
    <3>3. CASE ~ q <= top
      BY <1>2, <3>1, <3>3 DEF IInv, TypeOK, Ids
    <3> QED
      BY <3>2, <3>3
  <2> QED
    BY <1>1, <2>1 DEF FirstFound, ommVars
<1> QED
  BY <1>1, <1>2, <1>3, <1>4, <1>5, <1>6, <1>7 DEF IInv, TypeOK, Ids

(* The page is over: the listing ends or goes on behind its top.           *)
LEMMA PageDonePreserves ==
  ASSUME IInv, PageDone
  PROVE  IInv'
<1>1. TypeOK' /\ LastingStay'
  BY SizesAssumption DEF IInv, TypeOK, LastingStay, PageDone, ommVars, answerVars
<1>2. Position'
  BY DEF IInv, TypeOK, Position, PageDone, answerVars
<1>3. Covered'
  <2>1. ASSUME NEW r \in lasting, r < top + 1
        PROVE  r <= top
    BY <2>1 DEF IInv, TypeOK, LastingStay, Ids
  <2> QED
    BY <2>1 DEF IInv, TypeOK, Covered, PageDone, ommVars, answerVars
<1>4. NoMatchYet' /\ FirstFound'
  BY DEF IInv, NoMatchYet, FirstFound, PageDone, ommVars
<1> QED
  BY <1>1, <1>2, <1>3, <1>4 DEF IInv

LEMMA StutterPreserves ==
  ASSUME IInv, UNCHANGED vars
  PROVE  IInv'
  BY DEF IInv, TypeOK, LastingStay, Position, Covered, NoMatchYet, FirstFound,
         vars, ommVars, answerVars

LEMMA NextPreserves ==
  ASSUME IInv, [Next]_vars
  PROVE  IInv'
<1>1. CASE \E r \in Ids : Create(r) \/ Delete(r)
  BY <1>1, ChangePreserves
<1>2. CASE GetUsers \/ GetDevices
  BY <1>2, QueryPreserves, SizesAssumption DEF GetUsers, GetDevices
<1>3. CASE FindUser \/ FindDevice
  BY <1>3, YieldPreserves DEF FindUser, FindDevice
<1>4. CASE PageDone
  BY <1>4, PageDonePreserves
<1>5. CASE UNCHANGED vars
  BY <1>5, StutterPreserves
<1> QED
  BY <1>1, <1>2, <1>3, <1>4, <1>5 DEF Next, Generate

LEMMA Invariance == Spec => []IInv
  BY InitEstablishes, NextPreserves, PTL DEF Spec

(* Every variable of a listing keeps its type.                             *)
THEOREM TypeCorrect == Spec => []TypeOK
<1>1. IInv => TypeOK
  BY DEF IInv
<1> QED
  BY <1>1, Invariance, PTL

(* A listing returns every record that was there all the time, whatever    *)
(* comes and goes between its queries and however full its pages are.      *)
THEOREM ListingComplete == Spec => []Complete
<1>1. IInv => Complete
  BY DEF IInv, Covered, Complete
<1> QED
  BY <1>1, Invariance, PTL

(* find_user and find_device return the first match, or none if there is   *)
(* none that lasted.                                                       *)
THEOREM FirstMatchFound == Spec => []FindsFirst
<1>1. IInv => FindsFirst
  BY DEF IInv, Covered, NoMatchYet, FirstFound, FindsFirst
<1> QED
  BY <1>1, Invariance, PTL

(* No record is returned twice: their ids increase.                        *)
THEOREM ListingAscends == Spec => Ascending
<1>1. IInv /\ [Next]_vars => [Yield => last' > last]_vars
  BY YieldPreserves
<1> QED
  BY <1>1, Invariance, PTL DEF Spec, Ascending
------------------------------------------------------------------------------
(* How many queries a listing takes: each but the last is paid for by a    *)
(* page of records that were not yielded before.                           *)

Max == IF kind = "user" THEN MaxUserRecords ELSE MaxDeviceRecords

Behind == \A r \in yielded : r <= last

PageFits == Cardinality(page) <= Max

Paid ==
  /\ phase = "query" => queries * Max <= Cardinality(yielded)
  /\ phase = "yield" /\ size = "full" =>
       queries * Max <= Cardinality(yielded) + Cardinality(page)
  /\ queries * Max <= Cardinality(yielded) + Max

QInv == IInv /\ Behind /\ PageFits /\ Paid

LEMMA Counts ==
  ASSUME IInv
  PROVE  /\ Max \in Nat \ {0} /\ queries \in Nat /\ queries * Max \in Nat
         /\ IsFiniteSet(Ids)
         /\ IsFiniteSet(page) /\ Cardinality(page) \in Nat
         /\ IsFiniteSet(yielded) /\ Cardinality(yielded) \in Nat
<1>1. Max \in Nat \ {0} /\ queries \in Nat
  BY SizesAssumption DEF Max, IInv, TypeOK, QueryCap
<1>2. IsFiniteSet(Ids)
  BY SizesAssumption, FS_Interval DEF Ids
<1>3. IsFiniteSet(page) /\ IsFiniteSet(yielded)
  BY <1>2, FS_Subset DEF IInv, TypeOK
<1> QED
  BY <1>1, <1>2, <1>3, FS_CardinalityType

LEMMA QueryPays ==
  ASSUME QInv, Query(Max)
  PROVE  Behind' /\ PageFits' /\ Paid'
<1>1. PICK answer \in SUBSET Ids :
        /\ phase = "query"
        /\ IsAnswer(answer, start, Max)
        /\ CountQuery
        /\ IF answer = {} THEN EmptyAnswer ELSE Answer(answer, Max)
        /\ UNCHANGED <<kind, wanted, ommVars, start, yielded, last>>
  BY DEF Query
<1>2. /\ Max \in Nat \ {0} /\ queries \in Nat /\ IsFiniteSet(answer)
      /\ Cardinality(yielded) \in Nat
  BY Counts, FS_Subset DEF QInv
<1>3. Cardinality(answer) \in Nat /\ Cardinality(answer) <= Max
  BY <1>1, <1>2, FS_CardinalityType DEF IsAnswer
<1>4. Max' = Max /\ yielded' = yielded
  BY <1>1 DEF Max
<1>5. queries' * Max <= Cardinality(yielded) + Max
  <2>1. queries * Max <= Cardinality(yielded)
    BY <1>1 DEF QInv, Paid
  <2>2. (queries + 1) * Max = queries * Max + Max /\ queries * Max \in Nat
    BY <1>2
  <2>3. queries' = queries + 1 \/ queries' = queries
    BY <1>1 DEF CountQuery
  <2> QED
    BY <1>2, <2>1, <2>2, <2>3
<1>6. Behind'
  BY <1>1 DEF QInv, Behind
<1>7. CASE answer = {}
  BY <1>1, <1>4, <1>5, <1>6, <1>7 DEF QInv, PageFits, Paid, EmptyAnswer, answerVars
<1>8. CASE answer # {}
  <2>1. /\ phase' = "yield" /\ page' = answer
        /\ size' = "full" => Cardinality(answer) = Max
    BY <1>1, <1>8 DEF Answer
  <2> QED
    BY <1>3, <1>4, <1>5, <1>6, <2>1 DEF PageFits, Paid
<1> QED
  BY <1>7, <1>8

LEMMA YieldPays ==
  ASSUME QInv, Yield
  PROVE  Behind' /\ PageFits' /\ Paid'
<1>1. PICK r \in page :
        /\ phase = "yield"
        /\ page' = page \ {r}
        /\ yielded' = yielded \cup {r}
        /\ last' = r
        /\ phase' \in {"found", "yield"}
        /\ UNCHANGED <<kind, size, queries>>
  BY DEF Yield
<1>2. r \in Ids /\ last < r
  BY <1>1 DEF QInv, IInv, TypeOK, Position
<1>3. r \notin yielded
  BY <1>2 DEF QInv, IInv, TypeOK, Behind, Ids
<1>4. /\ Cardinality(page') = Cardinality(page) - 1
      /\ Cardinality(yielded') = Cardinality(yielded) + 1
  BY <1>1, <1>3, Counts, FS_AddElement, FS_RemoveElement DEF QInv
<1>5. /\ Max \in Nat /\ queries * Max \in Nat /\ Cardinality(page) \in Nat
      /\ Cardinality(yielded) \in Nat /\ Max' = Max /\ queries' = queries
  BY <1>1, Counts DEF QInv, Max
<1>6. Behind'
  BY <1>1, <1>2 DEF QInv, IInv, TypeOK, Behind, Ids
<1>7. PageFits'
  BY <1>4, <1>5 DEF QInv, PageFits
<1>8. Paid'
  BY <1>1, <1>4, <1>5 DEF QInv, Paid
<1> QED
  BY <1>6, <1>7, <1>8

LEMMA PageDonePays ==
  ASSUME QInv, PageDone
  PROVE  Behind' /\ PageFits' /\ Paid'
<1>1. /\ phase = "yield" /\ page = {} /\ phase' = IF size = "full" THEN "query" ELSE "end"
      /\ UNCHANGED <<kind, page, size, yielded, last, queries>>
  BY DEF PageDone, answerVars
<1>2. Cardinality(page) = 0 /\ Cardinality(yielded) \in Nat /\ Max' = Max
  BY <1>1, FS_EmptySet, Counts DEF QInv, Max
<1>3. queries' * Max' = queries * Max /\ Cardinality(yielded') = Cardinality(yielded)
      /\ Cardinality(page') = Cardinality(page)
  BY <1>1, <1>2
<1> QED
  BY <1>1, <1>2, <1>3 DEF QInv, Behind, PageFits, Paid

LEMMA QInvStays ==
  ASSUME QInv, [Next]_vars
  PROVE  QInv'
<1>1. IInv'
  BY NextPreserves DEF QInv
<1>2. CASE GetUsers \/ GetDevices
  <2>1. Query(Max)
    BY <1>2 DEF GetUsers, GetDevices, Max
  <2> QED
    BY <1>1, <2>1, QueryPays DEF QInv
<1>3. CASE FindUser \/ FindDevice
  BY <1>1, <1>3, YieldPays DEF QInv, FindUser, FindDevice
<1>4. CASE PageDone
  BY <1>1, <1>4, PageDonePays DEF QInv
<1>5. CASE UNCHANGED <<kind, phase, page, size, yielded, last, queries>>
  <2>1. /\ Max' = Max /\ Cardinality(page') = Cardinality(page)
        /\ Cardinality(yielded') = Cardinality(yielded) /\ queries' = queries
    BY <1>5 DEF Max
  <2> QED
    BY <1>1, <1>5, <2>1 DEF QInv, Behind, PageFits, Paid
<1> QED
  BY <1>2, <1>3, <1>4, <1>5
     DEF Next, Generate, Create, Delete, Change, answerVars, vars

(* "Only as many queries as necessary" (OMMClient.py:301 and 368): a       *)
(* listing makes at most one query more than it returned full pages.       *)
THEOREM QueriesAreFew == Spec => []FewQueries
<1>1. Init => QInv
  <2>1. ASSUME Init PROVE Behind /\ PageFits /\ Paid
    <3>1. /\ Cardinality(page) = 0 /\ Cardinality(yielded) = 0 /\ queries = 0
          /\ yielded = {} /\ phase = "query" /\ Max \in Nat
      BY <2>1, FS_EmptySet, SizesAssumption DEF Init, Max
    <3> QED
      BY <3>1 DEF Behind, PageFits, Paid
  <2> QED
    BY <2>1, InitEstablishes DEF QInv
<1>2. QInv => FewQueries
  BY DEF QInv, Paid, FewQueries, Max
<1> QED
  BY <1>1, <1>2, QInvStays, PTL DEF Spec
==============================================================================
