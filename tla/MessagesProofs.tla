---------------------------- MODULE MessagesProofs ----------------------------
(***************************************************************************)
(* Proofs about Messages, for all names and attributes, every limit of     *)
(* children and answers of every length.                                   *)
(*                                                                         *)
(* The invariant says of the children taken so far what the properties say *)
(* of all: what is kept for a name are its children in their order.  The   *)
(* place of a child in its list is its rank among the positions of the     *)
(* name, which a later child does not change.                              *)
(***************************************************************************)
EXTENDS Messages, SequenceTheorems, FiniteSetTheorems, TLAPS

Given == {n \in Names : given[n] # "absent"}
Wanted(n) == IF given[n] = "none" THEN Empty ELSE given[n]

FormFor(k) == CASE k = 0 -> "absent" [] k = 1 -> "dict" [] OTHER -> "list"

(* What parse_message knows of a name is what it took of it.               *)
Collected ==
  \A n \in Names :
    /\ children[n].form = FormFor(Cardinality(Positions(n, at)))
    /\ Len(children[n].items) = Cardinality(Positions(n, at))
    /\ \A i \in Positions(n, at) :
         children[n].items[Rank(i, Positions(n, at))] = elements[i].attrs

InPhase ==
  /\ phase = "construct" => at = 0
  /\ phase # "construct" => left = {}
  /\ phase = "parsed" => ~More

(* A request has one child for each name that is not left.                 *)
Constructed ==
  /\ left \subseteq Given
  /\ Given # {} =>
       /\ Len(elements) = Cardinality(Given \ left)
       /\ \A i \in 1 .. Len(elements) :
            /\ elements[i].name \in Given \ left
            /\ elements[i].attrs = Wanted(elements[i].name)
       /\ \A i, j \in 1 .. Len(elements) :
            elements[i].name = elements[j].name => i = j
       /\ \A n \in Given \ left : \E i \in 1 .. Len(elements) : elements[i].name = n

IInv == TypeOK /\ at <= MaxChildren /\ Collected /\ InPhase /\ Constructed

------------------------------------------------------------------------------
(* Positions and ranks.                                                    *)

LEMMA PositionsAreFinite ==
  ASSUME NEW n, NEW k \in Nat
  PROVE  /\ IsFiniteSet(Positions(n, k))
         /\ Cardinality(Positions(n, k)) \in Nat
<1>1. IsFiniteSet(1 .. k)
  BY FS_Interval
<1>2. Positions(n, k) \in SUBSET (1 .. k)
  BY DEF Positions
<1>3. IsFiniteSet(Positions(n, k))
  BY <1>1, <1>2, FS_Subset
<1> QED
  BY <1>3, FS_CardinalityType

LEMMA NoPositions ==
  ASSUME NEW n
  PROVE  Positions(n, 0) = {} /\ Cardinality(Positions(n, 0)) = 0
<1>1. Positions(n, 0) = {}
  BY DEF Positions
<1> QED
  BY <1>1, FS_EmptySet

(* One more child is the last of its name, and of no other name.           *)
LEMMA NextPosition ==
  ASSUME NEW n, NEW k \in Nat
  PROVE  LET old == Positions(n, k) new == Positions(n, k + 1)
         IN IF elements[k + 1].name = n
              THEN /\ new = old \cup {k + 1}
                   /\ Cardinality(new) = Cardinality(old) + 1
                   /\ Rank(k + 1, new) = Cardinality(new)
                   /\ \A i \in old : Rank(i, new) = Rank(i, old)
              ELSE new = old
<1> DEFINE old == Positions(n, k)
           new == Positions(n, k + 1)
<1>1. 1 .. k + 1 = (1 .. k) \cup {k + 1} /\ k + 1 \notin 1 .. k
  OBVIOUS
<1>2. CASE elements[k + 1].name = n
  <2>1. new = old \cup {k + 1} /\ k + 1 \notin old
    BY <1>1, <1>2 DEF Positions
  <2>2. Cardinality(new) = Cardinality(old) + 1
    BY <2>1, FS_AddElement, PositionsAreFinite
  <2>3. {j \in new : j <= k + 1} = new
    BY DEF Positions
  <2>4. \A i \in old : {j \in new : j <= i} = {j \in old : j <= i}
    BY <2>1 DEF Positions
  <2> QED
    BY <1>2, <2>1, <2>2, <2>3, <2>4 DEF Rank
<1>3. CASE elements[k + 1].name # n
  BY <1>1, <1>3 DEF Positions
<1> QED
  BY <1>2, <1>3

LEMMA RankFits ==
  ASSUME NEW n, NEW k \in Nat, NEW i \in Positions(n, k)
  PROVE  Rank(i, Positions(n, k)) \in 1 .. Cardinality(Positions(n, k))
<1> DEFINE P == Positions(n, k)
           L == {j \in P : j <= i}
<1>1. IsFiniteSet(P) /\ Cardinality(P) \in Nat /\ L \in SUBSET P
  BY PositionsAreFinite
<1>2. IsFiniteSet(L) /\ Cardinality(L) <= Cardinality(P) /\ Cardinality(L) \in Nat
  BY <1>1, FS_Subset, FS_CardinalityType
<1>3. i \in L
  BY DEF Positions
<1>4. Cardinality(L) # 0
  BY <1>2, <1>3, FS_EmptySet
<1> QED
  BY <1>1, <1>2, <1>4 DEF Rank
------------------------------------------------------------------------------
(* The steps.                                                              *)

LEMMA InitEstablishes ==
  ASSUME Init
  PROVE  IInv
<1>1. at = 0 /\ children = NothingParsed
  BY DEF Init
<1>2. Absent \in Parsed
  BY DEF Absent, Parsed
<1>3. children \in [Names -> Parsed]
  BY <1>1, <1>2 DEF NothingParsed
<1>4. Collected
  BY <1>1, NoPositions DEF Collected, NothingParsed, Absent, FormFor
<1>5. CASE InitRequest
  <2>1. left = Given /\ Given \subseteq Names /\ elements = <<>> /\ phase = "construct"
    BY <1>5 DEF InitRequest, Given
  <2>2. Given \ left = {} /\ Cardinality(Given \ left) = 0
    BY <2>1, FS_EmptySet
  <2>3. Constructed
    BY <2>1, <2>2 DEF Constructed
  <2>4. TypeOK
    BY <1>1, <1>3, <1>5, <2>1 DEF InitRequest, TypeOK
  <2> QED
    BY <1>1, <1>4, <2>1, <2>3, <2>4, LimitsAssumption DEF IInv, InPhase
<1>6. CASE InitAnswer
  <2>1. PICK k \in 0 .. MaxElements : elements \in [1 .. k -> Element]
    BY <1>6 DEF InitAnswer
  <2>2. elements \in Seq(Element) /\ Len(elements) = k
    BY <2>1, LimitsAssumption
  <2>3. Given = {} /\ left = {} /\ phase = "parse"
    BY <1>6 DEF InitAnswer, Given
  <2>4. given \in [Names -> Values \cup {"none", "absent"}]
    BY <1>6 DEF InitAnswer
  <2>5. TypeOK
    BY <1>1, <1>3, <2>2, <2>3, <2>4 DEF TypeOK
  <2> QED
    BY <1>1, <1>4, <2>3, <2>5, LimitsAssumption DEF IInv, InPhase, Constructed
<1> QED
  BY <1>5, <1>6 DEF Init

LEMMA AppendChildKeeps ==
  ASSUME IInv, AppendChild
  PROVE  IInv'
<1> PICK n \in left :
      /\ elements' = Append(elements, [name |-> n, attrs |-> Wanted(n)])
      /\ left' = left \ {n}
  BY DEF AppendChild, Wanted
<1>1. /\ phase = "construct" /\ at = 0
      /\ UNCHANGED <<phase, given, at, children>>
  BY DEF AppendChild, IInv, InPhase
<1>2. n \in Given /\ n \in Names /\ Given \subseteq Names /\ Given' = Given
  BY <1>1 DEF IInv, Constructed, Given
<1>3. [name |-> n, attrs |-> Wanted(n)] \in Element
  BY <1>2, NamesAssumption DEF Wanted, Element, Given, IInv, TypeOK
<1>4. /\ elements \in Seq(Element) /\ elements' \in Seq(Element)
      /\ Len(elements') = Len(elements) + 1
      /\ \A i \in 1 .. Len(elements) : elements'[i] = elements[i]
      /\ elements'[Len(elements) + 1] = [name |-> n, attrs |-> Wanted(n)]
  BY <1>3 DEF IInv, TypeOK
<1>5. TypeOK'
  BY <1>1, <1>4 DEF IInv, TypeOK
<1>6. Collected'
  <2>1. \A m : Positions(m, at) = {} /\ Positions(m, at)' = {}
    BY <1>1 DEF Positions
  <2> QED
    BY <1>1, <2>1 DEF IInv, Collected
<1>7. Constructed'
  <2>1. Given' \ left' = (Given \ left) \cup {n} /\ n \notin Given \ left
    BY <1>2
  <2>2. IsFiniteSet(Given \ left)
    BY <1>2, NamesAssumption, FS_Subset
  <2>3. Cardinality(Given' \ left') = Cardinality(Given \ left) + 1
    BY <2>1, <2>2, FS_AddElement
  <2>5. Given # {} /\ Len(elements) \in Nat
    BY <1>2, <1>4
  <2>6. Len(elements') = Cardinality(Given' \ left')
    BY <1>4, <2>3, <2>5 DEF IInv, Constructed
  <2>7. \A i \in 1 .. Len(elements') :
          /\ elements'[i].name \in Given' \ left'
          /\ elements'[i].attrs = Wanted(elements'[i].name)
    <3>1. ASSUME NEW i \in 1 .. Len(elements)
          PROVE  /\ elements'[i].name \in Given' \ left'
                 /\ elements'[i].attrs = Wanted(elements'[i].name)
      BY <1>4, <2>1, <2>5, <3>1 DEF IInv, Constructed
    <3>2. /\ elements'[Len(elements) + 1].name \in Given' \ left'
          /\ elements'[Len(elements) + 1].attrs = Wanted(elements'[Len(elements) + 1].name)
      BY <1>4, <2>1
    <3> QED
      BY <1>4, <2>5, <3>1, <3>2
  <2>8. \A i, j \in 1 .. Len(elements') : elements'[i].name = elements'[j].name => i = j
    BY <1>4, <2>1, <2>5 DEF IInv, Constructed
  <2>9. \A m \in Given' \ left' : \E i \in 1 .. Len(elements') : elements'[i].name = m
    <3>1. ASSUME NEW m \in Given \ left
          PROVE  \E i \in 1 .. Len(elements') : elements'[i].name = m
      BY <1>4, <2>5, <3>1 DEF IInv, Constructed
    <3>2. elements'[Len(elements) + 1].name = n /\ Len(elements) + 1 \in 1 .. Len(elements')
      BY <1>4, <2>5
    <3> QED
      BY <2>1, <3>1, <3>2
  <2>10. left' \subseteq Given'
    BY <1>2 DEF IInv, Constructed
  <2> QED
    BY <1>1, <2>6, <2>7, <2>8, <2>9, <2>10 DEF Constructed, Wanted
<1> QED
  BY <1>1, <1>5, <1>6, <1>7 DEF IInv, InPhase

LEMMA TakeChildKeeps ==
  ASSUME IInv, TakeChild
  PROVE  IInv'
<1> DEFINE child == elements[at + 1]
<1>1. /\ phase = "parse" /\ at \in Nat /\ at < Len(elements) /\ at < MaxChildren
      /\ at' = at + 1
      /\ children' = [children EXCEPT ![child.name] = Added(@, child.attrs)]
      /\ UNCHANGED <<phase, given, left, elements>>
  BY DEF TakeChild, More, IInv, TypeOK
<1>2. child.name \in Names /\ child.attrs \in Values
  <2>1. elements \in Seq(Element) /\ at + 1 \in 1 .. Len(elements)
    BY <1>1 DEF IInv, TypeOK
  <2>2. child \in Element
    BY <2>1
  <2> QED
    BY <2>2 DEF Element
<1>3. /\ children \in [Names -> Parsed]
      /\ \A n \in Names : children'[n] =
           IF n = child.name THEN Added(children[n], child.attrs) ELSE children[n]
  BY <1>1, <1>2 DEF IInv, TypeOK
<1>4. ASSUME NEW n \in Names
      PROVE  /\ children'[n] \in Parsed
             /\ children'[n].form = FormFor(Cardinality(Positions(n, at + 1)))
             /\ Len(children'[n].items) = Cardinality(Positions(n, at + 1))
             /\ \A i \in Positions(n, at + 1) :
                  children'[n].items[Rank(i, Positions(n, at + 1))] = elements[i].attrs
  <2> DEFINE old == Positions(n, at)
             new == Positions(n, at + 1)
             items == children[n].items
  <2>1. /\ children[n].form = FormFor(Cardinality(old))
        /\ Len(items) = Cardinality(old)
        /\ \A i \in old : items[Rank(i, old)] = elements[i].attrs
        /\ items \in Seq(Values) /\ children[n] \in Parsed
    BY <1>3 DEF IInv, Collected, Parsed
  <2>2. Cardinality(old) \in Nat
    BY <1>1, PositionsAreFinite
  <2>3. CASE n # child.name
    <3>1. new = old
      BY <1>1, <2>3, NextPosition
    <3> QED
      BY <1>3, <2>1, <2>3, <3>1
  <2>4. CASE n = child.name
    <3>1. /\ new = old \cup {at + 1}
          /\ Cardinality(new) = Cardinality(old) + 1
          /\ Rank(at + 1, new) = Cardinality(new)
          /\ \A i \in old : Rank(i, new) = Rank(i, old)
      BY <1>1, <2>4, NextPosition
    <3>2. children'[n] = Added(children[n], child.attrs)
      BY <1>3, <2>4
    <3>3. /\ children'[n].items = Append(items, child.attrs)
          /\ children'[n].form = FormFor(Cardinality(new))
          /\ children'[n] \in Parsed
      <4>1. CASE children[n].form = "absent"
        <5>1. Cardinality(old) = 0
          BY <2>1, <2>2, <4>1 DEF FormFor
        <5>2. items = <<>>
          BY <2>1, <5>1, EmptySeq
        <5>3. children'[n] = [form |-> "dict", items |-> <<child.attrs>>]
          BY <3>2, <4>1 DEF Added
        <5>4. <<child.attrs>> = Append(items, child.attrs) /\ <<child.attrs>> \in Seq(Values)
          BY <1>2, <5>2
        <5> QED
          BY <3>1, <5>1, <5>3, <5>4 DEF FormFor, Parsed
      <4>2. CASE children[n].form # "absent"
        <5>1. Cardinality(old) # 0
          BY <2>1, <2>2, <4>2 DEF FormFor
        <5>2. children'[n] = [form |-> "list", items |-> Append(items, child.attrs)]
          BY <3>2, <4>2 DEF Added
        <5>3. Append(items, child.attrs) \in Seq(Values)
          BY <1>2, <2>1
        <5> QED
          BY <2>2, <3>1, <5>1, <5>2, <5>3 DEF FormFor, Parsed
      <4> QED
        BY <4>1, <4>2
    <3>4. /\ Len(children'[n].items) = Len(items) + 1
          /\ \A r \in 1 .. Len(items) : children'[n].items[r] = items[r]
          /\ children'[n].items[Len(items) + 1] = child.attrs
      BY <1>2, <2>1, <3>3
    <3>5. \A i \in old : children'[n].items[Rank(i, new)] = elements[i].attrs
      <4>1. \A i \in old : Rank(i, old) \in 1 .. Len(items)
        BY <1>1, <2>1, RankFits
      <4> QED
        BY <2>1, <3>1, <3>4, <4>1
    <3>6. children'[n].items[Rank(at + 1, new)] = elements[at + 1].attrs
      BY <2>1, <3>1, <3>4
    <3> QED
      BY <2>1, <3>1, <3>3, <3>4, <3>5, <3>6
  <2> QED
    BY <2>3, <2>4
<1>5. \A n : Positions(n, at)' = Positions(n, at + 1)
  BY <1>1 DEF Positions
<1>6. Collected'
  BY <1>1, <1>4, <1>5 DEF Collected
<1>7. TypeOK'
  <2>1. children' \in [Names -> Parsed]
    BY <1>1, <1>3, <1>4
  <2>2. at' \in 0 .. Len(elements')
    BY <1>1 DEF IInv, TypeOK
  <2> QED
    BY <1>1, <2>1, <2>2 DEF IInv, TypeOK
<1>8. Constructed'
  BY <1>1 DEF IInv, Constructed, Given, Wanted
<1> QED
  BY <1>1, <1>6, <1>7, <1>8, LimitsAssumption DEF IInv, InPhase

(* Sending, returning and stuttering change nothing but the phase.         *)
LEMMA PhaseKeeps ==
  ASSUME IInv, Send \/ Return \/ UNCHANGED vars
  PROVE  IInv'
<1>1. UNCHANGED <<given, left, elements, at, children>>
  BY DEF Send, Return, vars
<1>2. TypeOK'
  BY <1>1 DEF IInv, TypeOK, Send, Return, vars
<1>3. Collected'
  <2>1. \A n : Positions(n, at)' = Positions(n, at)
    BY <1>1 DEF Positions
  <2> QED
    BY <1>1, <2>1 DEF IInv, Collected
<1>5. Constructed'
  BY <1>1 DEF IInv, Constructed, Given, Wanted
<1>4. InPhase'
  BY <1>1 DEF IInv, InPhase, More, Send, Return, vars
<1> QED
  BY <1>1, <1>2, <1>3, <1>4, <1>5 DEF IInv

LEMMA IInvHolds == Spec => []IInv
<1>1. IInv /\ [Next]_vars => IInv'
  BY AppendChildKeeps, TakeChildKeeps, PhaseKeeps DEF Next
<1> QED
  BY <1>1, InitEstablishes, PTL DEF Spec
------------------------------------------------------------------------------
(* The dict has attributes for a child and lists of them, and the count of *)
(* children taken stays within the message.                                *)
THEOREM TypeCorrect == Spec => []TypeOK
<1>1. IInv => TypeOK
  BY DEF IInv
<1> QED
  BY <1>1, IInvHolds, PTL

(* When parse_message is done it took all the children it reads.           *)
LEMMA AllTaken ==
  ASSUME IInv, phase = "parsed"
  PROVE  at = Min2(Len(elements), MaxChildren)
BY LimitsAssumption DEF IInv, TypeOK, InPhase, More, Min2

(* parse_message returns all children it reads, under their names and in   *)
(* their order, however many there are and however names are mixed.        *)
THEOREM ChildrenKeepTheirPlaces == Spec => []NothingMixedUp
<1>1. IInv => NothingMixedUp
  BY AllTaken DEF IInv, Collected, NothingMixedUp, Read
<1> QED
  BY <1>1, IInvHolds, PTL

(* What get_users and get_devices make of the answer, which they wrap when *)
(* it is no list, rests on this: a dict is one child, a list is several.   *)
THEOREM FormIsTheNumber == Spec => []FormTellsNumber
<1>1. ASSUME IInv PROVE FormTellsNumber
  <2>1. ASSUME phase = "parsed", NEW n \in Names
        PROVE  /\ children[n].form = FormFor(Cardinality(Read(n)))
               /\ IsFiniteSet(Read(n)) /\ Cardinality(Read(n)) \in Nat
    <3>1. at \in Nat /\ Read(n) = Positions(n, at)
      BY <1>1, <2>1, AllTaken DEF IInv, TypeOK, Read
    <3> QED
      BY <1>1, <3>1, PositionsAreFinite DEF IInv, Collected
  <2>2. ASSUME phase = "parsed", NEW n \in Names
        PROVE  CASE children[n].form = "absent" -> Read(n) = {}
                 [] children[n].form = "dict" -> Cardinality(Read(n)) = 1
                 [] children[n].form = "list" -> Cardinality(Read(n)) > 1
    <3> DEFINE k == Cardinality(Read(n))
    <3>1. k \in Nat /\ children[n].form = FormFor(k) /\ (k = 0 <=> Read(n) = {})
      BY <2>1, <2>2, FS_EmptySet
    <3>2. k = 0 \/ k = 1 \/ k > 1
      BY <3>1
    <3> QED
      BY <3>1, <3>2 DEF FormFor
  <2> QED
    BY <2>2 DEF FormTellsNumber
<1> QED
  BY <1>1, IInvHolds, PTL

(* What parse_message makes of what construct_message made is what was     *)
(* given, as long as there are not more names than it reads.               *)
THEOREM RequestsComeBack == Spec => []RoundTrip
<1>1. ASSUME IInv, phase = "parsed", Given # {}, Cardinality(Names) <= MaxChildren,
             NEW n \in Names
      PROVE  children[n] = IF given[n] = "absent" THEN Absent
                           ELSE [form |-> "dict", items |-> <<Wanted(n)>>]
  <2>1. left = {} /\ Given \ left = Given
    BY <1>1 DEF IInv, InPhase
  <2>2. Cardinality(Given) <= Cardinality(Names)
    BY NamesAssumption, FS_Subset DEF Given
  <2>3. Len(elements) <= MaxChildren /\ Len(elements) \in Nat
    <3>1. Cardinality(Names) \in Nat /\ Len(elements) \in Nat
      BY <1>1, NamesAssumption, FS_CardinalityType DEF IInv, TypeOK
    <3> QED
      BY <1>1, <2>1, <2>2, <3>1, LimitsAssumption DEF IInv, Constructed
  <2>4. at = Len(elements)
    BY <1>1, <2>3, AllTaken, LimitsAssumption DEF Min2
  <2> DEFINE P == Positions(n, at)
             items == children[n].items
  <2>5. /\ children[n].form = FormFor(Cardinality(P))
        /\ Len(items) = Cardinality(P)
        /\ \A i \in P : items[Rank(i, P)] = elements[i].attrs
        /\ items \in Seq(Values) /\ children[n] \in Parsed
    BY <1>1 DEF IInv, Collected, TypeOK, Parsed
  <2>6. CASE n \notin Given
    <3>1. P = {}
      BY <1>1, <2>1, <2>4, <2>6 DEF Positions, IInv, Constructed
    <3>2. Cardinality(P) = 0
      BY <3>1, FS_EmptySet
    <3>3. items = <<>>
      BY <2>5, <3>2, EmptySeq
    <3>4. children[n].form = "absent"
      BY <2>5, <3>2 DEF FormFor
    <3> QED
      BY <2>5, <2>6, <3>3, <3>4 DEF Absent, Parsed, Given
  <2>7. CASE n \in Given
    <3>1. PICK i \in 1 .. Len(elements) : elements[i].name = n
      BY <1>1, <2>1, <2>7 DEF IInv, Constructed
    <3>2. P = {i}
      BY <1>1, <2>4, <3>1 DEF Positions, IInv, Constructed
    <3>3. Cardinality(P) = 1
      BY <3>2, FS_Singleton
    <3>4. Rank(i, P) = 1
      <4>1. Rank(i, P) \in 1 .. Cardinality(P)
        BY <2>3, <2>4, <3>2, RankFits
      <4> QED
        BY <3>3, <4>1
    <3>5. items[1] = Wanted(n)
      BY <1>1, <2>5, <3>1, <3>2, <3>4 DEF IInv, Constructed
    <3>6. items = <<Wanted(n)>>
      BY <2>5, <3>3, <3>5
    <3>7. children[n].form = "dict"
      BY <2>5, <3>3 DEF FormFor
    <3> QED
      BY <2>5, <2>7, <3>6, <3>7 DEF Parsed, Given
  <2> QED
    BY <2>6, <2>7
<1>2. IInv => RoundTrip
  BY <1>1 DEF RoundTrip, Given, Wanted
<1> QED
  BY <1>2, IInvHolds, PTL
==============================================================================
