------------------------------ MODULE Messages ------------------------------
(***************************************************************************)
(* messagehelper.py: construct_message makes the children of a request     *)
(* from a dict, parse_message makes a dict of the children of an answer.   *)
(* Children of one name become a list there, in their order, but a single  *)
(* one stays a dict by itself, so a page of one record looks unlike a page *)
(* of two; get_users and get_devices wrap it again.                        *)
(*                                                                         *)
(* The attributes of a child are one value, Empty for none at all; XML     *)
(* itself (external, xml.dom) keeps names, attributes and order.  A        *)
(* message is one the program made, or any the OMM may send.               *)
(***************************************************************************)
EXTENDS Naturals, Sequences, FiniteSets

CONSTANTS
  Names,       \* names of children
  Values,      \* the attributes of a child
  Empty,       \* no attributes
  MaxChildren, \* parse_message stops after so many children (5000)
  MaxElements  \* bound: children of a message of the OMM

ASSUME NamesAssumption == IsFiniteSet(Names) /\ Empty \in Values
ASSUME LimitsAssumption == MaxChildren \in Nat /\ MaxElements \in Nat

VARIABLES
  phase,     \* "construct", "parse" or "parsed"
  given,     \* the dict of a request: by name, attributes, "none" or "absent"
  left,      \* the names construct_message has still to look at
  elements,  \* the children of the message
  at,        \* how many of them parse_message has taken (child_num)
  children   \* the dict parse_message returns

vars == <<phase, given, left, elements, at, children>>

Element == [name : Names, attrs : Values]
Absent == [form |-> "absent", items |-> <<>>]
Parsed == [form : {"absent", "dict", "list"}, items : Seq(Values)]

TypeOK ==
  /\ phase \in {"construct", "parse", "parsed"}
  /\ given \in [Names -> Values \cup {"none", "absent"}]
  /\ left \subseteq Names
  /\ elements \in Seq(Element)
  /\ at \in 0 .. Len(elements)
  /\ children \in [Names -> Parsed]

NothingParsed == [n \in Names |-> Absent]

InitRequest ==
  /\ phase = "construct"
  /\ given \in [Names -> Values \cup {"none", "absent"}]
  /\ left = {n \in Names : given[n] # "absent"}
  /\ elements = <<>>

InitAnswer ==
  /\ phase = "parse"
  /\ given = [n \in Names |-> "absent"]
  /\ left = {}
  /\ elements \in UNION {[1 .. k -> Element] : k \in 0 .. MaxElements}

Init ==
  /\ InitRequest \/ InitAnswer
  /\ at = 0
  /\ children = NothingParsed
------------------------------------------------------------------------------
(* construct_message: one child for each name, None without attributes.    *)

(* Mutant: a child without attributes is left out.                         *)
AppendChild_SkipsNone ==
  /\ phase = "construct"
  /\ \E n \in left :
       /\ elements' = IF given[n] = "none" THEN elements
                      ELSE Append(elements, [name |-> n, attrs |-> given[n]])
       /\ left' = left \ {n}
  /\ UNCHANGED <<phase, given, at, children>>

(* Mutant: None is not told from a dict.                                   *)
AppendChild_WritesNone ==
  /\ phase = "construct"
  /\ \E n \in left :
       /\ elements' = Append(elements, [name |-> n, attrs |-> given[n]])
       /\ left' = left \ {n}
  /\ UNCHANGED <<phase, given, at, children>>

AppendChild ==
  /\ phase = "construct"
  /\ \E n \in left :
       /\ elements' = Append(elements, [name |-> n,
                         attrs |-> IF given[n] = "none" THEN Empty ELSE given[n]])
       /\ left' = left \ {n}
  /\ UNCHANGED <<phase, given, at, children>>

Send ==
  /\ phase = "construct"
  /\ left = {}
  /\ phase' = "parse"
  /\ UNCHANGED <<given, left, elements, at, children>>
------------------------------------------------------------------------------
(* parse_message.                                                          *)

(* Mutant: the list of a name begins with its second child.                *)
Added_ForgetsFirst(parsed, attrs) ==
  CASE parsed.form = "absent" -> [form |-> "dict", items |-> <<attrs>>]
    [] parsed.form = "dict" -> [form |-> "list", items |-> <<attrs>>]
    [] parsed.form = "list" -> [form |-> "list", items |-> Append(parsed.items, attrs)]

(* Mutant: the test for a list is missing.                                 *)
Added_WrapsAlways(parsed, attrs) ==
  CASE parsed.form = "absent" -> [form |-> "dict", items |-> <<attrs>>]
    [] parsed.form # "absent" -> [form |-> "dict", items |-> Append(parsed.items, attrs)]

(* What is known of a name, and one more child of it.                      *)
Added(parsed, attrs) ==
  CASE parsed.form = "absent" -> [form |-> "dict", items |-> <<attrs>>]
    [] parsed.form # "absent" -> [form |-> "list", items |-> Append(parsed.items, attrs)]

More == at < Len(elements) /\ at < MaxChildren

TakeChild ==
  /\ phase = "parse"
  /\ More
  /\ LET child == elements[at + 1]
     IN children' = [children EXCEPT ![child.name] = Added(@, child.attrs)]
  /\ at' = at + 1
  /\ UNCHANGED <<phase, given, left, elements>>

Return ==
  /\ phase = "parse"
  /\ ~More
  /\ phase' = "parsed"
  /\ UNCHANGED <<given, left, elements, at, children>>

Next == AppendChild \/ Send \/ TakeChild \/ Return

Spec == Init /\ [][Next]_vars
------------------------------------------------------------------------------
(* Properties.                                                             *)

Min2(a, b) == IF a < b THEN a ELSE b

(* Where among the first k children those of a name are, and the how manyth *)
(* of them one is.                                                         *)
Positions(n, k) == {i \in 1 .. k : elements[i].name = n}
Rank(i, positions) == Cardinality({j \in positions : j <= i})

(* The children of a name that parse_message reads.                        *)
Read(n) == Positions(n, Min2(Len(elements), MaxChildren))

(* parse_message returns all children it reads, under their names and in   *)
(* their order; it reads the first MaxChildren, and drops the rest.        *)
NothingMixedUp ==
  phase = "parsed" =>
    \A n \in Names :
      /\ Len(children[n].items) = Cardinality(Read(n))
      /\ \A i \in Read(n) : children[n].items[Rank(i, Read(n))] = elements[i].attrs

(* A dict stands for exactly one child and a list for more: so the callers *)
(* that test for a list see every record of a page, also of a page of one. *)
FormTellsNumber ==
  phase = "parsed" =>
    \A n \in Names :
      CASE children[n].form = "absent" -> Read(n) = {}
        [] children[n].form = "dict" -> Cardinality(Read(n)) = 1
        [] children[n].form = "list" -> Cardinality(Read(n)) > 1

(* A request comes back from XML as it was given, but that None becomes a  *)
(* dict without attributes.                                                *)
RoundTrip ==
  phase = "parsed" /\ (\E n \in Names : given[n] # "absent") /\ Cardinality(Names) <= MaxChildren =>
    \A n \in Names :
      children[n] = IF given[n] = "absent" THEN Absent
                    ELSE [form |-> "dict",
                          items |-> <<IF given[n] = "none" THEN Empty ELSE given[n]>>]
==============================================================================
