-------------------------- MODULE TinyXmlAttributes --------------------------
(***************************************************************************)
(* The attributes of one element: TiXmlAttributeSet's ring around its      *)
(* sentinel (src/tinyxml/tinyxml.cpp), and what TiXmlElement does to it.   *)
(* The sentinel is 0, an attribute is its number.                          *)
(***************************************************************************)
EXTENDS Naturals, Sequences, SequencesExt

CONSTANTS
    AttributeNames, Values,
    MaxAttributes       \* bound: TiXmlAttribute objects

VARIABLES ring,         \* next and prev of the sentinel and of the attributes
          attributes,   \* attribute -> name and value
          content       \* what a caller has set: the order and the values

vars == <<ring, attributes, content>>

Init ==
    /\ ring = [x \in {0} |-> [next |-> 0, prev |-> 0]]
    /\ attributes = <<>>
    /\ content = <<>>

\* The attributes in the order that First and Next, or Last and Previous, go.
RECURSIVE Around(_, _, _)
Around(x, way, left) ==
    LET y == ring[x][way]
    IN  IF y = 0 \/ left = 0 THEN <<>> ELSE <<y>> \o Around(y, way, left - 1)
Listed(way) == Around(0, way, MaxAttributes + 1)

\* Find: 0 when no attribute has the name.
Find(name) ==
    LET at == SelectInSeq(Listed("next"), LAMBDA a : attributes[a].name = name)
    IN  IF at = 0 THEN 0 ELSE Listed("next")[at]

Fresh == CHOOSE a \in 1..MaxAttributes : a \notin DOMAIN ring

\* Faulty: the sentinel does not learn its new neighbour.
AddedOneWay(a) ==
    LET last == ring[0].prev
        all == [x \in DOMAIN ring \cup {a} |->
                   IF x = a THEN [next |-> 0, prev |-> last] ELSE ring[x]]
    IN  [all EXCEPT ![last].next = a]

\* Add, before the sentinel.
AddedRing(a) ==
    LET last == ring[0].prev
        all == [x \in DOMAIN ring \cup {a} |->
                   IF x = a THEN [next |-> 0, prev |-> last] ELSE ring[x]]
    IN  [all EXCEPT ![last].next = a, ![0].prev = a]

Removed(a) ==
    [x \in DOMAIN ring \ {a} |->
        [next |-> IF ring[x].next = a THEN ring[a].next ELSE ring[x].next,
         prev |-> IF ring[x].prev = a THEN ring[a].prev ELSE ring[x].prev]]

Position(name) == SelectInSeq(content, LAMBDA c : c.name = name)

\* SetAttribute: FindOrCreate and SetValue.
SetAttribute(name, value) ==
    LET a == IF Find(name) = 0 THEN Fresh ELSE Find(name)
        new == [name |-> name, value |-> value]
    IN  /\ Find(name) = 0 => DOMAIN ring # 0..MaxAttributes
        /\ ring' = IF Find(name) = 0 THEN AddedRing(a) ELSE ring
        /\ attributes' = [x \in DOMAIN attributes \cup {a} |-> IF x = a THEN new ELSE attributes[x]]
        /\ content' = IF Position(name) = 0 THEN Append(content, new)
                      ELSE ReplaceAt(content, Position(name), new)

RemoveAttribute(name) ==
    LET a == Find(name)
    IN  /\ ring' = IF a = 0 THEN ring ELSE Removed(a)
        /\ attributes' = [x \in DOMAIN attributes \ {a} |-> attributes[x]]
        /\ content' = SelectSeq(content, LAMBDA c : c.name # name)

\* ClearThis removes the first attribute until none is left.
ClearThis ==
    /\ content # <<>>
    /\ LET a == ring[0].next
       IN  /\ ring' = Removed(a)
           /\ attributes' = [x \in DOMAIN attributes \ {a} |-> attributes[x]]
    /\ content' = Tail(content)

Next ==
    \/ \E name \in AttributeNames, value \in Values : SetAttribute(name, value)
    \/ \E name \in AttributeNames : RemoveAttribute(name)
    \/ ClearThis

Spec == Init /\ [][Next]_vars
-----------------------------------------------------------------------------
\* Both ways around the ring, the attributes are the ones that were set, each name once,
\* in the order in which they were first set and with the value that was set last
\* (tinyxml.cpp:433-445, 736-750, 1452-1540).
RingIsContent ==
    /\ [i \in DOMAIN Listed("next") |-> attributes[Listed("next")[i]]] = content
    /\ Listed("prev") = Reverse(Listed("next"))
    /\ \A i, j \in DOMAIN content : content[i].name = content[j].name => i = j
=============================================================================
