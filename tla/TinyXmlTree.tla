----------------------------- MODULE TinyXmlTree -----------------------------
(***************************************************************************)
(* The pointers of TiXmlNode (src/tinyxml/tinyxml.cpp): parent, prev, next,*)
(* firstChild and lastChild, and the operations that change them, called   *)
(* as their asserts demand: what is linked is in no list.  0 is the null   *)
(* pointer.                                                                *)
(***************************************************************************)
EXTENDS Naturals, FiniteSets, Sequences, SequencesExt

CONSTANT Node           \* 1..n

VARIABLES link, documents

vars == <<link, documents>>

Alive == DOMAIN link
Free == Node \ Alive
Alone == [parent |-> 0, prev |-> 0, next |-> 0, firstChild |-> 0, lastChild |-> 0]

\* What an operation that follows the pointers of firstChild and next meets.
RECURSIVE From(_, _, _)
From(n, step, left) == IF n = 0 \/ left = 0 THEN <<>>
                       ELSE <<n>> \o From(link[n][step], step, left - 1)
Children(n) == From(link[n].firstChild, "next", Cardinality(Node) + 1)

RECURSIVE Below(_)
Below(n) == {n} \cup UNION {Below(k) : k \in ToSet(Children(n))}

Rank(x, S) == Cardinality({y \in S : y < x})
Room(n) == Cardinality(Free) >= Cardinality(Below(n))
Place(n) == [x \in Below(n) |-> CHOOSE y \in Free : Rank(y, Free) = Rank(x, Below(n))]

\* Faulty: the copy has no children.
ShallowClone(n) ==
    [x \in Alive \cup {Place(n)[n]} |-> IF x \in Alive THEN link[x] ELSE Alone]

\* Clone and CopyTo: the copy of a node and all below it, in no list itself.
WithClone(n) ==
    LET at == Place(n)
        moved(y) == IF y = 0 THEN 0 ELSE at[y]
        copy(y) == [parent |-> moved(link[y].parent), prev |-> moved(link[y].prev),
                    next |-> moved(link[y].next), firstChild |-> moved(link[y].firstChild),
                    lastChild |-> moved(link[y].lastChild)]
    IN  [x \in Alive \cup {at[y] : y \in Below(n)} |->
            IF x \in Alive THEN link[x]
            ELSE LET y == CHOOSE z \in Below(n) : at[z] = x
                 IN  IF y = n THEN [Alone EXCEPT !.firstChild = moved(link[n].firstChild),
                                                 !.lastChild = moved(link[n].lastChild)]
                     ELSE copy(y)]

\* l[n].field := value, for a node that is not null.
Set(l, n, field, value) == IF n = 0 THEN l ELSE [l EXCEPT ![n][field] = value]

Deleted(l, gone) == [x \in DOMAIN l \ gone |-> l[x]]

Init == link = <<>> /\ documents = {}

Create(isDocument) ==
    /\ Free # {}
    /\ LET n == CHOOSE x \in Free : \A y \in Free : x <= y
       IN  /\ link' = [x \in Alive \cup {n} |-> IF x = n THEN Alone ELSE link[x]]
           /\ documents' = IF isDocument THEN documents \cup {n} ELSE documents

Linked(l, t, n) ==
    LET last == l[t].lastChild
        l1 == [l EXCEPT ![n].parent = t, ![n].prev = last, ![n].next = 0]
        l2 == IF last # 0 THEN Set(l1, last, "next", n) ELSE Set(l1, t, "firstChild", n)
    IN  Set(l2, t, "lastChild", n)

\* A document is deleted instead.
LinkEndChild(t, n) ==
    /\ link[n].parent = 0 /\ t \notin Below(n)
    /\ IF n \in documents
       THEN link' = Deleted(link, Below(n)) /\ documents' = documents \ {n}
       ELSE link' = Linked(link, t, n) /\ UNCHANGED documents

InsertEndChild(t, x) ==
    /\ x \notin documents /\ Room(x)
    /\ link' = Linked(WithClone(x), t, Place(x)[x])
    /\ UNCHANGED documents

InsertBeforeChild(t, b, x) ==
    /\ x \notin documents /\ Room(x)
    /\ link[b].parent = t
    /\ LET n == Place(x)[x]
           l1 == [WithClone(x) EXCEPT ![n].parent = t, ![n].next = b, ![n].prev = link[b].prev]
           l2 == IF link[b].prev # 0 THEN Set(l1, link[b].prev, "next", n)
                 ELSE Set(l1, t, "firstChild", n)
       IN  link' = Set(l2, b, "prev", n)
    /\ UNCHANGED documents

\* Faulty: lastChild stays where it was.
InsertAfterChildOnly(t, a, x) ==
    /\ x \notin documents /\ Room(x)
    /\ link[a].parent = t
    /\ LET n == Place(x)[x]
           l1 == [WithClone(x) EXCEPT ![n].parent = t, ![n].prev = a, ![n].next = link[a].next]
           l2 == Set(l1, link[a].next, "prev", n)
       IN  link' = Set(l2, a, "next", n)
    /\ UNCHANGED documents

InsertAfterChild(t, a, x) ==
    /\ x \notin documents /\ Room(x)
    /\ link[a].parent = t
    /\ LET n == Place(x)[x]
           l1 == [WithClone(x) EXCEPT ![n].parent = t, ![n].prev = a, ![n].next = link[a].next]
           l2 == IF link[a].next # 0 THEN Set(l1, link[a].next, "prev", n)
                 ELSE Set(l1, t, "lastChild", n)
       IN  link' = Set(l2, a, "next", n)
    /\ UNCHANGED documents

\* What stands before and after r is joined to before and after.
Joined(l, t, r, before, after) ==
    LET l1 == IF link[r].next # 0 THEN Set(l, link[r].next, "prev", before)
              ELSE Set(l, t, "lastChild", before)
    IN  IF link[r].prev # 0 THEN Set(l1, link[r].prev, "next", after)
        ELSE Set(l1, t, "firstChild", after)

ReplaceChild(t, r, x) ==
    /\ x \notin documents /\ Room(x)
    /\ link[r].parent = t
    /\ LET n == Place(x)[x]
           l1 == [WithClone(x) EXCEPT ![n].next = link[r].next, ![n].prev = link[r].prev]
           l2 == Joined(l1, t, r, n, n)
       IN  link' = [Deleted(l2, Below(r)) EXCEPT ![n].parent = t]
    /\ UNCHANGED documents

RemoveChild(t, r) ==
    /\ link[r].parent = t
    /\ link' = Deleted(Joined(link, t, r, link[r].prev, link[r].next), Below(r))
    /\ UNCHANGED documents

\* The destructor of a node that is in no list.
Delete(n) ==
    /\ link[n].parent = 0
    /\ link' = Deleted(link, Below(n))
    /\ documents' = documents \ {n}

Clear(t) ==
    /\ link' = [Deleted(link, Below(t) \ {t}) EXCEPT ![t].firstChild = 0, ![t].lastChild = 0]
    /\ UNCHANGED documents

Next ==
    \/ \E isDocument \in BOOLEAN : Create(isDocument)
    \/ \E n \in Alive : Delete(n) \/ Clear(n)
    \/ \E t, n \in Alive : LinkEndChild(t, n) \/ InsertEndChild(t, n) \/ RemoveChild(t, n)
    \/ \E t, n, x \in Alive :
           InsertBeforeChild(t, n, x) \/ InsertAfterChild(t, n, x) \/ ReplaceChild(t, n, x)

Spec == Init /\ [][Next]_vars
-----------------------------------------------------------------------------
\* The walk from lastChild along prev meets the same nodes as the one from firstChild
\* along next, each of them has the right parent, and nobody points at a deleted node
\* (tinyxml.cpp:186-355).
LinksAgree ==
    /\ \A n \in Alive :
           /\ From(link[n].lastChild, "prev", Cardinality(Node) + 1) = Reverse(Children(n))
           /\ \A k \in ToSet(Children(n)) : link[k].parent = n
           /\ link[n].parent # 0 => n \in ToSet(Children(link[n].parent))
    /\ \A n \in Alive : \A f \in DOMAIN Alone : link[n][f] \in Alive \cup {0}

\* The pointers are a forest of sequences, and every operation does to it what it says:
\* nothing but the copy is added, nothing but what is below the node is lost.
Forest == INSTANCE XmlForest WITH kids <- [n \in Alive |-> Children(n)]
IsForest == Forest!Spec
=============================================================================
