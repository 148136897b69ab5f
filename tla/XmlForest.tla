------------------------------ MODULE XmlForest ------------------------------
(***************************************************************************)
(* What TiXmlNode's child operations promise (src/tinyxml/tinyxml.h,       *)
(* class TiXmlNode): every node owns a sequence of children, what is       *)
(* inserted is a copy with all below it, and who removes a node removes    *)
(* all below it.                                                           *)
(***************************************************************************)
EXTENDS Naturals, FiniteSets, Sequences, SequencesExt

CONSTANT Node           \* a set of numbers: the places for nodes

VARIABLES kids, documents

Alive == DOMAIN kids
Free == Node \ Alive
IsChild(n) == \E p \in Alive : n \in ToSet(kids[p])

RECURSIVE Below(_)
Below(n) == {n} \cup UNION {Below(k) : k \in ToSet(kids[n])}

Rank(x, S) == Cardinality({y \in S : y < x})
Room(n) == Cardinality(Free) >= Cardinality(Below(n))

\* The places the copies of n and all below it take.
Place(n) ==
    [x \in Below(n) |-> CHOOSE y \in Free : Rank(y, Free) = Rank(x, Below(n))]

WithCopy(n) ==
    LET at == Place(n)
    IN  [x \in Alive \cup {at[y] : y \in Below(n)} |->
            IF x \in Alive THEN kids[x]
            ELSE LET y == CHOOSE z \in Below(n) : at[z] = x
                 IN  [i \in DOMAIN kids[y] |-> at[kids[y][i]]]]

Without(k, gone) == [x \in DOMAIN k \ gone |-> SelectSeq(k[x], LAMBDA y : y \notin gone)]

Init == kids = <<>> /\ documents = {}

Create(isDocument) ==
    /\ Free # {}
    /\ LET n == CHOOSE x \in Free : \A y \in Free : x <= y
       IN  /\ kids' = [x \in Alive \cup {n} |-> IF x = n THEN <<>> ELSE kids[x]]
           /\ documents' = IF isDocument THEN documents \cup {n} ELSE documents

LinkEndChild(t, n) ==
    /\ n \notin documents /\ ~IsChild(n) /\ t \notin Below(n)
    /\ kids' = [kids EXCEPT ![t] = Append(@, n)]
    /\ UNCHANGED documents

Insert(t, i, x) ==
    /\ x \notin documents /\ Room(x)
    /\ kids' = [WithCopy(x) EXCEPT ![t] = InsertAt(@, i, Place(x)[x])]
    /\ UNCHANGED documents

Replace(t, i, x) ==
    /\ x \notin documents /\ Room(x)
    /\ LET new == [WithCopy(x) EXCEPT ![t] = ReplaceAt(@, i, Place(x)[x])]
       IN  kids' = Without(new, Below(kids[t][i]))
    /\ UNCHANGED documents

Delete(n) ==
    /\ kids' = Without(kids, Below(n))
    /\ documents' = documents \ Below(n)

Clear(t) ==
    /\ kids' = Without(kids, Below(t) \ {t})
    /\ UNCHANGED documents

Next ==
    \/ \E isDocument \in BOOLEAN : Create(isDocument)
    \/ \E n \in Alive : Delete(n) \/ Clear(n)
    \/ \E t, n \in Alive :
           \/ LinkEndChild(t, n)
           \/ \E i \in 1..Len(kids[t]) + 1 : Insert(t, i, n)
           \/ \E i \in 1..Len(kids[t]) : Replace(t, i, n)

Spec == Init /\ [][Next]_<<kids, documents>>
=============================================================================
