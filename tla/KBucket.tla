------------------------------ MODULE KBucket ------------------------------
(***************************************************************************)
(* The data of the routing table: identifiers (class kad::KadID over       *)
(* BigInt::Rossi) and buckets (class kad::KBucket).                        *)
(*                                                                         *)
(* An identifier is a natural number and a contact is its node_id, the     *)
(* only member that Contact::Equals compares.  A bucket keeps its contacts *)
(* in a list, the one seen last at the front.                              *)
(***************************************************************************)
EXTENDS Naturals, Sequences, FiniteSets, SequencesExt

CONSTANTS
    K,            \* K_: how many contacts a bucket holds
    Distance(_, _), \* the XOR of two identifiers, which is their distance
    HighBit,      \* the top bit of the units an identifier is stored in
    StrayBits     \* the bits that may stand past the end of those units

ASSUME KBucketAssumption ==
    /\ K \in Nat \ {0}
    /\ HighBit \in Nat
    /\ StrayBits \subseteq {0, 1} /\ StrayBits # {}

(***************************************************************************)
(* x >> 1.  Rossi::operator>> takes the bit that is shifted into the top   *)
(* unit from the unit after the last one, an element past the end of its   *)
(* vector: whatever stands there decides the top bit of the result.        *)
(***************************************************************************)
HalfOf(x, stray) == x \div 2 + stray * HighBit

\* KadID::SplitRange: what it stores through its two pointers.
SplitMax1(min, max, s1, s2) == HalfOf(min, s1) + HalfOf(max, s2)
SplitMin1(min, max, s1, s2) == SplitMax1(min, max, s1, s2) + 1

MiddleIsLowerEnd(min, max, stray) == min  \* faulty: only the lower end is read

\* KadID(min, max), the identifier halfway.
Middle(min, max, stray) == HalfOf(min + max, stray)

CloserToTarget(id1, id2, target) == Distance(id1, target) < Distance(id2, target)

\* The members of S, the closest to target first.
ByDistance(S, target) ==
    [n \in 1 .. Cardinality(S) |->
        CHOOSE x \in S : Cardinality({y \in S : CloserToTarget(y, x, target)}) = n - 1]

NewBucket(min, max) ==
    [range_min |-> min, range_max |-> max, contacts |-> <<>>, last_accessed |-> 0]

KeyInRange(b, key) == b.range_min <= key /\ key <= b.range_max

Members(b) == ToSet(b.contacts)

\* The elements of s that are in S, in their order.
Keep(s, S) ==
    LET kept[n \in 0 .. Len(s)] ==
            IF n = 0 THEN <<>>
            ELSE IF s[n] \in S THEN Append(kept[n - 1], s[n]) ELSE kept[n - 1]
    IN  kept[Len(s)]

\* The list once the contact with this identifier has been erased.
Without(s, id) == Keep(s, ToSet(s) \ {id})

\* AddContact returns FULL: an equal contact has been erased by then.
Full(b, id) == Len(Without(b.contacts, id)) = K

\* Faulty: the list is kept in the order of arrival.
AddToBack(b, id) ==
    [b EXCEPT !.contacts =
        IF Full(b, id) THEN Without(@, id) ELSE Append(Without(@, id), id)]

\* Faulty: an equal contact is not erased.
AddToTwice(b, id) ==
    [b EXCEPT !.contacts = IF Full(b, id) THEN @ ELSE <<id>> \o @]

\* The bucket after AddContact, whatever the answer.
AddTo(b, id) ==
    [b EXCEPT !.contacts =
        LET others == Without(@, id)
        IN  IF Len(others) = K THEN others ELSE <<id>> \o others]

RemoveFrom(b, id) == [b EXCEPT !.contacts = Without(@, id)]

\* GetContacts: at most count contacts outside excluded, the latest first.
GetContacts(b, count, excluded) ==
    LET wanted == Keep(b.contacts, Members(b) \ excluded)
    IN  SubSeq(wanted, 1, IF Len(wanted) < count THEN Len(wanted) ELSE count)
=============================================================================
