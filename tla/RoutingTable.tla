---------------------------- MODULE RoutingTable ----------------------------
(***************************************************************************)
(* The routing table of a Kademlia node: class kad::RoutingTable           *)
(* (src/src/kademlia/kadroutingtable.cpp).                                 *)
(*                                                                         *)
(* k_buckets_ is the sequence of buckets, in the order of their ranges;    *)
(* bucket_upper_address_ finds the bucket of a key: the first upper        *)
(* address that is not below the key.  The table has no lock and no caller *)
(* here interleaves with it: a call is one step, except AddContact, which  *)
(* splits a full bucket and calls itself; every round of that recursion is *)
(* a step, and `adding` is the contact it is working on.                   *)
(*                                                                         *)
(* An index is the code's plus one.                                        *)
(***************************************************************************)
EXTENDS KBucket

CONSTANTS
    Ids,          \* the contacts that are offered to the table
    Keys,         \* the keys its operations are called with
    Holder,       \* holder_id_
    MaxId,        \* address_space_upper_address_, KadID::KMaxID()
    MinIds,       \* what KadID() may return: the hash of the time of day
    Now,          \* the wall clock at which TouchKBucket is called
    RefreshTime,  \* KRefreshTime
    Word,         \* 2^32: the times are unsigned int
    NoId          \* no call in progress

VARIABLES
    k_buckets,                  \* k_buckets_
    bucket_upper_address,       \* bucket_upper_address_, a map as a function
    bucket_of_holder,           \* bucket_of_holder_
    brother_bucket_of_holder,   \* brother_bucket_of_holder_
    adding,                     \* the argument of the AddContact in progress
    reply,                      \* what the last AddContact returned, for whom
    wild                        \* k_buckets_ was indexed past its end

vars == <<k_buckets, bucket_upper_address, bucket_of_holder,
          brother_bucket_of_holder, adding, reply, wild>>

NoIndex == 65536                   \* -1 as an unsigned short int, plus one
NoReply == [id |-> NoId, code |-> 0]

ASSUME TableAssumption ==
    /\ NoId \notin Nat
    /\ Ids \subseteq Nat /\ Keys \subseteq Nat /\ MinIds \subseteq Nat
    /\ Holder \in Nat /\ MaxId \in Nat
    /\ Word \in Nat \ {0} /\ Now \in 1 .. Word - 1 /\ RefreshTime \in 0 .. Word - 1

-----------------------------------------------------------------------------
(* Looking things up.                                                      *)

\* Inserting range after range: the first of two equal upper addresses stays.
UpperAddresses(bs) ==
    [u \in {bs[i].range_max : i \in DOMAIN bs} |->
        CHOOSE i \in DOMAIN bs :
            /\ bs[i].range_max = u
            /\ \A j \in 1 .. i - 1 : bs[j].range_max # u]

KBucketIndex(key) ==
    IF key > MaxId THEN NoIndex
    ELSE bucket_upper_address[
            CHOOSE u \in DOMAIN bucket_upper_address :
                /\ key <= u
                /\ \A w \in DOMAIN bucket_upper_address : key <= w => u <= w]

GetContact(id) == id \in Members(k_buckets[KBucketIndex(id)])

\* SortBucketsByDistance: the indices, by the distance of the upper addresses.
SortBucketsByDistance(key) ==
    LET uppers == ByDistance(DOMAIN bucket_upper_address, key)
    IN  [n \in DOMAIN uppers |-> bucket_upper_address[uppers[n]]]

\* Faulty: the excluded contacts are left out of the key's own bucket only.
FindCloseNodesAnyOther(key, count, excluded) ==
    LET own    == GetContacts(k_buckets[KBucketIndex(key)], count, excluded)
        order  == SortBucketsByDistance(key)
        others == FlattenSeq(
                    [n \in 1 .. Len(order) - 1 |->
                        ByDistance(Members(k_buckets[order[n + 1]]), key)])
        all    == own \o others
    IN  SubSeq(all, 1, IF Len(all) < count THEN Len(all) ELSE count)

(***************************************************************************)
(* FindCloseNodes: the contacts of the key's own bucket, latest first,     *)
(* then those of the other buckets.  The first of the sorted indices is    *)
(* taken to be the key's own bucket and skipped.                           *)
(***************************************************************************)
FindCloseNodes(key, count, excluded) ==
    LET own    == GetContacts(k_buckets[KBucketIndex(key)], count, excluded)
        order  == SortBucketsByDistance(key)
        others == FlattenSeq(
                    [n \in 1 .. Len(order) - 1 |->
                        ByDistance(Members(k_buckets[order[n + 1]]) \ excluded, key)])
        all    == own \o others
    IN  SubSeq(all, 1, IF Len(all) < count THEN Len(all) ELSE count)

AllContacts == UNION {Members(k_buckets[i]) : i \in DOMAIN k_buckets}

\* Faulty: the order is not reversed.
GetClosestContacts(key, count, excluded) ==
    LET copies == FlattenSeq([i \in DOMAIN k_buckets |->
                                GetContacts(k_buckets[i], K, excluded)])
        far    == ByDistance(ToSet(copies), key)
    IN  IF Len(far) # Len(copies) THEN <<>>
        ELSE SubSeq(far, 1, IF Len(far) < count THEN Len(far) ELSE count)

\* GetFurthestContacts: nothing at all if two buckets hold the same contact.
GetFurthestContacts(key, count, excluded) ==
    LET copies == FlattenSeq([i \in DOMAIN k_buckets |->
                                GetContacts(k_buckets[i], K, excluded)])
        far    == Reverse(ByDistance(ToSet(copies), key))
    IN  IF Len(far) # Len(copies) THEN <<>>
        ELSE SubSeq(far, 1, IF Len(far) < count THEN Len(far) ELSE count)

\* Faulty: the difference is signed.
RefreshDueSigned(b, cpu) == cpu > b.last_accessed + RefreshTime

(***************************************************************************)
(* GetRefreshList.  TouchKBucket stamps a bucket with the time of day, and *)
(* this compares the stamp with cpu, the CPU time the process has used:    *)
(* the difference of the two wraps around.                                 *)
(***************************************************************************)
RefreshDue(b, cpu) == (cpu + Word - b.last_accessed) % Word > RefreshTime

RefreshList(start, force, cpu) ==
    {i \in DOMAIN k_buckets : i >= start /\ (force \/ RefreshDue(k_buckets[i], cpu))}

\* The identifiers a listed bucket may be refreshed with.
RefreshIds(b) == {Middle(b.range_min, b.range_max, s) : s \in StrayBits}

-----------------------------------------------------------------------------
(* Splitting.                                                              *)

KeepRanges ==
    UNCHANGED <<bucket_upper_address, bucket_of_holder, brother_bucket_of_holder>>

\* Faulty: the contact seen last is added first.
RefillForwards(b, contacts) ==
    LET filled[n \in 0 .. Len(contacts)] ==
            IF n = 0 THEN b ELSE AddTo(filled[n - 1], contacts[n])
    IN  filled[Len(contacts)]

\* The contacts are added again one by one, the one seen least recently first.
Refill(b, contacts) ==
    LET filled[n \in 0 .. Len(contacts)] ==
            IF n = 0 THEN b
            ELSE AddTo(filled[n - 1], contacts[Len(contacts) - n + 1])
    IN  filled[Len(contacts)]

\* Faulty: a contact goes to the right half if that half's range allows it.
HalvesRightFirst(b, s1, s2) ==
    LET left   == NewBucket(b.range_min, SplitMin1(b.range_min, b.range_max, s1, s2))
        right  == NewBucket(SplitMax1(b.range_min, b.range_max, s1, s2), b.range_max)
        all    == GetContacts(b, K, {})
        goLeft == Keep(all, {c \in Members(b) : ~KeyInRange(right, c)})
        goRight == Keep(all, {c \in Members(b) : KeyInRange(right, c)})
    IN  <<Refill(left, goLeft), Refill(right, goRight)>>

(***************************************************************************)
(* The two halves of bucket b.  The code passes SplitRange the upper end   *)
(* of the left half where it returns the lower end of the right one, and   *)
(* the other way round.                                                    *)
(***************************************************************************)
Halves(b, s1, s2) ==
    LET range_max_kb_left  == SplitMin1(b.range_min, b.range_max, s1, s2)
        range_min_kb_right == SplitMax1(b.range_min, b.range_max, s1, s2)
        left   == NewBucket(b.range_min, range_max_kb_left)
        right  == NewBucket(range_min_kb_right, b.range_max)
        all    == GetContacts(b, K, {})
        goLeft == Keep(all, {c \in Members(b) : KeyInRange(left, c)})
        goRight == Keep(all, {c \in Members(b) : ~KeyInRange(left, c)})
    IN  <<Refill(left, goLeft), Refill(right, goRight)>>

\* Faulty: the holder's bucket is taken to be the left half.
SplitKbucketHolderLeft(i) ==
    \E s1, s2 \in StrayBits :
        LET halves == Halves(k_buckets[i], s1, s2)
        IN  /\ k_buckets' = SubSeq(k_buckets, 1, i - 1) \o halves
                                \o SubSeq(k_buckets, i + 1, Len(k_buckets))
            /\ bucket_upper_address' = UpperAddresses(k_buckets')
            /\ bucket_of_holder' = i
            /\ brother_bucket_of_holder' = i + 1

\* Faulty: only the first bucket is split.
SplitKbucketFirstOnly(i) ==
    \E s1, s2 \in StrayBits :
        LET halves == Halves(k_buckets[i], s1, s2)
            holderLeft == KeyInRange(halves[1], Holder)
        IN  IF i > 1 THEN KeepRanges /\ UNCHANGED k_buckets
            ELSE /\ k_buckets' = halves \o SubSeq(k_buckets, 2, Len(k_buckets))
                 /\ bucket_upper_address' = UpperAddresses(k_buckets')
                 /\ bucket_of_holder' = IF holderLeft THEN i ELSE i + 1
                 /\ brother_bucket_of_holder' = IF holderLeft THEN i + 1 ELSE i

SplitKbucket(i) ==
    \E s1, s2 \in StrayBits :
        LET halves == Halves(k_buckets[i], s1, s2)
            holderLeft == KeyInRange(halves[1], Holder)
        IN  /\ k_buckets' = SubSeq(k_buckets, 1, i - 1) \o halves
                                \o SubSeq(k_buckets, i + 1, Len(k_buckets))
            /\ bucket_upper_address' = UpperAddresses(k_buckets')
            /\ bucket_of_holder' = IF holderLeft THEN i ELSE i + 1
            /\ brother_bucket_of_holder' = IF holderLeft THEN i + 1 ELSE i

-----------------------------------------------------------------------------
(* AddContact, one round of its recursion at a time.                       *)

Answer(id, code) == adding' = NoId /\ reply' = [id |-> id, code |-> code]

AddOutOfSpace(id) ==
    /\ id > MaxId
    /\ Answer(id, 3)
    /\ UNCHANGED <<k_buckets, wild>> /\ KeepRanges

AddToBucket(id) ==
    LET i == KBucketIndex(id)
    IN  /\ id <= MaxId
        /\ ~Full(k_buckets[i], id)
        /\ k_buckets' = [k_buckets EXCEPT ![i] = AddTo(@, id)]
        /\ Answer(id, 0)
        /\ UNCHANGED wild /\ KeepRanges

\* A full bucket is split if the holder is in its range, or K_ is small.
MaySplit(i) == K <= 2 \/ KeyInRange(k_buckets[i], Holder)

AddSplit(id) ==
    LET i == KBucketIndex(id)
    IN  /\ id <= MaxId
        /\ Full(k_buckets[i], id) /\ MaySplit(i)
        /\ SplitKbucket(i)
        /\ adding' = id /\ reply' = NoReply
        /\ UNCHANGED wild

AddRefused(id) ==
    LET i == KBucketIndex(id)
    IN  /\ id <= MaxId
        /\ Full(k_buckets[i], id) /\ ~MaySplit(i)
        /\ i # brother_bucket_of_holder
        /\ Answer(id, 2)
        /\ UNCHANGED <<k_buckets, wild>> /\ KeepRanges

(***************************************************************************)
(* ForceKAcceptNewPeer: a full brother of the holder's bucket.  As many of *)
(* its contacts as the holder's bucket has room for, the ones closest to   *)
(* the holder, are its neighbours.  A contact closer than the last of them *)
(* replaces one that is not closer than it: get_least_useful_contact ranks *)
(* these by distance and by last_seen, which nothing ever sets, so that    *)
(* any of them may rank last.                                              *)
(***************************************************************************)
Room == K - Len(k_buckets[bucket_of_holder].contacts)
Brother == k_buckets[brother_bucket_of_holder]
ByHolder == ByDistance(Members(Brother), Holder)

Closer(id) == Room > 0 /\ ~CloserToTarget(ByHolder[Room], id, Holder)
\* Faulty: the neighbours are not spared.
ReplaceableAny == {ByHolder[n] : n \in 1 .. Len(ByHolder)}
Replaceable == {ByHolder[n] : n \in Room .. Len(ByHolder)}

AddForce(id) ==
    LET i == KBucketIndex(id)
    IN  /\ id <= MaxId
        /\ Full(k_buckets[i], id) /\ ~MaySplit(i)
        /\ i = brother_bucket_of_holder
        /\ KeepRanges
        /\ \/ /\ bucket_of_holder \in DOMAIN k_buckets
              /\ Closer(id)
              /\ \E least_useful_contact \in Replaceable :
                    k_buckets' = [k_buckets EXCEPT ![i] =
                        AddTo(RemoveFrom(@, least_useful_contact), id)]
              /\ Answer(id, 0)
              /\ UNCHANGED wild
           \/ /\ bucket_of_holder \in DOMAIN k_buckets
              /\ ~Closer(id)
              /\ Answer(id, 2)
              /\ UNCHANGED <<k_buckets, wild>>
           \/ /\ bucket_of_holder \notin DOMAIN k_buckets
              /\ wild' = TRUE
              /\ Answer(id, 2)
              /\ UNCHANGED k_buckets

AddRound(id) ==
    \/ AddOutOfSpace(id) \/ AddToBucket(id) \/ AddSplit(id)
    \/ AddRefused(id) \/ AddForce(id)

AddContact(id) == adding = NoId /\ ~wild /\ AddRound(id)

AddContactAgain == adding # NoId /\ ~wild /\ AddRound(adding)

-----------------------------------------------------------------------------
(* The other operations that change the table.                             *)

\* A key beyond the address space yields index 65535, which is not below 0.
Lookup(key) == wild' = (KBucketIndex(key) \notin DOMAIN k_buckets)

RemoveContact(key) ==
    /\ adding = NoId /\ ~wild
    /\ Lookup(key)
    /\ k_buckets' = IF wild' THEN k_buckets
                    ELSE [k_buckets EXCEPT ![KBucketIndex(key)] = RemoveFrom(@, key)]
    /\ reply' = NoReply
    /\ UNCHANGED adding /\ KeepRanges

TouchKBucket(key) ==
    /\ adding = NoId /\ ~wild
    /\ Lookup(key)
    /\ k_buckets' = IF wild' THEN k_buckets
                    ELSE [k_buckets EXCEPT ![KBucketIndex(key)].last_accessed = Now]
    /\ UNCHANGED <<adding, reply>> /\ KeepRanges

\* One bucket for the whole space; KadID() is called for its lower end.
OneBucket(min) == <<NewBucket(min, MaxId)>>

\* The two indices of the holder's buckets are left as they are.
Clear ==
    /\ adding = NoId /\ ~wild
    /\ \E min \in MinIds : k_buckets' = OneBucket(min)
    /\ bucket_upper_address' = UpperAddresses(k_buckets')
    /\ reply' = NoReply
    /\ UNCHANGED <<bucket_of_holder, brother_bucket_of_holder, adding, wild>>

Init ==
    /\ \E min \in MinIds : k_buckets = OneBucket(min)
    /\ bucket_upper_address = UpperAddresses(k_buckets)
    /\ bucket_of_holder = 1
    /\ brother_bucket_of_holder = NoIndex
    /\ adding = NoId /\ reply = NoReply
    /\ wild = FALSE

Next ==
    \/ \E id \in Ids : AddContact(id)
    \/ AddContactAgain
    \/ \E key \in Keys : RemoveContact(key) \/ TouchKBucket(key)
    \/ Clear

Spec == Init /\ [][Next]_vars

\* AddContact calls itself without waiting for anything.
FairSpec == Spec /\ WF_vars(AddContactAgain)

-----------------------------------------------------------------------------
(* Properties.                                                             *)

IsBucket(b) ==
    /\ b.range_min \in Nat /\ b.range_max \in Nat
    /\ b.contacts \in Seq(Ids)
    /\ b.last_accessed \in {0, Now}

(***************************************************************************)
(* The types: no bucket holds more than K_ contacts or one of them twice,  *)
(* and the map leads from every upper address to a bucket that ends there. *)
(***************************************************************************)
TypeOK ==
    /\ \A i \in DOMAIN k_buckets :
        /\ IsBucket(k_buckets[i])
        /\ Len(k_buckets[i].contacts) <= K
        /\ IsInjective(k_buckets[i].contacts)
    /\ DOMAIN bucket_upper_address = {k_buckets[i].range_max : i \in DOMAIN k_buckets}
    /\ \A u \in DOMAIN bucket_upper_address :
        /\ bucket_upper_address[u] \in DOMAIN k_buckets
        /\ k_buckets[bucket_upper_address[u]].range_max = u
    /\ MaxId \in DOMAIN bucket_upper_address
    /\ adding \in Ids \cup {NoId}
    /\ reply \in [id : Ids \cup {NoId}, code : {0, 2, 3}]

(***************************************************************************)
(* The end of a half is raised above the one of the half beside it only    *)
(* when a stray bit came in: then the table has lost its order, and what   *)
(* was in the one half is looked for in the other.                         *)
(***************************************************************************)
EndsAscend ==
    \A i, j \in DOMAIN k_buckets :
        i < j => k_buckets[i].range_max <= k_buckets[j].range_max

\* What KadID() gave for the lower end of the table: the hash of the time of day.
LowerEnd == k_buckets[1].range_min

HeldIn(id) == {i \in DOMAIN k_buckets : id \in Members(k_buckets[i])}

(***************************************************************************)
(* Every contact from the lower end of the table on is in the bucket where *)
(* GetContact looks for it and in no other, through any sequence of splits *)
(* of overlapping ranges.  A contact below the lower end has no such       *)
(* promise: a split moves it to the right half, and it is looked for in    *)
(* the left one (kadroutingtable.cpp:30, 121-127).                         *)
(***************************************************************************)
EveryContactFindable ==
    EndsAscend => \A id \in AllContacts :
        id >= LowerEnd => GetContact(id) /\ Cardinality(HeldIn(id)) = 1

(***************************************************************************)
(* Once the table has been split, bucket_of_holder_ is the bucket whose    *)
(* range the holder is in and brother_bucket_of_holder_ the one beside it: *)
(* ForceKAcceptNewPeer reads both.                                         *)
(***************************************************************************)
HolderBucketsKnown ==
    Len(k_buckets) > 1 =>
        /\ bucket_of_holder \in DOMAIN k_buckets
        /\ brother_bucket_of_holder \in DOMAIN k_buckets
        /\ brother_bucket_of_holder \in {bucket_of_holder - 1, bucket_of_holder + 1}
        /\ KeyInRange(k_buckets[bucket_of_holder], Holder)

(***************************************************************************)
(* AddContact and ForceKAcceptNewPeer index existing buckets only, unless  *)
(* Clear has left the indices of the holder's buckets stale for a holder   *)
(* who is outside the new range; and the lookups unless the key is beyond  *)
(* the address space, for which KBucketIndex's -1 arrives as 65535.        *)
(***************************************************************************)
IndexInBounds ==
    wild => \/ Holder < LowerEnd \/ Holder > MaxId
            \/ \E key \in Keys : key > MaxId

(***************************************************************************)
(* AddContact answers 0 only when the contact has become the latest one of *)
(* its bucket, and 2 only when it is not there and its bucket is full.     *)
(***************************************************************************)
AnswerIsTrue ==
    reply # NoReply =>
        LET itsBucket == k_buckets[KBucketIndex(reply.id)]
        IN  CASE reply.code = 0 -> Head(itsBucket.contacts) = reply.id
              [] reply.code = 2 -> /\ reply.id \notin Members(itsBucket)
                                   /\ Len(itsBucket.contacts) = K
              [] OTHER -> reply.id > MaxId

(***************************************************************************)
(* The table's promise to its callers, through splits, exchanges, removals *)
(* and clearings, whatever its lower end: a contact in its range is where  *)
(* it is looked for, and once, indices stay in bounds but for the two      *)
(* cases named, and AddContact tells what it did.                          *)
(***************************************************************************)
ContactsAreFindable == EveryContactFindable /\ IndexInBounds /\ AnswerIsTrue

(***************************************************************************)
(* A split, or any other call, never changes the order in which two        *)
(* contacts of a bucket were seen last, unless it adds one of them.  A     *)
(* contact that another bucket holds as well, which can only be one below  *)
(* the lower end or after a stray bit, may be of another age there.        *)
(***************************************************************************)
SeenOrderKept ==
    [][\A i \in DOMAIN k_buckets, j \in DOMAIN k_buckets' :
        LET before == k_buckets[i]
            after  == k_buckets'[j]
            both   == {c \in (Members(before) \cap Members(after)) \ {reply'.id} :
                            HeldIn(c) = {i}}
        IN  Keep(before.contacts, both) = Keep(after.contacts, both)]_vars

(***************************************************************************)
(* While a contact is being added no other one leaves the table, except in *)
(* the exchange of ForceKAcceptNewPeer: that gives up one contact of the   *)
(* brother bucket for the new one, which comes to be among the neighbours, *)
(* and every neighbour but the last stays.                                 *)
(***************************************************************************)
Neighbours(n) == {ByHolder[m] : m \in 1 .. n}
AddOnlyExchanges ==
    [][(adding # NoId \/ reply'.id # NoId) /\ ~(AllContacts \subseteq AllContacts') =>
        /\ reply'.code = 0
        /\ reply'.id \in Neighbours(Room)'
        /\ Neighbours(Room - 1) \subseteq AllContacts'
        /\ Cardinality(AllContacts \ AllContacts') = 1]_vars

\* Adding changes neither the order in which others were seen nor, but for that exchange,
\* who is there (kadroutingtable.cpp:107-168, 308-349).
AddDisturbsNone == SeenOrderKept /\ AddOnlyExchanges

(***************************************************************************)
(* The left half of the bucket that is to be split would be the very same  *)
(* bucket again: so few identifiers are left in its range, which all its   *)
(* members are from, that AddContact splits it and calls itself for ever.  *)
(* It takes a K_ of three or less.                                         *)
(***************************************************************************)
Cramped ==
    /\ adding # NoId
    /\ adding <= MaxId
    /\ LET b == k_buckets[KBucketIndex(adding)]
       IN  /\ Full(b, adding) /\ MaySplit(KBucketIndex(adding))
           /\ \A c \in Members(b) : KeyInRange(b, c)
           /\ SplitMin1(b.range_min, b.range_max, 0, 0) = b.range_max

(***************************************************************************)
(* An AddContact returns, however often it has to split and wherever the   *)
(* contact lies, unless it comes upon a cramped bucket.                    *)
(***************************************************************************)
AddContactReturns == adding # NoId ~> (adding = NoId \/ Cramped)

(***************************************************************************)
(* Looking up the identifier GetRefreshList returns for a bucket wider     *)
(* than three touches that very bucket, although the ranges overlap,       *)
(* unless a stray bit has raised an end or this identifier.                *)
(***************************************************************************)
RefreshHitsItsBucket ==
    EndsAscend =>
        \A i \in RefreshList(1, TRUE, 0) :
            k_buckets[i].range_max > k_buckets[i].range_min + 3 =>
                \A id \in RefreshIds(k_buckets[i]) :
                    id <= k_buckets[i].range_max => KBucketIndex(id) = i

(***************************************************************************)
(* While the process has used no more than KRefreshTime seconds of CPU,    *)
(* GetRefreshList without force lists the buckets that have been touched   *)
(* since they were made, and only those: the unsigned difference of the    *)
(* two clocks makes a touch count as long ago.                             *)
(***************************************************************************)
TouchedAreListed ==
    \A cpu \in 0 .. RefreshTime :
        RefreshList(1, FALSE, cpu) = {i \in DOMAIN k_buckets : k_buckets[i].last_accessed # 0}

(***************************************************************************)
(* GetFurthestContacts returns as many contacts as there are and as it was *)
(* asked for, and no other one is further away than one of these: a copy   *)
(* in a second bucket would make it return nothing.                        *)
(***************************************************************************)
FurthestContactsRight ==
    \A key \in Keys, count \in 1 .. K + 1 :
        LET far   == ToSet(GetFurthestContacts(key, count, {key}))
            there == AllContacts \ {key}
        IN  /\ Cardinality(far) =
                 IF Cardinality(there) < count THEN Cardinality(there) ELSE count
            /\ \A x \in far, y \in there \ far : CloserToTarget(y, x, key)

(***************************************************************************)
(* FindCloseNodes returns no contact twice, none that is excluded, and as  *)
(* many as it was asked for if there are that many, for every key whose    *)
(* own bucket is the first of the sorted ones, the one it skips.           *)
(***************************************************************************)
FindCloseNodesComplete ==
    \A key \in Keys, count \in 1 .. K + 1 :
        SortBucketsByDistance(key)[1] = KBucketIndex(key) =>
            \A x \in Keys :
                LET found == FindCloseNodes(key, count, {x})
                    there == Cardinality(AllContacts \ {x})
                IN  /\ ToSet(found) \subseteq AllContacts \ {x}
                    /\ IsInjective(found)
                    /\ Len(found) = IF there < count THEN there ELSE count

(***************************************************************************)
(* The documentation of SplitRange: a range is split into [min, max1] and  *)
(* [min1, max] with min1 = max1 + 1, that is, into ranges without a common *)
(* identifier.                                                             *)
(***************************************************************************)
RangesDisjoint ==
    \A i, j \in DOMAIN k_buckets :
        i < j => k_buckets[i].range_max < k_buckets[j].range_min
=============================================================================
