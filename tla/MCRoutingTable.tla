--------------------------- MODULE MCRoutingTable ---------------------------
(***************************************************************************)
(* Small instances of RoutingTable for TLC.  "splits" adds enough contacts *)
(* to split the table several times.  "hash" adds fewer of them where the  *)
(* lower end is a hash, below or above some of the contacts or above the   *)
(* holder, and where a stray bit may raise the end of a half; a call that  *)
(* has come upon a cramped bucket is not followed further, as it would go  *)
(* on for ever.  "lookups" searches a smaller table, and "numbers" is an   *)
(* instance of BigInt, the identifiers' arithmetic.  One of the four moves *)
(* in a behaviour.                                                         *)
(***************************************************************************)
EXTENDS RoutingTable, TLC
LOCAL INSTANCE Bitwise

CONSTANTS
    Parts,
    FewIds, MaxBuckets, LookupIds, LookupKeys, LookupHolder,
    UnitBits, NibbleBits, DecDigits, Operands, WordValues, KMaxDigits, MaxNumber

ASSUME NumbersFit ==
    /\ {UnitBits, NibbleBits, DecDigits, KMaxDigits} \subseteq Nat \ {0}
    /\ UnitBits % NibbleBits = 0 /\ UnitBits % 2 = 0 /\ 2^UnitBits > 10
    /\ Operands \subseteq Nat /\ WordValues \subseteq 0 .. 2^(UnitBits \div 2) - 1

XorOf(a, b) == a ^^ b

VARIABLES
    part,
    buckets2, upper2, holder2, brother2, adding2, reply2, wild2,   \* "lookups"
    units, number, stopped                                         \* "numbers"

vars2 == <<buckets2, upper2, holder2, brother2, adding2, reply2, wild2>>
numberVars == <<units, number, stopped>>

Lookups == INSTANCE RoutingTable WITH
    Ids <- LookupIds, Keys <- LookupKeys, Holder <- LookupHolder, MinIds <- {0}, StrayBits <- {0},
    k_buckets <- buckets2, bucket_upper_address <- upper2, bucket_of_holder <- holder2,
    brother_bucket_of_holder <- brother2, adding <- adding2, reply <- reply2, wild <- wild2

Big == INSTANCE BigInt

\* "splits": the lower end is the least one, and no stray bit has come in.
Usual == (\A min \in MinIds : LowerEnd <= min) /\ EndsAscend

\* "hash": fewer contacts, but any lower end, and stray bits.
FewAdded == {adding, reply.id} \subseteq FewIds \cup {NoId}

MCInit ==
    /\ part \in Parts
    /\ IF part = "numbers" THEN Big!Init ELSE Big!KMinID /\ stopped = "no"
    /\ Init
    /\ part # "hash" => Usual
    /\ Lookups!Init

TableNext ==
    /\ part \in {"splits", "hash"} /\ ~Cramped
    /\ adding = NoId => Len(k_buckets) <= MaxBuckets
    /\ Next
    /\ (part = "splits" => Usual') /\ (part = "hash" => FewAdded')
    /\ UNCHANGED <<part, vars2, numberVars>>

MCNext ==
    \/ TableNext
    \/ part = "lookups" /\ Lookups!Next /\ UNCHANGED <<part, vars, numberVars>>
    \/ part = "numbers" /\ Big!Next /\ UNCHANGED <<part, vars, vars2>>

\* The fairness of RoutingTable.
MCSpec ==
    /\ MCInit /\ [][MCNext]_<<part, vars, vars2, numberVars>>
    /\ WF_<<part, vars, vars2, numberVars>>(adding # NoId /\ TableNext)
-----------------------------------------------------------------------------
\* The searches miss none of the contacts they should find, and a refresh hits the bucket
\* it is for (kadroutingtable.cpp:170-206, 352-378); wherever the lower end of the table is, and with a stray
\* bit, the map and the two indices of the holder fit the buckets.
SearchesAreRight ==
    /\ part = "lookups" =>
           /\ Lookups!FindCloseNodesComplete /\ Lookups!FurthestContactsRight
           /\ Lookups!TouchedAreListed
    /\ part \in {"splits", "hash"} => TypeOK /\ HolderBucketsKnown /\ RefreshHitsItsBucket

\* A number stands for what any calls should have made of it, is compared as such, is read
\* back as it was written, and no division fails its own test (BigInt.cpp:406-2010).
NumbersAreRight ==
    part = "numbers" => /\ Big!StandsForNumber /\ Big!ComparesAsNumbers
                        /\ Big!TextsReadBack /\ Big!DivisionAndLog
=============================================================================
