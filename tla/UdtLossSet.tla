----------------------------- MODULE UdtLossSet -----------------------------
(***************************************************************************)
(* What a loss list promises: it is a set of sequence numbers, and every   *)
(* call answers from that set.  UdtSndLossList and UdtRcvLossList          *)
(* implement it with ranges linked through an array.                       *)
(***************************************************************************)
EXTENDS UdtSeqNo

VARIABLES lost,   \* the sequence numbers that are lost
          ret     \* what the last call returned

lvars == <<lost, ret>>

Init == lost = {} /\ ret = 0

\* insert: adds a range and returns how many of it were not there.
Insert(s1, s2) == /\ lost' = lost \cup SeqRange(s1, s2)
                  /\ ret' = Cardinality(SeqRange(s1, s2) \ lost)

\* remove, of the sender: every number up to s leaves.
RemoveUpTo(s) == lost' = {t \in lost : SeqCmp(t, s) > 0} /\ ret' = 0

\* remove, of the receiver: one number leaves; says whether it was there.
RemoveOne(s) == lost' = lost \ {s} /\ ret' = IF s \in lost THEN 1 ELSE 0

\* remove of a range, of the receiver.
RemoveRange(s1, s2) == lost' = lost \ SeqRange(s1, s2) /\ ret' = 0

\* getLostSeq: the earliest number leaves and is returned.
TakeFirst == /\ lost # {}
             /\ ret' = FirstSeq(lost)
             /\ lost' = lost \ {ret'}

TakeNothing == lost = {} /\ ret' = -1 /\ UNCHANGED lost

\* The ends of a range that was inserted are in the set afterwards; a number
\* that removes something can be chosen among those it removes.
Next == \/ \E s1, s2 \in lost' : Insert(s1, s2)
        \/ \E s \in lost \ lost' : RemoveUpTo(s) \/ RemoveOne(s)
        \/ \E s1, s2 \in lost \ lost' : RemoveRange(s1, s2)
        \/ ret' = 0 /\ UNCHANGED lost     \* a removal that finds nothing
        \/ TakeFirst \/ TakeNothing

Spec == Init /\ [][Next]_lvars
=============================================================================
