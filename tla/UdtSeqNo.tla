------------------------------ MODULE UdtSeqNo ------------------------------
(***************************************************************************)
(* UDT sequence numbers (src/udt/common.h, class CSeqNo): integers of      *)
(* 0 .. MaxSeqNo that wrap around to 0.  CAckNo and CMsgNo are the same    *)
(* arithmetic with their own constants.  MaxSeqNo is 0x7FFFFFFF and        *)
(* SeqNoTH 0x3FFFFFFF in the code (core.cpp:70).                           *)
(***************************************************************************)
EXTENDS Integers, FiniteSets

CONSTANTS MaxSeqNo,    \* CSeqNo::m_iMaxSeqNo, the last number before the wrap
          SeqNoTH      \* CSeqNo::m_iSeqNoTH, numbers closer than this compare as integers

ASSUME SeqNoAssumption == /\ SeqNoTH \in Nat /\ SeqNoTH > 1
                          /\ MaxSeqNo = 2 * SeqNoTH + 1

SeqNo == 0 .. MaxSeqNo

AbsDiff(a, b) == IF a >= b THEN a - b ELSE b - a

\* Faulty: the threshold itself is compared as if the numbers had not wrapped.
SeqCmpNoWrap(s1, s2) == s1 - s2

SeqCmp(s1, s2) == IF AbsDiff(s1, s2) < SeqNoTH THEN s1 - s2 ELSE s2 - s1

\* Faulty: one short after the wrap (m_iMaxSeqNo + 1 instead of + 2).
SeqLenShort(s1, s2) == IF s1 <= s2 THEN s2 - s1 + 1 ELSE s2 - s1 + MaxSeqNo + 1

SeqLen(s1, s2) == IF s1 <= s2 THEN s2 - s1 + 1 ELSE s2 - s1 + MaxSeqNo + 2

\* Faulty: the two corrections after a wrap are exchanged.
SeqOffSwapped(s1, s2) ==
    IF AbsDiff(s1, s2) < SeqNoTH THEN s2 - s1
    ELSE IF s1 < s2 THEN s2 - s1 + MaxSeqNo + 1 ELSE s2 - s1 - MaxSeqNo - 1

SeqOff(s1, s2) ==
    IF AbsDiff(s1, s2) < SeqNoTH THEN s2 - s1
    ELSE IF s1 < s2 THEN s2 - s1 - MaxSeqNo - 1 ELSE s2 - s1 + MaxSeqNo + 1

\* Faulty: never wraps.
IncSeqNoWrap(s) == s + 1

IncSeq(s) == IF s = MaxSeqNo THEN 0 ELSE s + 1

DecSeq(s) == IF s = 0 THEN MaxSeqNo ELSE s - 1

\* Faulty: wraps one step late.
IncSeqByLate(s, inc) == IF MaxSeqNo - s >= inc THEN s + inc ELSE s - MaxSeqNo + inc

IncSeqBy(s, inc) == IF MaxSeqNo - s >= inc THEN s + inc ELSE s - MaxSeqNo + inc - 1

\* The numbers from s1 to s2 inclusive, in the order of the wrapped counter.
SeqRange(s1, s2) == IF s1 <= s2 THEN s1 .. s2 ELSE (s1 .. MaxSeqNo) \cup (0 .. s2)

\* The earliest number of a set that lies in less than half of the circle.
FirstSeq(S) == CHOOSE s \in S : \A t \in S : SeqCmp(s, t) <= 0
=============================================================================
