----------------------------- MODULE UdtCounter -----------------------------
(***************************************************************************)
(* A UDT counter in use: the peers hold two numbers s1 and s2 of a wrapped *)
(* counter that are d steps apart, and compare them with CSeqNo            *)
(* (src/udt/common.h:203-234).  The theorems at the end say that this      *)
(* arithmetic is right for every size of the counter.                      *)
(***************************************************************************)
EXTENDS UdtSeqNo, TLAPS

VARIABLES s1, s2,   \* two numbers, s2 counted up from s1
          d         \* how many steps

vars == <<s1, s2, d>>

\* Numbers in use at once are closer than the threshold.
Window == 0 .. SeqNoTH - 1

Init == s1 \in SeqNo /\ d = 0 /\ s2 = s1

Count == d + 1 \in Window /\ d' = d + 1 /\ s2' = IncSeq(s2) /\ UNCHANGED s1

\* The window moves on.
Slide == d > 0 /\ d' = d - 1 /\ s1' = IncSeq(s1) /\ UNCHANGED s2

Next == Count \/ Slide

Spec == Init /\ [][Next]_vars

-----------------------------------------------------------------------------
\* Whether or not the counter wrapped in between, the comparison has the sign
\* of the distance and the offset is the distance, in both directions
\* (common.h:206-218).
ComparesByDistance ==
    /\ SeqOff(s1, s2) = d /\ SeqOff(s2, s1) = -d
    /\ SeqCmp(s2, s1) >= 0 /\ SeqCmp(s1, s2) <= 0
    /\ SeqCmp(s1, s2) = 0 <=> d = 0

\* seqlen counts both ends, a jump lands where single steps do, and decseq
\* undoes incseq (common.h:209, 223-230).
LengthAndJump ==
    /\ SeqLen(s1, s2) = d + 1
    /\ IncSeqBy(s1, d) = s2
    /\ DecSeq(IncSeq(s2)) = s2
-----------------------------------------------------------------------------
\* Where s2 is: d steps after s1, on the circle of MaxSeqNo + 1 numbers.
Apart == /\ s1 \in SeqNo /\ s2 \in SeqNo /\ d \in Window
         /\ \/ s1 + d <= MaxSeqNo /\ s2 = s1 + d
            \/ s1 + d > MaxSeqNo /\ s2 = s1 + d - MaxSeqNo - 1

\* Counting keeps the two numbers d steps apart, through the wrap of either.
THEOREM CounterApart == Spec => []Apart
<1> USE SeqNoAssumption DEF SeqNo, Window
<1>1. Init => Apart
  BY DEF Init, Apart
<1>2. Apart /\ [Next]_vars => Apart'
  <2> SUFFICES ASSUME Apart, [Next]_vars PROVE Apart'
    OBVIOUS
  <2>1. CASE Count
    BY <2>1 DEF Apart, Count, IncSeq
  <2>2. CASE Slide
    BY <2>2 DEF Apart, Slide, IncSeq
  <2>3. CASE UNCHANGED vars
    BY <2>3 DEF Apart, vars
  <2> QED
    BY <2>1, <2>2, <2>3 DEF Next
<1> QED
  BY <1>1, <1>2, PTL DEF Spec

\* seqcmp and seqoff compare by distance (common.h:206-218), for every
\* MaxSeqNo = 2 * SeqNoTH + 1: in particular for the 31-bit numbers of the code.
THEOREM CounterCompares == Spec => []ComparesByDistance
<1> USE SeqNoAssumption DEF SeqNo, Window
<1>1. Apart => ComparesByDistance
  <2> SUFFICES ASSUME Apart PROVE ComparesByDistance
    OBVIOUS
  <2>1. SeqOff(s1, s2) = d /\ SeqOff(s2, s1) = -d
    BY DEF Apart, SeqOff, AbsDiff
  <2>2. SeqCmp(s2, s1) >= 0 /\ SeqCmp(s1, s2) <= 0
    BY DEF Apart, SeqCmp, AbsDiff
  <2>3. SeqCmp(s1, s2) = 0 <=> d = 0
    BY DEF Apart, SeqCmp, AbsDiff
  <2> QED
    BY <2>1, <2>2, <2>3 DEF ComparesByDistance
<1> QED
  BY <1>1, CounterApart, PTL

\* seqlen, incseq and decseq agree with single steps (common.h:209, 223-230).
THEOREM CounterJumps == Spec => []LengthAndJump
<1> USE SeqNoAssumption DEF SeqNo, Window
<1>1. Apart => LengthAndJump
  BY DEF Apart, LengthAndJump, SeqLen, IncSeqBy, IncSeq, DecSeq
<1> QED
  BY <1>1, CounterApart, PTL
=============================================================================
