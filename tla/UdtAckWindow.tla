---------------------------- MODULE UdtAckWindow ----------------------------
(***************************************************************************)
(* CACKWindow (src/udt/window.cpp): a ring of the ACK packets sent last,   *)
(* in which an ACK-2 finds the data acknowledgement that it confirms.  The *)
(* numbers of ACK packets wrap (CAckNo::incack); ACK-2 packets arrive      *)
(* late, twice or not at all.                                              *)
(***************************************************************************)
EXTENDS Integers, Sequences, SequenceTheorems, WellFoundedInduction, TLAPS

CONSTANTS Size,          \* m_iSize, 4096 in a connection
          MaxAckNo,      \* CAckNo::m_iMaxAckSeqNo
          DataAcks       \* what an ACK packet acknowledges

VARIABLES ring,          \* m_piACKSeqNo and m_piACK: records [seq, ack]
          head, tail,    \* m_iHead, m_iTail
          ackNo,         \* CUDT::m_iAckSeqNo
          answer         \* the argument of the last acknowledge, and what it found or "none"

vars == <<ring, head, tail, ackNo, answer>>

Slots  == 0 .. Size - 1
AckNos == 0 .. MaxAckNo
Empty  == [seq |-> -1, ack |-> "none"]
Unasked == [seq |-> 0, ack |-> "none"]

\* The slots that the constructor leaves unset are read before they are written
\* by no path: acknowledge looks from m_iTail to m_iHead alone.
Init == /\ ring = [i \in Slots |-> Empty] /\ head = 0 /\ tail = 0
        /\ ackNo = 0 /\ answer = Unasked

IncAck(n) == IF n = MaxAckNo THEN 0 ELSE n + 1

\* Faulty: a full ring does not give up its oldest record.
StoreOverTail(seq, ack) ==
    /\ ring' = [ring EXCEPT ![head] = [seq |-> seq, ack |-> ack]]
    /\ head' = (head + 1) % Size
    /\ UNCHANGED tail

\* Faulty: the head runs past the end of the array.
StoreNoWrap(seq, ack) ==
    /\ ring' = [ring EXCEPT ![head] = [seq |-> seq, ack |-> ack]]
    /\ head' = head + 1
    /\ tail' = IF head' = tail THEN (tail + 1) % Size ELSE tail

\* store: the oldest record is overwritten when the ring is full.
Store(seq, ack) ==
    /\ ring' = [ring EXCEPT ![head] = [seq |-> seq, ack |-> ack]]
    /\ head' = (head + 1) % Size
    /\ tail' = IF head' = tail THEN (tail + 1) % Size ELSE tail

\* sendCtrl(2): the next number is given out and stored with what it acknowledges.
SendAck ==
    /\ ackNo' = IncAck(ackNo) /\ answer' = Unasked
    /\ \E ack \in DataAcks : Store(ackNo', ack)

\* Faulty: when the ring has wrapped, only the slots up to its end are looked at.
PlacesToEnd == IF head >= tail THEN tail .. head - 1 ELSE tail .. Size - 1

\* The places to look at, before the remainder by Size: up to m_iHead, or past
\* the end of the array when it has wrapped.
Places == IF head >= tail THEN tail .. head - 1 ELSE tail .. head + Size - 1

\* acknowledge: the first record with the number, and all before it, leave.  The
\* ring starts anew when the last one of an array that has not wrapped is found;
\* in one that has wrapped the test is for the slot behind it (window.cpp:139),
\* which never holds a record, and the tail catches up with the head instead.
Acknowledge(seq) ==
    LET hits == {j \in Places : ring[j % Size].seq = seq}
        j == CHOOSE j \in hits : \A k \in hits : j <= k
        i == j % Size
    IN  IF hits = {} THEN answer' = [seq |-> seq, ack |-> "none"] /\ UNCHANGED <<ring, head, tail>>
        ELSE /\ answer' = ring[i]
             /\ IF (head >= tail /\ i + 1 = head) \/ (head < tail /\ i = head)
                THEN head' = 0 /\ tail' = 0 /\ ring' = [ring EXCEPT ![0].seq = -1]
                ELSE tail' = (i + 1) % Size /\ UNCHANGED <<ring, head>>

\* An ACK-2 arrives, for any number: late and repeated ones come too.
ReceiveAck2 == \E seq \in AckNos : Acknowledge(seq) /\ UNCHANGED ackNo

Next == SendAck \/ ReceiveAck2

Spec == Init /\ [][Next]_vars

-----------------------------------------------------------------------------
TypeOK ==
    /\ ring \in [Slots -> [seq : AckNos \cup {-1}, ack : DataAcks \cup {"none"}]]
    /\ head \in Slots /\ tail \in Slots /\ ackNo \in AckNos
    /\ answer \in [seq : AckNos, ack : DataAcks \cup {"none"}]

\* The records between tail and head, oldest first.
Records == [k \in 1 .. (head + Size - tail) % Size |-> ring[(tail + k - 1) % Size]]

\* An ACK-2 confirms what its ACK acknowledged and nothing else, and none twice,
\* through wraps of the ring and of the numbers (window.cpp:83-151, core.cpp:1818).
History == INSTANCE AckHistory WITH records <- Records, Capacity <- Size - 1
ImplementsAckHistory == History!Spec
-----------------------------------------------------------------------------
(* The proof, for every size of the ring and of the numbers.               *)

RingSizes == Size \in Nat \ {0} /\ MaxAckNo \in Nat

Record == [seq : AckNos \cup {-1}, ack : DataAcks \cup {"none"}]

\* How many records there are, and the slot of the k-th.
Count == IF head >= tail THEN head - tail ELSE head + Size - tail
Slot(k) == IF tail + k - 1 < Size THEN tail + k - 1 ELSE tail + k - 1 - Size

\* A position that has gone round once.
LEMMA GoesRound ==
    ASSUME RingSizes, NEW i \in Nat, i < 2 * Size
    PROVE  i % Size = IF i < Size THEN i ELSE i - Size
  BY Z3 DEF RingSizes

\* The remainders of the code, as plain arithmetic.
InTheRing ==
    /\ Count \in 0 .. Size - 1
    /\ \A k \in 1 .. Count : Slot(k) \in Slots
    /\ Records \in Seq(Record) /\ Len(Records) = Count
    /\ \A k \in 1 .. Count : Records[k] = ring[Slot(k)]

LEMMA RecordsAre == RingSizes /\ TypeOK => InTheRing
  <1> HAVE RingSizes /\ TypeOK
  <1>1. head \in Slots /\ tail \in Slots /\ ring \in [Slots -> Record]
    BY DEF TypeOK, Record
  <1>2. Count \in 0 .. Size - 1 /\ \A k \in 1 .. Count : Slot(k) \in Slots
    BY <1>1 DEF Count, Slot, Slots, RingSizes
  <1>3. (head + Size - tail) % Size = Count
    <2>1. PICK x : x = head + Size - tail
      OBVIOUS
    <2>2. x \in Nat /\ x < 2 * Size
      BY <2>1, <1>1 DEF Slots, RingSizes
    <2>3. x % Size = IF x < Size THEN x ELSE x - Size
      BY <2>2, GoesRound
    <2>4. (IF x < Size THEN x ELSE x - Size) = Count
      BY <2>1, <1>1 DEF Count, Slots, RingSizes
    <2> QED
      BY <2>1, <2>3, <2>4
  <1>4. ASSUME NEW k \in 1 .. Count PROVE (tail + k - 1) % Size = Slot(k)
    <2>1. PICK x : x = tail + k - 1
      OBVIOUS
    <2>2. x \in Nat /\ x < 2 * Size
      BY <2>1, <1>1, <1>2 DEF Slots, RingSizes
    <2>3. x % Size = IF x < Size THEN x ELSE x - Size
      BY <2>2, GoesRound
    <2>4. Slot(k) = IF x < Size THEN x ELSE x - Size
      BY <2>1, <1>1, <1>2 DEF Slot, Slots, RingSizes
    <2> QED
      BY <2>1, <2>3, <2>4
  <1>5. Records = [k \in 1 .. Count |-> ring[(tail + k - 1) % Size]]
    BY <1>3 DEF Records
  <1>6. \A k \in 1 .. Count : Records[k] = ring[Slot(k)] /\ ring[Slot(k)] \in Record
    BY <1>1, <1>2, <1>4, <1>5
  <1>7. Count \in Nat
    BY <1>2 DEF RingSizes
  <1>8. Records \in [1 .. Count -> Record]
    BY <1>5, <1>6
  <1> QED
    BY <1>2, <1>6, <1>7, <1>8 DEF InTheRing

LEMMA RecordsWillBe == (RingSizes /\ TypeOK => InTheRing)'
  BY RecordsAre, PTL

LEMMA HasLeast ==
    ASSUME NEW S \in SUBSET Nat, S # {}
    PROVE  \E j \in S : \A k \in S : j <= k
  <1>1. PICK j \in S : \A k \in S : ~(<<k, j>> \in OpToRel(<, Nat))
    BY WFMin, NatLessThanWellFounded, Zenon
  <1>2. \A k \in S : ~(k < j)
    BY <1>1, Zenon DEF OpToRel
  <1> QED
    BY <1>2

\* The types of every step.
LEMMA TypesKept ==
    ASSUME RingSizes, TypeOK, [Next]_vars
    PROVE  TypeOK'
  <1>0. \A i \in Nat : i % Size \in Slots
    BY DEF RingSizes, Slots
  <1>1. 0 \in Slots /\ Slots \subseteq Nat /\ AckNos \subseteq Nat
    BY DEF RingSizes, Slots, AckNos
  <1>2. CASE SendAck
    <2>1. PICK ack \in DataAcks : Store(ackNo', ack)
      BY <1>2 DEF SendAck
    <2>2. ackNo' \in AckNos /\ answer' = Unasked
      BY <1>2 DEF SendAck, IncAck, TypeOK, AckNos, RingSizes
    <2>3. head' \in Slots /\ tail' \in Slots
      BY <2>1, <1>0, <1>1 DEF Store, TypeOK
    <2>4. [seq |-> ackNo', ack |-> ack] \in Record
      BY <2>2 DEF Record
    <2>5. ring' \in [Slots -> Record]
      BY <2>1, <2>4 DEF Store, TypeOK, Record
    <2>6. answer' \in [seq : AckNos, ack : DataAcks \cup {"none"}]
      BY <2>2 DEF Unasked, AckNos, RingSizes
    <2> QED
      BY <2>2, <2>3, <2>5, <2>6 DEF TypeOK, Record
  <1>3. CASE ReceiveAck2
    <2>1. PICK seq \in AckNos : Acknowledge(seq) /\ ackNo' = ackNo
      BY <1>3 DEF ReceiveAck2
    <2> DEFINE hits == {j \in Places : ring[j % Size].seq = seq}
               first == CHOOSE j \in hits : \A k \in hits : j <= k
    <2>2. CASE hits = {}
      BY <2>1, <2>2 DEF Acknowledge, TypeOK
    <2>3. CASE hits # {}
      <3>1. Places \subseteq Nat
        BY DEF Places, TypeOK, Slots, RingSizes
      <3>2. \E j \in hits : \A k \in hits : j <= k
        BY <2>3, <3>1, HasLeast
      <3>3. first \in hits
        BY <3>2
      <3>4. PICK i : i = first % Size /\ i \in Slots /\ ring[i].seq = seq
        BY <3>1, <3>3, <1>0
      <3> HIDE DEF first, hits
      <3>5. answer' = ring[i] /\ \/ head' = 0 /\ tail' = 0 /\ ring' = [ring EXCEPT ![0].seq = -1]
                                 \/ tail' = (i + 1) % Size /\ UNCHANGED <<ring, head>>
        BY <2>1, <2>3, <3>4 DEF Acknowledge, hits, first
      <3>6. head' \in Slots /\ tail' \in Slots
        BY <3>4, <3>5, <1>0, <1>1 DEF TypeOK
      <3>7. ring' \in [Slots -> Record]
        BY <3>5, <1>1 DEF TypeOK, Record
      <3>8. answer' \in [seq : AckNos, ack : DataAcks \cup {"none"}]
        BY <3>4, <3>5 DEF TypeOK
      <3> QED
        BY <2>1, <3>6, <3>7, <3>8 DEF TypeOK, Record
    <2> QED
      BY <2>2, <2>3
  <1>4. CASE UNCHANGED vars
    BY <1>4 DEF vars, TypeOK
  <1> QED
    BY <1>2, <1>3, <1>4 DEF Next

-----------------------------------------------------------------------------
\* The ring is the history as soon as it has as many records, and each is the right one.
LEMMA RecordsBecome ==
    ASSUME RingSizes, TypeOK', NEW r \in Seq(Record), Len(r) = Count',
           \A k \in 1 .. Count' : r[k] = ring'[Slot(k)']
    PROVE  Records' = r
  <1>1. /\ Records' \in Seq(Record') /\ Len(Records') = Count'
        /\ \A k \in 1 .. Count' : Records'[k] = ring'[Slot(k)']
    <2>1. RingSizes'
      BY DEF RingSizes
    <2> QED
      BY <2>1, RecordsWillBe DEF InTheRing
  <1>2. Record' = Record
    BY DEF Record
  <1> QED
    BY <1>1, <1>2, SeqEqual

\* store appends, and forgets the oldest record of a ring that is full.
LEMMA SendAckIsSent ==
    ASSUME RingSizes, TypeOK, SendAck
    PROVE  \E seq \in AckNos, ack \in DataAcks : History!Sent(seq, ack)
  <1>0. TypeOK'
    BY TypesKept DEF Next
  <1>1. PICK ack \in DataAcks : Store(ackNo', ack)
    BY DEF SendAck
  <1>2. ackNo' \in AckNos
    BY <1>0 DEF TypeOK
  <1>3. PICK rec \in Record : rec = [seq |-> ackNo', ack |-> ack]
    <2>1. [seq |-> ackNo', ack |-> ack] \in Record
      BY <1>2 DEF Record
    <2> QED
      BY <2>1, Zenon
  <1>4. PICK n : n = Count /\ n \in 0 .. Size - 1
    BY RecordsAre DEF InTheRing
  <1>5. PICK r : r = Append(Records, rec)
    OBVIOUS
  <1>6. /\ r \in Seq(Record) /\ Len(r) = n + 1 /\ r[n + 1] = rec
        /\ \A k \in 1 .. n : r[k] = ring[Slot(k)]
    BY <1>3, <1>4, <1>5, RecordsAre, AppendProperties DEF InTheRing
  <1>7. head \in Slots /\ tail \in Slots /\ ring \in [Slots -> Record]
    BY DEF TypeOK, Record
  <1>8. \A i \in Slots : (i + 1) % Size = IF i + 1 = Size THEN 0 ELSE i + 1
    BY GoesRound DEF Slots, RingSizes
  <1>9. /\ head' = IF head + 1 = Size THEN 0 ELSE head + 1
        /\ tail' = IF head' = tail THEN IF tail + 1 = Size THEN 0 ELSE tail + 1 ELSE tail
        /\ ring' = [ring EXCEPT ![head] = rec]
    BY <1>1, <1>3, <1>7, <1>8 DEF Store
  <1>10. \A k \in 1 .. n : Slot(k) \in Slots /\ Slot(k) # head
    BY <1>4, <1>7 DEF Slot, Count, Slots, RingSizes
  <1>11. \A k \in 1 .. n : ring'[Slot(k)] = ring[Slot(k)]
    BY <1>7, <1>9, <1>10
  <1>12. ring'[head] = rec
    BY <1>7, <1>9
  <1>13. n < Size - 1 => head' # tail
    BY <1>4, <1>7, <1>9 DEF Count, Slots, RingSizes
  <1>14. Records' = IF Len(r) > Size - 1 THEN Tail(r) ELSE r
    <2>1. CASE n < Size - 1
      <3>1. Count' = n + 1 /\ Slot(n + 1)' = head /\ \A k \in 1 .. n : Slot(k)' = Slot(k)
        BY <2>1, <1>4, <1>7, <1>9, <1>13 DEF Count, Slot, Slots, RingSizes
      <3>2. \A k \in 1 .. n + 1 : k \in 1 .. n \/ k = n + 1
        BY <1>4 DEF RingSizes
      <3>3. \A k \in 1 .. Count' : r[k] = ring'[Slot(k)']
        BY <3>1, <3>2, <1>6, <1>11, <1>12
      <3>4. Records' = r
        BY <3>1, <3>3, <1>0, <1>6, RecordsBecome
      <3> QED
        BY <3>4, <2>1, <1>4, <1>6 DEF RingSizes
    <2>2. CASE n = Size - 1
      <3>1. r # <<>>
        BY <1>4, <1>6 DEF RingSizes
      <3>2. /\ Tail(r) \in Seq(Record) /\ Len(Tail(r)) = n
            /\ \A k \in 1 .. n : Tail(r)[k] = r[k + 1]
        BY <3>1, <1>4, <1>6, HeadTailProperties DEF RingSizes
      <3>3. Count' = n
        BY <2>2, <1>4, <1>7, <1>9 DEF Count, Slots, RingSizes
      <3>4. Slot(n)' = head \/ n = 0
        BY <2>2, <1>4, <1>7, <1>9 DEF Count, Slot, Slots, RingSizes
      <3>5. \A k \in 1 .. n - 1 : Slot(k)' = Slot(k + 1)
        BY <2>2, <1>4, <1>7, <1>9 DEF Count, Slot, Slots, RingSizes
      <3>6. \A k \in 1 .. n : (k \in 1 .. n - 1 /\ k + 1 \in 1 .. n) \/ (k = n /\ n # 0)
        BY <1>4 DEF RingSizes
      <3>7. \A k \in 1 .. n : Tail(r)[k] = ring'[Slot(k)']
        BY <3>2, <3>4, <3>5, <3>6, <1>6, <1>11, <1>12
      <3>8. Records' = Tail(r)
        BY <3>2, <3>3, <3>7, <1>0, RecordsBecome
      <3> QED
        BY <3>8, <2>2, <1>4, <1>6 DEF RingSizes
    <2> QED
      BY <2>1, <2>2, <1>4 DEF RingSizes
  <1>15. answer' = History!NoAnswer
    BY DEF SendAck, Unasked, History!NoAnswer
  <1> QED
    BY <1>2, <1>3, <1>5, <1>14, <1>15 DEF History!Sent

\* Where acknowledge looks, record k is k - 1 places behind the tail.
LEMMA PlacesAre ==
    ASSUME RingSizes, TypeOK
    PROVE  /\ Places \subseteq Nat
           /\ \A j \in Places : j - tail + 1 \in 1 .. Count /\ j % Size = Slot(j - tail + 1)
           /\ \A k \in 1 .. Count : tail + k - 1 \in Places
  <1>1. head \in Slots /\ tail \in Slots
    BY DEF TypeOK
  <1>2. Places \subseteq Nat /\ \A k \in 1 .. Count : tail + k - 1 \in Places
    BY <1>1 DEF Places, Count, Slots, RingSizes
  <1>3. ASSUME NEW j \in Places
        PROVE  j - tail + 1 \in 1 .. Count /\ j % Size = Slot(j - tail + 1)
    <2>1. j \in Nat /\ j < 2 * Size
      BY <1>1 DEF Places, Slots, RingSizes
    <2>2. j % Size = IF j < Size THEN j ELSE j - Size
      BY <2>1, GoesRound
    <2>3. Slot(j - tail + 1) = IF j < Size THEN j ELSE j - Size
      BY <1>1, <2>1 DEF Slot, Slots, RingSizes
    <2>4. j - tail + 1 \in 1 .. Count
      BY <1>1 DEF Places, Count, Slots, RingSizes
    <2> QED
      BY <2>2, <2>3, <2>4
  <1> QED
    BY <1>2, <1>3

\* acknowledge drops the record that is asked for and the older ones: the test of
\* line 139 never holds, and a tail that meets the head leaves the ring empty as well.
LEMMA AcknowledgeIsAnswered ==
    ASSUME RingSizes, TypeOK, TypeOK', NEW seq \in AckNos, Acknowledge(seq)
    PROVE  History!Answered(seq)
  <1> DEFINE hits == {j \in Places : ring[j % Size].seq = seq}
             first == CHOOSE j \in hits : \A k \in hits : j <= k
             isFirst(k) == /\ Records[k].seq = seq
                           /\ \A j \in 1 .. k - 1 : Records[j].seq # seq
             at == CHOOSE k \in DOMAIN Records : isFirst(k)
  <1>1. PICK n : n = Count /\ n \in 0 .. Size - 1 /\ n \in Nat
    BY RecordsAre DEF InTheRing, RingSizes
  <1>2. /\ Records \in Seq(Record) /\ Len(Records) = n /\ DOMAIN Records = 1 .. n
        /\ \A k \in 1 .. n : Records[k] = ring[Slot(k)]
    BY <1>1, RecordsAre, LenProperties DEF InTheRing
  <1>3. head \in Slots /\ tail \in Slots /\ ring \in [Slots -> Record]
    BY DEF TypeOK, Record
  <1>4. /\ Places \subseteq Nat
        /\ \A j \in Places : j - tail + 1 \in 1 .. n /\ j % Size = Slot(j - tail + 1)
        /\ \A k \in 1 .. n : tail + k - 1 \in Places
    BY <1>1, PlacesAre
  <1>5. \A k \in 1 .. n : Records[k].seq = seq <=> tail + k - 1 \in hits
    <2> TAKE k \in 1 .. n
    <2>1. tail + k - 1 \in Places
      BY <1>4
    <2>2. (tail + k - 1) - tail + 1 = k
      BY <1>1, <1>3 DEF Slots, RingSizes
    <2>3. (tail + k - 1) % Size = Slot(k)
      BY <2>1, <2>2, <1>4
    <2> QED
      BY <2>1, <2>3, <1>2
  <1>6. CASE hits = {}
    <2>1. ~\E k \in DOMAIN Records : Records[k].seq = seq
      BY <1>2, <1>5, <1>6
    <2>2. answer' = [seq |-> seq, ack |-> "none"] /\ UNCHANGED <<ring, head, tail>>
      BY <1>6 DEF Acknowledge
    <2>3. Records' = Records
      BY <2>2 DEF Records
    <2> QED
      BY <2>1, <2>2, <2>3 DEF History!Answered
  <1>7. CASE hits # {}
    <2>1. \E j \in hits : \A k \in hits : j <= k
      BY <1>4, <1>7, HasLeast
    <2>2. first \in hits /\ \A k \in hits : first <= k
      BY <2>1
    <2>3. PICK f \in Places : f = first /\ f \in hits /\ \A k \in hits : f <= k
      BY <2>2
    <2>4. PICK k \in 1 .. n : k = f - tail + 1 /\ f % Size = Slot(k)
      BY <1>4
    <2>5. f \in Nat /\ tail \in Nat /\ f = tail + k - 1
      BY <2>4, <1>3, <1>4 DEF Slots, RingSizes
    <2>6. Records[k].seq = seq
      BY <2>3, <2>5, <1>5
    <2>7. \A j \in 1 .. k - 1 : Records[j].seq # seq
      <3> SUFFICES ASSUME NEW j \in 1 .. k - 1, Records[j].seq = seq PROVE FALSE
        OBVIOUS
      <3>1. j \in 1 .. n /\ tail + j - 1 < f
        BY <2>5, <1>1
      <3>2. tail + j - 1 \in hits
        BY <3>1, <1>5
      <3>3. f <= tail + j - 1
        BY <3>2, <2>3
      <3> HIDE DEF hits
      <3> QED
        BY <3>1, <3>3, <2>5
    <2>8. at = k
      <3>1. \A m \in 1 .. n : isFirst(m) => m = k
        BY <2>6, <2>7, <1>1
      <3>2. k \in DOMAIN Records /\ isFirst(k)
        BY <2>6, <2>7, <1>2
      <3> HIDE DEF isFirst
      <3>3. at \in DOMAIN Records /\ isFirst(at)
        BY <3>2, Zenon
      <3> HIDE DEF at
      <3> QED
        BY <3>1, <3>3, <1>2, Zenon
    <2>9. PICK i \in Slots : i = Slot(k) /\ i = first % Size /\ ring[i] = Records[k]
      BY <2>3, <2>4, <1>1, <1>2, RecordsAre DEF InTheRing
    <2>10. answer' = Records[k]
      BY <2>9, <1>7 DEF Acknowledge
    <2>11. \/ head >= tail /\ i + 1 = head /\ head' = 0 /\ tail' = 0
           \/ head < tail /\ i = head
           \/ /\ ~(head >= tail /\ i + 1 = head)
              /\ tail' = (i + 1) % Size /\ UNCHANGED <<ring, head>>
      <3> HIDE DEF first, hits
      <3> QED
        BY <2>9, <1>7 DEF Acknowledge, first, hits
    <2>12. ~(head < tail /\ i = head)
      BY <2>9, <1>1, <1>3 DEF Slot, Count, Slots, RingSizes
    <2> HIDE DEF hits, first, at
    <2>13. (i + 1) % Size = IF i + 1 = Size THEN 0 ELSE i + 1
      BY GoesRound DEF Slots, RingSizes
    <2>14. Count' = n - k
      <3>1. CASE head >= tail /\ i + 1 = head /\ head' = 0 /\ tail' = 0
        <4>1. k = n
          BY <3>1, <2>9, <1>1, <1>3 DEF Slot, Count, Slots, RingSizes
        <4> QED
          BY <3>1, <4>1, <1>1 DEF Count
      <3>2. CASE ~(head >= tail /\ i + 1 = head) /\ tail' = (i + 1) % Size /\ UNCHANGED <<ring, head>>
        <4>1. tail' = IF i + 1 = Size THEN 0 ELSE i + 1
          BY <3>2, <2>13
        <4> QED
          BY <3>2, <4>1, <2>9, <1>1, <1>3 DEF Slot, Count, Slots, RingSizes
      <3> QED
        BY <3>1, <3>2, <2>11, <2>12
    <2>15. PICK rest : rest = SubSeq(Records, k + 1, n)
      OBVIOUS
    <2>16. /\ rest \in Seq(Record) /\ Len(rest) = n - k
           /\ \A m \in 1 .. n - k : rest[m] = Records[k + m]
      <3>1. \A m \in k + 1 .. n : Records[m] \in Record
        BY <1>2, ElementOfSeq
      <3>2. k + 1 \in Int /\ n \in Int /\ n - (k + 1) + 1 = n - k
        BY <1>1
      <3>3. /\ SubSeq(Records, k + 1, n) \in Seq(Record)
            /\ Len(SubSeq(Records, k + 1, n)) = IF k + 1 <= n THEN n - (k + 1) + 1 ELSE 0
            /\ \A m \in 1 .. n - (k + 1) + 1 : SubSeq(Records, k + 1, n)[m] = Records[(k + 1) + m - 1]
        BY <3>1, <3>2, SubSeqProperties
      <3>4. \A m \in 1 .. n - k : (k + 1) + m - 1 = k + m
        BY <1>1
      <3>5. (IF k + 1 <= n THEN n - (k + 1) + 1 ELSE 0) = n - k
        BY <1>1
      <3> QED
        BY <2>15, <3>2, <3>3, <3>4, <3>5
    <2>17. \A m \in 1 .. n - k : rest[m] = ring'[Slot(m)']
      <3> SUFFICES ASSUME NEW m \in 1 .. n - k PROVE rest[m] = ring'[Slot(m)']
        OBVIOUS
      <3>1. ~(head >= tail /\ i + 1 = head)
        BY <2>9, <1>1, <1>3 DEF Slot, Count, Slots, RingSizes
      <3>2. tail' = (IF i + 1 = Size THEN 0 ELSE i + 1) /\ ring' = ring
        BY <3>1, <2>11, <2>12, <2>13
      <3>3. Slot(m)' = Slot(k + m)
        BY <3>2, <2>9, <1>1, <1>3 DEF Slot, Count, Slots, RingSizes
      <3>4. k + m \in 1 .. n
        BY <1>1
      <3> QED
        BY <3>2, <3>3, <3>4, <2>16, <1>2
    <2>18. Records' = rest
      BY <2>14, <2>16, <2>17, RecordsBecome
    <2> QED
      BY <2>6, <2>8, <2>10, <2>15, <2>18, <1>2 DEF History!Answered, at
  <1> QED
    BY <1>6, <1>7

LEMMA StartsEmpty ==
    ASSUME RingSizes, Init
    PROVE  TypeOK /\ Records = <<>>
  <1>1. TypeOK
    <2>1. Empty \in Record /\ 0 \in Slots /\ 0 \in AckNos
      BY DEF Empty, Record, Slots, AckNos, RingSizes
    <2>2. Unasked \in [seq : AckNos, ack : DataAcks \cup {"none"}]
      BY <2>1 DEF Unasked
    <2> QED
      BY <2>1, <2>2 DEF Init, TypeOK, Record
  <1>2. Len(Records) = 0 /\ Records \in Seq(Record)
    BY <1>1, RecordsAre DEF InTheRing, Count, Init
  <1> QED
    BY <1>1, <1>2, EmptySeq

\* Both ends of the ring stay in the array, and what an ACK-2 is answered with is a
\* record that was stored (window.cpp:83-151).
THEOREM TypeCorrect == RingSizes => (Spec => []TypeOK)
  <1> SUFFICES ASSUME RingSizes PROVE Spec => []TypeOK
    OBVIOUS
  <1>1. Init => TypeOK
    BY StartsEmpty
  <1>2. TypeOK /\ [Next]_vars => TypeOK'
    BY TypesKept
  <1> QED
    BY <1>1, <1>2, PTL DEF Spec

\* The ring of CACKWindow is the history of the ACK packets sent last, for every size
\* of the ring and wherever its two ends and the numbers wrap (window.cpp:83-151).
THEOREM ImplementsAckHistoryHolds == RingSizes => (Spec => ImplementsAckHistory)
  <1> SUFFICES ASSUME RingSizes PROVE Spec => ImplementsAckHistory
    OBVIOUS
  <1>1. Init => TypeOK /\ History!Init
    BY StartsEmpty DEF Init, History!Init, History!NoAnswer, Unasked
  <1>2. TypeOK /\ [Next]_vars => TypeOK'
    BY TypesKept
  <1>3. TypeOK /\ TypeOK' /\ [Next]_vars => [History!Next]_(History!hvars)
    <2> SUFFICES ASSUME TypeOK, TypeOK', [Next]_vars PROVE [History!Next]_(History!hvars)
      OBVIOUS
    <2>1. CASE SendAck
      BY <2>1, SendAckIsSent DEF History!Next
    <2>2. CASE ReceiveAck2
      BY <2>2, AcknowledgeIsAnswered DEF ReceiveAck2, History!Next
    <2>3. CASE UNCHANGED vars
      BY <2>3 DEF vars, History!hvars, Records
    <2> QED
      BY <2>1, <2>2, <2>3 DEF Next
  <1> QED
    BY <1>1, <1>2, <1>3, PTL DEF Spec, ImplementsAckHistory, History!Spec
=============================================================================
