-------------------------- MODULE UdtTransferProofs --------------------------
(***************************************************************************)
(* Proofs about UdtTransfer for all sizes of its buffers, of the network   *)
(* and of the counter, wherever the stream starts.                         *)
(*                                                                         *)
(* Everything is counted in blocks of the stream: Before(s) is the index   *)
(* of number s, which lemmas relate to the wrapped arithmetic of CSeqNo.   *)
(* The stream must be shorter than the threshold of the counter, or a      *)
(* packet could be late by so much that its number stands for another.     *)
(***************************************************************************)
EXTENDS UdtTransfer, WellFoundedInduction, TLAPS

\* The numbers from the one before the stream to the one behind it compare as
\* integers; where they wrap does not matter.
StreamFits == Blocks + 1 < SeqNoTH

\* A number of the stream, of the one before it or of the one behind it.
InStream(s) == s \in SeqNo /\ Before(s) \in -1 .. Blocks

-----------------------------------------------------------------------------
(* Numbers and indices.                                                    *)

\* Offset and comparison are the difference of indices (common.h:206-218).
LEMMA OffIsDistance ==
    ASSUME StreamFits, TransferAssumption, NEW s, NEW t, InStream(s), InStream(t)
    PROVE  /\ SeqOff(s, t) = Before(t) - Before(s)
           /\ SeqCmp(s, t) \in Int
           /\ SeqCmp(s, t) > 0 <=> Before(s) > Before(t)
           /\ SeqCmp(s, t) < 0 <=> Before(s) < Before(t)
           /\ Before(s) = Before(t) => s = t
  BY SeqNoAssumption
  DEF StreamFits, TransferAssumption, InStream, Before, SeqOff, SeqCmp, AbsDiff, SeqNo

\* incseq and decseq go to the next index and back (common.h:223-230).
LEMMA StepsByOne ==
    ASSUME StreamFits, TransferAssumption, NEW s, InStream(s)
    PROVE  /\ Before(s) < Blocks =>
                 InStream(IncSeq(s)) /\ Before(IncSeq(s)) = Before(s) + 1
           /\ Before(s) > -1 =>
                 InStream(DecSeq(s)) /\ Before(DecSeq(s)) = Before(s) - 1
  BY SeqNoAssumption
  DEF StreamFits, TransferAssumption, InStream, Before, SeqOff, AbsDiff, SeqNo, IncSeq, DecSeq

\* seqlen counts both ends (common.h:209).
LEMMA LenCounts ==
    ASSUME StreamFits, TransferAssumption, NEW s, NEW t, InStream(s), InStream(t),
           Before(s) <= Before(t)
    PROVE  SeqLen(s, t) = Before(t) - Before(s) + 1
  BY SeqNoAssumption
  DEF StreamFits, TransferAssumption, InStream, Before, SeqOff, AbsDiff, SeqNo, SeqLen

\* A range of numbers is an interval of indices.
LEMMA RangeIsInterval ==
    ASSUME StreamFits, TransferAssumption, NEW s, NEW t, InStream(s), InStream(t),
           Before(s) <= Before(t), NEW x
    PROVE  x \in SeqRange(s, t) <=> InStream(x) /\ Before(x) \in Before(s) .. Before(t)
  BY SeqNoAssumption
  DEF StreamFits, TransferAssumption, InStream, Before, SeqOff, AbsDiff, SeqNo, SeqRange

LEMMA FirstIsStart ==
    ASSUME StreamFits, TransferAssumption
    PROVE  InStream(FirstSeqNo) /\ Before(FirstSeqNo) = 0
  BY SeqNoAssumption
  DEF StreamFits, TransferAssumption, InStream, Before, SeqOff, AbsDiff, SeqNo

\* The first number of a loss list is the one with the least index.
LEMMA FirstIsLeast ==
    ASSUME StreamFits, TransferAssumption, NEW S, S # {}, \A s \in S : InStream(s)
    PROVE  FirstSeq(S) \in S /\ \A t \in S : Before(FirstSeq(S)) <= Before(t)
  <1> DEFINE I == {Before(s) + 1 : s \in S}
  <1>1. I \subseteq Nat /\ I # {}
    BY DEF InStream
  <1>2. PICK i \in I : \A j \in I : ~ (<<j, i>> \in OpToRel(<, Nat))
    BY <1>1, WFMin, NatLessThanWellFounded, Zenon
  <1>3. \A j \in I : ~(j < i)
    BY <1>1, <1>2, Zenon DEF OpToRel
  <1>4. PICK s \in S : i = Before(s) + 1
    OBVIOUS
  <1>5. \A t \in S : Before(s) <= Before(t)
    <2> TAKE t \in S
    <2>1. ~(Before(t) + 1 < Before(s) + 1)
      BY <1>3, <1>4
    <2> HIDE DEF I
    <2> QED
      BY <2>1 DEF InStream
  <1>6. \A t \in S : SeqCmp(s, t) <= 0
    BY <1>5, OffIsDistance DEF InStream
  <1>7. FirstSeq(S) \in S /\ \A t \in S : SeqCmp(FirstSeq(S), t) <= 0
    BY <1>6 DEF FirstSeq
  <1> QED
    BY <1>7, OffIsDistance DEF InStream

-----------------------------------------------------------------------------
(* The ring of the receiver.                                               *)

\* A position that has gone round once.
LEMMA GoesRound ==
    ASSUME TransferAssumption, NEW i \in Nat, i < 2 * RcvBufSize
    PROVE  i % RcvBufSize = IF i < RcvBufSize THEN i ELSE i - RcvBufSize
  BY Z3 DEF TransferAssumption

-----------------------------------------------------------------------------
(* The inductive invariant, in indices.  Sent, acknowledged, received: the *)
(* next index of each.                                                     *)

SentTo   == Before(sndCurrSeqNo) + 1
GivenTo  == Before(rcvCurrSeqNo) + 1

\* Everything below index i has been received.
Known(i) == i <= GivenTo /\ \A s \in rcvLost : i <= Before(s)

\* What the sender forgot, what it takes as acknowledged, what it sent and what
\* it was given are in this order.
SndNumbers ==
    /\ InStream(sndLastDataAck) /\ InStream(sndLastAck) /\ InStream(sndCurrSeqNo)
    /\ 0 <= Before(sndLastDataAck) /\ Before(sndLastDataAck) <= Before(sndLastAck)
    /\ Before(sndLastAck) <= SentTo /\ SentTo <= written
    /\ SentTo - Before(sndLastAck) <= RcvBufSize

SndBlocks ==
    /\ Len(sndBuf) = written - Before(sndLastDataAck) /\ Len(sndBuf) <= SndBufSize
    /\ \A k \in DOMAIN sndBuf : sndBuf[k] = Before(sndLastDataAck) + k
    /\ currBlock = SentTo - Before(sndLastDataAck)

SndLosses ==
    \A s \in sndLost : InStream(s) /\ Before(sndLastDataAck) <= Before(s) /\ Before(s) < SentTo

\* A retransmission that is overtaken by an acknowledgement is one whose
\* acknowledgement has yet to put the socket back on the list; a packet that is
\* about to leave was given the block of its number.
PackingRight ==
    /\ flowWindow <= RcvBufSize
    /\ packing.at = "new" => packing.window <= RcvBufSize /\ sndLost = {}
    /\ packing.at = "resend" =>
          /\ InStream(packing.seq) /\ 0 <= Before(packing.seq) /\ Before(packing.seq) < SentTo
          /\ Before(packing.seq) < Before(sndLastDataAck) => acking.at = "wake"
    /\ packing.at = "sending" =>
          /\ InStream(packing.seq) /\ 0 <= Before(packing.seq) /\ Before(packing.seq) < SentTo
          /\ packing.block = Before(packing.seq) + 1 /\ scheduled

AckingRight ==
    acking.at # "idle" => InStream(acking.ack) /\ Before(acking.ack) <= Before(sndLastAck)

\* LostAreServed, also between the two steps of an acknowledgement.
Awake ==
    ~sndBroken /\ ~scheduled /\ packing.at = "idle" /\ acking.at # "wake"
        => \A s \in sndLost : Before(s) < Before(sndLastAck)

RcvNumbers ==
    /\ InStream(rcvLastAckAck) /\ InStream(rcvLastAck) /\ InStream(rcvCurrSeqNo)
    /\ 0 <= Before(rcvLastAckAck) /\ Before(rcvLastAckAck) <= Before(rcvLastAck)
    /\ Known(Before(rcvLastAck)) /\ Known(Before(sndLastAck))
    /\ GivenTo <= SentTo
    /\ \A s \in rcvLost : InStream(s) /\ Before(s) < GivenTo

\* Where the block of index Len(read) + j is kept.
Slot(j) == (startPos + j) % RcvBufSize

Stored(i) == i < GivenTo /\ \A s \in rcvLost : Before(s) # i

RcvRing ==
    /\ Len(read) <= Before(rcvLastAck) /\ GivenTo < Len(read) + RcvBufSize
    /\ lastAckPos = Slot(Before(rcvLastAck) - Len(read))
    /\ \A j \in Slots :
          unit[Slot(j)] = IF Stored(Len(read) + j) THEN Len(read) + j + 1 ELSE Free
    /\ \A i \in DOMAIN read : read[i] = i

\* What packet p says is true, and stays true however long it is under way.
Honest(p) ==
    /\ p.type = "data" => /\ InStream(p.seq) /\ 0 <= Before(p.seq) /\ Before(p.seq) < SentTo
                          /\ \/ p.block = Before(p.seq) + 1
                             \/ /\ p.block = Overwritten
                                /\ Before(p.seq) < Before(sndLastDataAck)
    /\ p.type = "ack"  => /\ InStream(p.ack) /\ Before(p.ack) <= Before(rcvLastAck)
                          /\ p.window \in Int /\ p.window <= RcvBufSize
    /\ p.type = "lite" => InStream(p.ack) /\ Known(Before(p.ack))
    /\ p.type = "ack2" => InStream(p.ack) /\ Before(p.ack) <= Before(rcvLastAck)
    /\ p.type = "nak"  => \A s \in p.lost : InStream(s) /\ Before(s) < GivenTo

Packets == \A p \in net : Honest(p)

SndInv == SndNumbers /\ SndBlocks /\ SndLosses /\ PackingRight /\ AckingRight /\ Awake
RcvInv == RcvNumbers /\ RcvRing
IInv == TypeOK /\ SndInv /\ RcvInv /\ Packets

PackingType == [at : {"idle", "resend", "new", "sending"}, seq : SeqNo \cup {NoNum},
                window : Int, block : 0 .. Blocks]

\* The types of the two endpoints.
SndTyped ==
    /\ written \in 0 .. Blocks /\ sndBuf \in Seq(1 .. Blocks) /\ currBlock \in 0 .. Len(sndBuf)
    /\ sndLastAck \in SeqNo /\ sndLastDataAck \in SeqNo /\ sndCurrSeqNo \in SeqNo
    /\ sndLost \subseteq SeqNo /\ flowWindow \in Int /\ sndExp \in 1 .. ExpLimit + 1
    /\ sndBroken \in BOOLEAN /\ scheduled \in BOOLEAN /\ sndApp \in {"ready", "asleep"}
    /\ packing \in PackingType
    /\ acking \in [at : {"idle", "window", "wake"}, ack : SeqNo \cup {NoNum}]

RcvTyped ==
    /\ rcvExp \in 1 .. ExpLimit + 1 /\ rcvBroken \in BOOLEAN /\ rcvApp \in {"ready", "asleep"}
    /\ unit \in [Slots -> 0 .. Blocks] /\ startPos \in Slots /\ lastAckPos \in Slots
    /\ rcvLastAck \in SeqNo /\ rcvLastAckAck \in SeqNo /\ rcvCurrSeqNo \in SeqNo
    /\ rcvLost \subseteq SeqNo /\ read \in Seq(1 .. Blocks)

LEMMA TypedParts == TypeOK <=> SndTyped /\ RcvTyped
  BY DEF TypeOK, SndTyped, RcvTyped, PackingType

LEMMA InitInv == StreamFits /\ TransferAssumption /\ Init => IInv
  <1> SUFFICES ASSUME StreamFits, TransferAssumption, Init PROVE IInv
    OBVIOUS
  <1> USE TransferAssumption, SeqNoAssumption
  <1>1. InStream(FirstSeqNo) /\ Before(FirstSeqNo) = 0
    BY FirstIsStart
  <1>2. InStream(DecSeq(FirstSeqNo)) /\ Before(DecSeq(FirstSeqNo)) = -1
    BY <1>1, StepsByOne
  <1>3. TypeOK
    <2>1. 0 \in Slots
      BY DEF TransferAssumption, Slots
    <2> << >> \in Seq(1 .. Blocks) /\ Len(<< >>) = 0
      OBVIOUS
    <2> 1 \in 1 .. ExpLimit + 1 /\ 0 \in 0 .. Blocks /\ RcvBufSize \in Int
      BY DEF TransferAssumption
    <2>2. SndTyped
      <3>1. currBlock \in 0 .. Len(sndBuf)
        BY DEF Init
      <3>2. /\ packing \in PackingType
            /\ acking \in [at : {"idle", "window", "wake"}, ack : SeqNo \cup {NoNum}]
        BY DEF Init, PackingType, Free
      <3> QED
        BY <1>1, <1>2, <3>1, <3>2 DEF Init, SndTyped, InStream
    <2>3. RcvTyped
      BY <1>1, <1>2, <2>1 DEF TransferAssumption, Init, RcvTyped, InStream, Free
    <2> QED
      BY <2>2, <2>3, TypedParts
  <1>4. SndInv
    BY <1>1, <1>2 DEF TransferAssumption, Init, SndInv, SndNumbers, SndBlocks, SndLosses, PackingRight,
                      AckingRight, Awake, SentTo
  <1>5. RcvNumbers
    BY <1>1, <1>2 DEF TransferAssumption, Init, RcvNumbers, Known, SentTo, GivenTo
  <1>6. \A j \in Slots : Slot(j) = j
    <2> TAKE j \in Slots
    <2>1. j \in Nat /\ j < RcvBufSize /\ j < 2 * RcvBufSize
      BY DEF TransferAssumption, Slots
    <2>2. j % RcvBufSize = j
      BY <2>1, GoesRound
    <2> QED
      BY <2>1, <2>2 DEF Init, Slot
  <1>7. RcvRing
    BY <1>1, <1>2, <1>6 DEF TransferAssumption, Init, RcvRing, Stored, GivenTo, Slots, Free
  <1> QED
    BY <1>3, <1>4, <1>5, <1>7 DEF IInv, RcvInv, Packets, Init

-----------------------------------------------------------------------------
(* What one endpoint keeps while the other moves, and what packets keep.   *)

LEMMA SndStill ==
    ASSUME SndTyped, SndInv, UNCHANGED snd
    PROVE  SndTyped' /\ SndInv'
  <1> USE DEF snd, sndData, sndProt, sndCtl
  <1>1. SndTyped'
    BY DEF SndTyped
  <1>2. SentTo' = SentTo
    BY DEF SentTo
  <1> QED
    BY <1>1, <1>2 DEF SndInv, SndNumbers, SndBlocks, SndLosses, PackingRight, AckingRight, Awake

LEMMA RcvStill ==
    ASSUME RcvTyped, RcvInv, UNCHANGED rcv, SentTo \in Int, SentTo' \in Int, SentTo <= SentTo',
           Known(Before(sndLastAck'))
    PROVE  RcvTyped' /\ RcvInv'
  <1> USE DEF rcv, rcvData, rcvProt, rcvCtl
  <1>1. RcvTyped'
    BY DEF RcvTyped
  <1>2. GivenTo' = GivenTo /\ (\A i : Known(i)' <=> Known(i))
    BY DEF GivenTo, Known
  <1>3. RcvNumbers'
    BY <1>2 DEF RcvInv, RcvNumbers, GivenTo, InStream
  <1>4. RcvRing'
    BY <1>2 DEF RcvInv, RcvRing, Slot, Stored
  <1> QED
    BY <1>1, <1>3, <1>4 DEF RcvInv

\* A packet stays true while the numbers of both ends only grow.
LEMMA HonestKept ==
    ASSUME SentTo \in Int, SentTo' \in Int, SentTo <= SentTo',
           GivenTo \in Int, GivenTo' \in Int, GivenTo <= GivenTo',
           InStream(rcvLastAck), InStream(rcvLastAck'), Before(rcvLastAck) <= Before(rcvLastAck'),
           Before(sndLastDataAck) \in Int, Before(sndLastDataAck') \in Int,
           Before(sndLastDataAck) <= Before(sndLastDataAck'),
           \A i \in Int : Known(i) => Known(i)', NEW p, Honest(p)
    PROVE  Honest(p)'
  <1> USE DEF Honest, InStream
  <1>1. p.type = "lite" => Known(Before(p.ack))'
    BY SMT
  <1>2. p.type = "data" => \/ p.block = Before(p.seq) + 1
                           \/ /\ p.block = Overwritten
                              /\ Before(p.seq) < Before(sndLastDataAck')
    BY SMT
  <1> QED
    BY <1>1, <1>2, SMT

LEMMA JoinsHonest ==
    ASSUME NEW n, NEW m, Joins(n, m), \A p \in n : Honest(p)', Honest(m)'
    PROVE  Packets'
  BY DEF Joins, Packets

LEMMA NetShrinks ==
    ASSUME net' \subseteq net, \A p \in net : Honest(p)'
    PROVE  Packets'
  BY DEF Packets

LEMMA Indices ==
    ASSUME TransferAssumption, IInv
    PROVE  /\ Blocks \in Nat /\ RcvBufSize \in Nat /\ RcvBufSize > 2 /\ written \in Nat
           /\ Before(sndLastDataAck) \in Int /\ Before(sndLastAck) \in Int
           /\ Before(sndCurrSeqNo) \in Int /\ Before(rcvLastAckAck) \in Int
           /\ Before(rcvLastAck) \in Int /\ Before(rcvCurrSeqNo) \in Int
           /\ SentTo \in Nat /\ SentTo <= Blocks /\ GivenTo \in Nat /\ GivenTo <= Blocks
  <1>1. Blocks \in Nat /\ RcvBufSize \in Nat /\ RcvBufSize > 2
    BY DEF TransferAssumption
  <1>2. written \in 0 .. Blocks
    BY DEF IInv, TypeOK
  <1>3. /\ InStream(sndLastDataAck) /\ InStream(sndLastAck) /\ InStream(sndCurrSeqNo)
        /\ 0 <= Before(sndLastDataAck) /\ Before(sndLastDataAck) <= Before(sndLastAck)
        /\ Before(sndLastAck) <= SentTo /\ SentTo <= written
    BY DEF IInv, SndInv, SndNumbers
  <1>4. /\ InStream(rcvLastAckAck) /\ InStream(rcvLastAck) /\ InStream(rcvCurrSeqNo)
        /\ GivenTo <= SentTo
    BY DEF IInv, RcvInv, RcvNumbers
  <1>5. \A s : InStream(s) => Before(s) \in Int /\ Before(s) >= -1
    BY <1>1 DEF InStream
  <1>6. SentTo \in Nat /\ SentTo <= Blocks
    BY <1>1, <1>2, <1>3, <1>5 DEF SentTo
  <1>7. GivenTo \in Nat /\ GivenTo <= Blocks
    BY <1>1, <1>4, <1>5, <1>6 DEF GivenTo
  <1> QED
    BY <1>1, <1>2, <1>3, <1>4, <1>5, <1>6, <1>7

\* It is enough to look at the sender when the receiver stands still.
LEMMA SndMoves ==
    ASSUME TransferAssumption, IInv, UNCHANGED rcv, SndTyped', SndInv', SentTo <= SentTo',
           Before(sndLastDataAck) <= Before(sndLastDataAck'), Known(Before(sndLastAck')),
           \/ net' \subseteq net
           \/ \E n \in SUBSET net : \E m : Joins(n, m) /\ Honest(m)'
    PROVE  IInv'
  <1>1. SentTo \in Int /\ SentTo' \in Int /\ GivenTo \in Int
    BY Indices DEF SndInv, SndNumbers, SentTo, InStream
  <1>2. RcvTyped' /\ RcvInv'
    BY <1>1, RcvStill, TypedParts DEF IInv
  <1>3. GivenTo' = GivenTo /\ rcvLastAck' = rcvLastAck /\ \A i : Known(i) => Known(i)'
    BY DEF rcv, rcvProt, GivenTo, Known
  <1>4. /\ InStream(rcvLastAck) /\ Before(rcvLastAck) \in Int
        /\ Before(sndLastDataAck) \in Int /\ Before(sndLastDataAck') \in Int
    BY Indices DEF IInv, RcvInv, RcvNumbers, SndInv, SndNumbers, InStream
  <1>5. \A p \in net : Honest(p)'
    <2> TAKE p \in net
    <2>1. Honest(p)
      BY DEF IInv, Packets
    <2> QED
      BY <1>1, <1>3, <1>4, <2>1, HonestKept
  <1>6. Packets'
    BY <1>5, JoinsHonest, NetShrinks
  <1>7. TypeOK'
    BY <1>2 DEF TypeOK, SndTyped, RcvTyped, PackingType
  <1> QED
    BY <1>2, <1>6, <1>7 DEF IInv

-----------------------------------------------------------------------------
(* The steps of the sending endpoint.                                      *)

LEMMA SendKeeps ==
    ASSUME StreamFits, TransferAssumption, IInv, Send
    PROVE  IInv'
  <1> SndTyped /\ SndInv /\ RcvInv
    BY TypedParts DEF IInv
  <1>1. UNCHANGED <<net, sndProt, sndExp, sndBroken, packing, acking, rcv, currBlock>>
    BY DEF Send, sndData
  <1>2. SentTo' = SentTo /\ SentTo \in Int
    BY <1>1, Indices DEF sndProt, SentTo
  <1>3. Known(Before(sndLastAck')) /\ Before(sndLastDataAck) <= Before(sndLastDataAck')
    BY <1>1, Indices DEF sndProt, RcvInv, RcvNumbers
  <1>4. /\ written' \in {written, written + 1} /\ written' \in 0 .. Blocks
        /\ sndBuf' \in Seq(1 .. Blocks) /\ Len(sndBuf') = Len(sndBuf) + written' - written
        /\ \A k \in DOMAIN sndBuf' :
              sndBuf'[k] = IF k <= Len(sndBuf) THEN sndBuf[k] ELSE written'
        /\ Len(sndBuf') <= SndBufSize
    <2>0. Len(sndBuf) <= SndBufSize /\ SndBufSize \in Nat /\ Len(sndBuf) \in Nat
      BY DEF SndInv, SndBlocks, SndTyped, TransferAssumption
    <2>1. written \in 0 .. Blocks /\ sndBuf \in Seq(1 .. Blocks) /\ Blocks \in Nat
      BY Indices DEF SndTyped
    <2>2. CASE Len(sndBuf) >= SndBufSize
      <3>1. UNCHANGED <<written, sndBuf>>
        BY <2>2 DEF Send, sndData
      <3> QED
        BY <2>0, <2>1, <3>1
    <2>3. CASE ~(Len(sndBuf) >= SndBufSize)
      <3>1. written < Blocks /\ written' = written + 1 /\ sndBuf' = Append(sndBuf, written + 1)
        BY <2>3 DEF Send
      <3>2. written + 1 \in 1 .. Blocks
        BY <2>1, <3>1
      <3> QED
        BY <2>0, <2>1, <2>3, <3>1, <3>2
    <2> QED
      BY <2>2, <2>3
  <1>5. sndApp' \in {"ready", "asleep"} /\ scheduled' \in BOOLEAN /\ (scheduled => scheduled')
    BY DEF Send, SndTyped
  <1>6. SndTyped'
    BY <1>1, <1>4, <1>5 DEF SndTyped, sndProt
  <1>7. SndNumbers' /\ SndLosses' /\ PackingRight' /\ AckingRight' /\ Awake'
    <2>1. SndNumbers'
      BY <1>1, <1>2, <1>4, Indices DEF SndInv, SndNumbers, sndProt
    <2>2. SndLosses' /\ PackingRight' /\ AckingRight' /\ Awake'
      BY <1>1, <1>2, <1>5 DEF SndInv, SndLosses, PackingRight, AckingRight, Awake, sndProt
    <2> QED
      BY <2>1, <2>2
  <1>8. SndBlocks'
    <2>1. Len(sndBuf) = written - Before(sndLastDataAck) /\ Len(sndBuf) \in Nat
      BY DEF SndInv, SndBlocks, SndTyped
    <2>2. \A k \in DOMAIN sndBuf' : k \in 1 .. Len(sndBuf')
      BY <1>4
    <2>3. \A k \in DOMAIN sndBuf' : k <= Len(sndBuf) => k \in DOMAIN sndBuf
      BY <1>4, <2>2 DEF SndTyped
    <2>4. \A k \in DOMAIN sndBuf' : sndBuf'[k] = Before(sndLastDataAck) + k
      <3> TAKE k \in DOMAIN sndBuf'
      <3>1. CASE k <= Len(sndBuf)
        BY <1>4, <2>3, <3>1 DEF SndInv, SndBlocks
      <3>2. CASE ~(k <= Len(sndBuf))
        <4>1. k \in Nat /\ k <= Len(sndBuf') /\ sndBuf'[k] = written'
          BY <1>4, <2>2, <3>2
        <4>2. /\ written' = written \/ written' = written + 1
              /\ Len(sndBuf') = Len(sndBuf) + written' - written /\ written \in Nat
              /\ Before(sndLastDataAck) \in Int
          BY <1>4, Indices
        <4> QED
          BY <2>1, <3>2, <4>1, <4>2
      <3> QED
        BY <3>1, <3>2
    <2>5. Len(sndBuf') = written' - Before(sndLastDataAck')
      <3>1. /\ Len(sndBuf') = Len(sndBuf) + written' - written /\ sndLastDataAck' = sndLastDataAck
            /\ written \in Int /\ written' \in Int /\ Before(sndLastDataAck) \in Int
        BY <1>1, <1>4, Indices DEF sndProt
      <3> QED
        BY <2>1, <3>1
    <2>6. currBlock' = SentTo' - Before(sndLastDataAck')
      BY <1>1, <1>2 DEF SndInv, SndBlocks, sndProt
    <2> QED
      BY <1>1, <1>4, <2>4, <2>5, <2>6 DEF SndBlocks, sndProt
  <1> QED
    BY <1>1, <1>2, <1>3, <1>6, <1>7, <1>8, SndMoves DEF SndInv

LEMMA PackStartKeeps ==
    ASSUME StreamFits, TransferAssumption, IInv, PackStart
    PROVE  IInv'
  <1> SndTyped /\ SndInv /\ RcvInv
    BY TypedParts DEF IInv
  <1>1. UNCHANGED <<net, sndData, sndLastAck, sndLastDataAck, sndCurrSeqNo, flowWindow, sndExp,
                    sndBroken, sndApp, acking, rcv>>
    BY DEF PackStart
  <1>2. SentTo' = SentTo /\ SentTo \in Int
    BY <1>1, Indices DEF SentTo
  <1>3. Known(Before(sndLastAck')) /\ Before(sndLastDataAck) <= Before(sndLastDataAck')
    BY <1>1, Indices DEF RcvInv, RcvNumbers
  <1>4. sndLost # {} => FirstSeq(sndLost) \in sndLost
    BY FirstIsLeast DEF SndInv, SndLosses
  <1>5. sndLost' \subseteq sndLost
    BY DEF PackStart
  <1>6. SndTyped'
    <2>1. packing' \in PackingType
      <3>1. 0 \in 0 .. Blocks
        BY Indices
      <3> QED
        BY <1>4, <3>1 DEF PackStart, SndTyped, PackingType, Free
    <2>2. scheduled' \in BOOLEAN
      BY DEF PackStart
    <2> QED
      BY <1>1, <1>5, <2>1, <2>2 DEF SndTyped, sndData
  <1>7. SndNumbers' /\ SndBlocks' /\ SndLosses' /\ AckingRight'
    BY <1>1, <1>2, <1>5 DEF SndInv, SndNumbers, SndBlocks, SndLosses, AckingRight, sndData
  <1>8. PackingRight' /\ Awake'
    <2>1. CASE sndBroken
      BY <1>1, <1>2, <2>1 DEF PackStart, SndInv, PackingRight, Awake
    <2>2. CASE ~sndBroken /\ sndLost # {}
      BY <1>1, <1>2, <1>4, <2>2, Indices
      DEF PackStart, SndInv, SndNumbers, SndLosses, PackingRight, Awake, InStream
    <2>3. CASE ~sndBroken /\ sndLost = {}
      BY <1>1, <1>2, <2>3 DEF PackStart, SndInv, PackingRight, Awake
    <2> QED
      BY <2>1, <2>2, <2>3
  <1> QED
    BY <1>1, <1>2, <1>3, <1>6, <1>7, <1>8, SndMoves DEF SndInv

\* What PackResend, PackNew and SendPacket leave alone: the worker has nothing in hand
\* afterwards, or a packet whose block is that of its number.
LEMMA PackEndsKeep ==
    ASSUME Blocks \in Nat, SndTyped, SndInv, scheduled' \in BOOLEAN,
           UNCHANGED <<written, sndBuf, sndLastAck, sndLastDataAck, flowWindow, sndLost, sndExp,
                       sndBroken, sndApp, acking>>,
           sndCurrSeqNo' \in SeqNo, currBlock' \in 0 .. Len(sndBuf), NEW s, NEW b,
           \/ packing' = Idle
           \/ /\ Packed(s, b) /\ InStream(s) /\ 0 <= Before(s) /\ Before(s) < SentTo'
              /\ b = Before(s) + 1 /\ b \in 0 .. Blocks
    PROVE  SndTyped' /\ PackingRight' /\ AckingRight'
  <1>1. packing' \in PackingType
    <2>1. 0 \in 0 .. Blocks
      OBVIOUS
    <2> QED
      BY <2>1 DEF Idle, Packed, PackingType, Free, InStream
  <1>2. SndTyped'
    BY <1>1 DEF SndTyped
  <1>3. \/ packing'.at = "idle"
        \/ /\ packing'.at = "sending" /\ packing'.seq = s /\ packing'.block = b /\ scheduled' = TRUE
           /\ InStream(s) /\ 0 <= Before(s) /\ Before(s) < SentTo' /\ b = Before(s) + 1
    BY DEF Idle, Packed
  <1>4. flowWindow' <= RcvBufSize
    BY DEF SndInv, PackingRight
  <1>5. PackingRight'
    BY <1>3, <1>4 DEF PackingRight, InStream
  <1> QED
    BY <1>2, <1>5 DEF SndInv, AckingRight

LEMMA PackResendKeeps ==
    ASSUME StreamFits, TransferAssumption, IInv, PackResend
    PROVE  IInv'
  <1> SndTyped /\ SndInv /\ RcvInv
    BY TypedParts DEF IInv
  <1> DEFINE offset == SeqOff(sndLastDataAck, packing.seq)
  <1>1. UNCHANGED <<net, sndData, sndProt, sndExp, sndBroken, sndApp, acking, rcv>>
    BY DEF PackResend
  <1>2. SentTo' = SentTo /\ SentTo \in Int
    BY <1>1, Indices DEF SentTo, sndProt
  <1>3. Known(Before(sndLastAck')) /\ Before(sndLastDataAck) <= Before(sndLastDataAck')
    BY <1>1, Indices DEF RcvInv, RcvNumbers, sndProt
  <1>4. /\ InStream(packing.seq) /\ 0 <= Before(packing.seq) /\ Before(packing.seq) < SentTo
        /\ Before(packing.seq) < Before(sndLastDataAck) => acking.at = "wake"
    BY DEF PackResend, SndInv, PackingRight
  <1>5. offset = Before(packing.seq) - Before(sndLastDataAck) /\ Before(packing.seq) \in Int
    BY <1>4, OffIsDistance DEF SndInv, SndNumbers, InStream
  <1>6. SndNumbers' /\ SndBlocks' /\ SndLosses'
    BY <1>1, <1>2 DEF SndInv, SndNumbers, SndBlocks, SndLosses, sndData, sndProt
  <1>7. CASE offset < 0
    <2>1. packing' = Idle /\ scheduled' = scheduled
      BY <1>7 DEF PackResend
    <2>2. acking.at = "wake"
      BY <1>4, <1>5, <1>7, Indices
    <2>3. Awake'
      BY <1>1, <2>2 DEF Awake
    <2>4. SndTyped' /\ PackingRight' /\ AckingRight'
      BY <1>1, <2>1, PackEndsKeep, Indices DEF sndData, sndProt, SndTyped
    <2> QED
      BY <1>1, <1>2, <1>3, <1>6, <2>3, <2>4, SndMoves DEF SndInv
  <1>8. CASE ~(offset < 0)
    <2>1. Packed(packing.seq, sndBuf[offset + 1])
      BY <1>8 DEF PackResend
    <2>2. scheduled' = TRUE /\ Awake'
      BY <2>1 DEF Packed, Awake
    <2>3. offset + 1 \in DOMAIN sndBuf
      <3>1. Len(sndBuf) = written - Before(sndLastDataAck) /\ SentTo <= written
        BY DEF SndInv, SndBlocks, SndNumbers
      <3>2. offset \in Int /\ offset >= 0 /\ offset < Len(sndBuf)
        <4>1. Before(sndLastDataAck) \in Int /\ SentTo \in Int /\ written \in Int
          BY Indices
        <4> HIDE DEF offset
        <4> QED
          BY <1>4, <1>5, <1>8, <3>1, <4>1
      <3>3. sndBuf \in Seq(1 .. Blocks)
        BY DEF SndTyped
      <3> HIDE DEF offset
      <3> QED
        BY <3>2, <3>3
    <2>4. sndBuf[offset + 1] = Before(packing.seq) + 1
      <3>1. sndBuf[offset + 1] = Before(sndLastDataAck) + (offset + 1)
        BY <2>3 DEF SndInv, SndBlocks
      <3>2. Before(sndLastDataAck) \in Int
        BY Indices
      <3> HIDE DEF offset
      <3> QED
        BY <1>5, <3>1, <3>2
    <2>5. PICK s, b : s = packing.seq /\ b = sndBuf[offset + 1]
      OBVIOUS
    <2>6. Packed(s, b)
      BY <2>1, <2>5
    <2>7. /\ InStream(s) /\ 0 <= Before(s) /\ Before(s) < SentTo' /\ b = Before(s) + 1
          /\ b \in 0 .. Blocks
      BY <1>2, <1>4, <1>5, <2>4, <2>5, Indices
    <2>8. SndTyped' /\ PackingRight' /\ AckingRight'
      BY <1>1, <2>2, <2>6, <2>7, PackEndsKeep, Indices DEF sndData, sndProt, SndTyped
    <2> QED
      BY <1>1, <1>2, <1>3, <1>6, <2>2, <2>8, SndMoves DEF SndInv
  <1> QED
    BY <1>7, <1>8

LEMMA PackNewKeeps ==
    ASSUME StreamFits, TransferAssumption, IInv, PackNew
    PROVE  IInv'
  <1> SndTyped /\ SndInv /\ RcvInv
    BY TypedParts DEF IInv
  <1> DEFINE room == /\ packing.window >= SeqLen(sndLastAck, IncSeq(sndCurrSeqNo))
                     /\ currBlock < Len(sndBuf)
  <1>1. /\ UNCHANGED <<net, written, sndBuf, sndLastAck, sndLastDataAck, flowWindow, sndLost,
                       sndExp, sndBroken, sndApp, acking, rcv>>
        /\ packing.at = "new"
    BY DEF PackNew
  <1>2. sndLost = {} /\ sndLost' = {} /\ packing.window <= RcvBufSize /\ packing.window \in Int
    BY <1>1 DEF SndInv, PackingRight, SndTyped, PackingType
  <1>3. Known(Before(sndLastAck')) /\ Before(sndLastDataAck) <= Before(sndLastDataAck')
    BY <1>1, Indices DEF RcvInv, RcvNumbers
  <1>4. SndLosses' /\ Awake'
    BY <1>2 DEF SndLosses, Awake
  <1>5. CASE ~room
    <2>1. UNCHANGED <<scheduled, sndCurrSeqNo, currBlock>> /\ packing' = Idle
      BY <1>5 DEF PackNew
    <2>2. SentTo' = SentTo /\ SentTo \in Int
      BY <2>1, Indices DEF SentTo
    <2>3. SndTyped' /\ PackingRight' /\ AckingRight'
      BY <1>1, <2>1, PackEndsKeep, Indices DEF SndTyped
    <2>4. SndNumbers' /\ SndBlocks'
      BY <1>1, <2>1, <2>2 DEF SndInv, SndNumbers, SndBlocks
    <2> QED
      BY <1>1, <1>3, <1>4, <2>1, <2>2, <2>3, <2>4, SndMoves DEF SndInv
  <1>6. CASE room
    <2>1. /\ sndCurrSeqNo' = IncSeq(sndCurrSeqNo) /\ currBlock' = currBlock + 1
          /\ Packed(sndCurrSeqNo', sndBuf[currBlock + 1])
      BY <1>6 DEF PackNew
    <2>2. SentTo < written /\ currBlock + 1 \in DOMAIN sndBuf /\ currBlock + 1 \in 0 .. Len(sndBuf)
      <3>1. /\ Len(sndBuf) = written - Before(sndLastDataAck)
            /\ currBlock = SentTo - Before(sndLastDataAck)
        BY DEF SndInv, SndBlocks
      <3>2. currBlock < Len(sndBuf) /\ currBlock \in Nat /\ Len(sndBuf) \in Nat
            /\ DOMAIN sndBuf = 1 .. Len(sndBuf)
        BY <1>6 DEF SndTyped
      <3>3. SentTo < written
        <4>1. Before(sndLastDataAck) \in Int /\ SentTo \in Int /\ written \in Int
          BY Indices
        <4> QED
          BY <3>1, <3>2, <4>1
      <3> QED
        BY <3>2, <3>3
    <2>3. InStream(sndCurrSeqNo') /\ Before(sndCurrSeqNo') = SentTo
      <3>1. Before(sndCurrSeqNo) < Blocks
        <4>1. written \in 0 .. Blocks /\ Before(sndCurrSeqNo) \in Int /\ Blocks \in Int
          BY Indices DEF SndTyped
        <4> QED
          BY <2>2, <4>1 DEF SentTo
      <3> QED
        BY <2>1, <3>1, StepsByOne DEF SndInv, SndNumbers, SentTo
    <2>4. SentTo' = SentTo + 1 /\ SentTo \in Nat
      BY <2>3, Indices DEF SentTo
    <2>5. SeqLen(sndLastAck, sndCurrSeqNo') = SentTo - Before(sndLastAck) + 1
      BY <2>3, LenCounts, Indices DEF SndInv, SndNumbers
    <2>6. SentTo + 1 - Before(sndLastAck) <= RcvBufSize
      <3>1. Before(sndLastAck) \in Int /\ RcvBufSize \in Int
        BY Indices
      <3>2. packing.window >= SeqLen(sndLastAck, sndCurrSeqNo')
        BY <1>6, <2>1
      <3> QED
        BY <1>2, <2>4, <2>5, <3>1, <3>2
    <2>7. SndTyped' /\ PackingRight' /\ AckingRight'
      <3>1. sndBuf[currBlock + 1] = SentTo + 1
        <4>1. /\ sndBuf[currBlock + 1] = Before(sndLastDataAck) + (currBlock + 1)
              /\ currBlock = SentTo - Before(sndLastDataAck)
          BY <2>2 DEF SndInv, SndBlocks
        <4>2. Before(sndLastDataAck) \in Int
          BY Indices
        <4> QED
          BY <2>4, <4>1, <4>2
      <3>2. PICK s, b : s = sndCurrSeqNo' /\ b = sndBuf[currBlock + 1]
        OBVIOUS
      <3>3. Packed(s, b) /\ scheduled' \in BOOLEAN
        BY <2>1, <3>2 DEF Packed
      <3>4. /\ InStream(s) /\ 0 <= Before(s) /\ Before(s) < SentTo' /\ b = Before(s) + 1
            /\ b \in 0 .. Blocks
        <4>1. written \in 0 .. Blocks
          BY DEF SndTyped
        <4> QED
          BY <2>2, <2>3, <2>4, <3>1, <3>2, <4>1, Indices
      <3> QED
        BY <1>1, <2>1, <2>2, <2>3, <3>3, <3>4, PackEndsKeep, Indices DEF InStream
    <2>8. SndNumbers' /\ SndBlocks'
      <3>1. SndNumbers'
        <4>1. Before(sndLastAck) \in Int /\ written \in Int
          BY Indices
        <4>2. Before(sndLastAck) <= SentTo'
          BY <2>4, <4>1 DEF SndInv, SndNumbers
        <4>3. SentTo' <= written' /\ SentTo' - Before(sndLastAck) <= RcvBufSize
          BY <1>1, <2>2, <2>4, <2>6, <4>1
        <4> QED
          BY <1>1, <2>3, <4>2, <4>3 DEF SndInv, SndNumbers
      <3>2. currBlock' = SentTo' - Before(sndLastDataAck')
        <4>1. Before(sndLastDataAck) \in Int /\ currBlock = SentTo - Before(sndLastDataAck)
          BY Indices DEF SndInv, SndBlocks
        <4> QED
          BY <1>1, <2>1, <2>4, <4>1
      <3> QED
        BY <1>1, <3>1, <3>2 DEF SndInv, SndBlocks
    <2> QED
      BY <1>1, <1>3, <1>4, <2>4, <2>7, <2>8, SndMoves DEF SndInv
  <1> QED
    BY <1>5, <1>6

\* What leaves is the block of its number, or was overwritten after it was acknowledged:
\* the ring has more blocks than may wait.
LEMMA SendPacketKeeps ==
    ASSUME StreamFits, TransferAssumption, IInv, SendPacket
    PROVE  IInv'
  <1> SndTyped /\ SndInv /\ RcvInv
    BY TypedParts DEF IInv
  <1>1. /\ UNCHANGED <<sndData, sndProt, sndExp, sndBroken, scheduled, sndApp, acking, rcv>>
        /\ packing' = Idle /\ packing.at = "sending"
        /\ Joins(net, DataPkt(packing.seq, InMemory(packing.block)))
    BY DEF SendPacket, Sends
  <1>2. SentTo' = SentTo /\ SentTo \in Int
    BY <1>1, Indices DEF SentTo, sndProt
  <1>3. Known(Before(sndLastAck')) /\ Before(sndLastDataAck) <= Before(sndLastDataAck')
    BY <1>1, Indices DEF RcvInv, RcvNumbers, sndProt
  <1>4. /\ InStream(packing.seq) /\ 0 <= Before(packing.seq) /\ Before(packing.seq) < SentTo
        /\ packing.block = Before(packing.seq) + 1 /\ scheduled
    BY <1>1 DEF SndInv, PackingRight
  <1>5. SndTyped' /\ PackingRight' /\ AckingRight'
    BY <1>1, PackEndsKeep, Indices DEF sndData, sndProt, SndTyped
  <1>6. SndNumbers' /\ SndBlocks' /\ SndLosses'
    BY <1>1, <1>2 DEF SndInv, SndNumbers, SndBlocks, SndLosses, sndData, sndProt
  <1>7. Awake'
    BY <1>1, <1>4 DEF Awake
  <1>8. PICK m : m = DataPkt(packing.seq, InMemory(packing.block))
    OBVIOUS
  <1>9. /\ m.type = "data" /\ m.seq = packing.seq
        /\ \/ m.block = Before(packing.seq) + 1
           \/ m.block = Overwritten /\ Before(packing.seq) < Before(sndLastDataAck)
    <2>1. m.type = "data" /\ m.seq = packing.seq /\ m.block = InMemory(packing.block)
      BY <1>8 DEF DataPkt
    <2>2. CASE written < packing.block + SndRingSize
      BY <1>4, <2>1, <2>2 DEF InMemory
    <2>3. CASE ~(written < packing.block + SndRingSize)
      <3>1. m.block = Overwritten
        BY <2>1, <2>3 DEF InMemory
      <3>2. /\ written - Before(sndLastDataAck) <= SndBufSize /\ SndBufSize < SndRingSize
            /\ SndBufSize \in Nat /\ SndRingSize \in Nat
        BY DEF SndInv, SndBlocks, TransferAssumption
      <3>3. Before(packing.seq) \in Int /\ Before(sndLastDataAck) \in Int /\ written \in Int
        BY <1>4, Indices DEF InStream
      <3>4. ~(written < Before(packing.seq) + 1 + SndRingSize)
        BY <1>4, <2>3
      <3>5. Before(packing.seq) < Before(sndLastDataAck)
        BY <3>2, <3>3, <3>4
      <3> QED
        BY <2>1, <3>1, <3>5
    <2> QED
      BY <2>2, <2>3
  <1>10. Honest(m)'
    <2>1. sndLastDataAck' = sndLastDataAck
      BY <1>1 DEF sndProt
    <2> QED
      BY <1>2, <1>4, <1>9, <2>1 DEF Honest
  <1>11. \E n \in SUBSET net : \E k : Joins(n, k) /\ Honest(k)'
    BY <1>1, <1>8, <1>10
  <1> QED
    BY <1>1, <1>2, <1>3, <1>5, <1>6, <1>7, <1>11, SndMoves DEF SndInv

LEMMA ReceiveLightAckKeeps ==
    ASSUME StreamFits, TransferAssumption, IInv, NEW p \in net, ReceiveLightAck(p)
    PROVE  IInv'
  <1> SndTyped /\ SndInv /\ RcvInv
    BY TypedParts DEF IInv
  <1>1. /\ UNCHANGED <<sndData, sndLastDataAck, sndCurrSeqNo, sndLost, sndBroken, scheduled, sndApp,
                       packing, acking, rcv>>
        /\ net' \subseteq net /\ sndExp' = 1 /\ p.type = "lite"
    BY DEF ReceiveLightAck
  <1>2. InStream(p.ack) /\ Known(Before(p.ack)) /\ Before(p.ack) \in Int /\ Before(p.ack) <= SentTo
    <2>1. InStream(p.ack) /\ Known(Before(p.ack))
      BY <1>1 DEF IInv, Packets, Honest
    <2>2. Before(p.ack) \in Int /\ Before(p.ack) <= GivenTo /\ GivenTo <= SentTo
      BY <2>1 DEF InStream, Known, RcvInv, RcvNumbers
    <2> QED
      BY <2>1, <2>2, Indices
  <1>3. SentTo' = SentTo /\ SentTo \in Int
    BY <1>1, Indices DEF SentTo
  <1>4. /\ InStream(sndLastAck') /\ Known(Before(sndLastAck')) /\ Before(sndLastAck') \in Int
        /\ Before(sndLastAck) <= Before(sndLastAck') /\ Before(sndLastAck') <= SentTo
        /\ flowWindow' \in Int /\ flowWindow' <= flowWindow
    <2>1. InStream(sndLastAck) /\ flowWindow \in Int /\ Known(Before(sndLastAck))
      BY DEF SndInv, SndNumbers, SndTyped, RcvInv, RcvNumbers
    <2>2. CASE SeqCmp(p.ack, sndLastAck) >= 0
      <3>1. sndLastAck' = p.ack /\ flowWindow' = flowWindow - SeqOff(sndLastAck, p.ack)
        BY <2>2 DEF ReceiveLightAck
      <3>2. /\ Before(sndLastAck) <= Before(p.ack)
            /\ SeqOff(sndLastAck, p.ack) = Before(p.ack) - Before(sndLastAck)
        BY <1>2, <2>1, <2>2, OffIsDistance, Indices
      <3> QED
        BY <1>2, <2>1, <3>1, <3>2, Indices
    <2>3. CASE ~(SeqCmp(p.ack, sndLastAck) >= 0)
      <3>1. UNCHANGED <<flowWindow, sndLastAck>>
        BY <2>3 DEF ReceiveLightAck
      <3> QED
        BY <2>1, <3>1, Indices DEF SndInv, SndNumbers
    <2> QED
      BY <2>2, <2>3
  <1>5. SndTyped'
    BY <1>1, <1>4 DEF SndTyped, sndData, InStream, TransferAssumption
  <1>6. SndNumbers'
    BY <1>1, <1>3, <1>4, Indices DEF SndInv, SndNumbers, sndData
  <1>7. SndBlocks' /\ SndLosses'
    BY <1>1, <1>3 DEF SndInv, SndBlocks, SndLosses, sndData
  <1>8. PackingRight' /\ AckingRight'
    <2>1. PackingRight'
      BY <1>1, <1>3, <1>4, Indices DEF SndInv, PackingRight, SndTyped
    <2>2. AckingRight'
      BY <1>1, <1>4, Indices DEF SndInv, AckingRight, InStream
    <2> QED
      BY <2>1, <2>2
  <1>9. Awake'
    BY <1>1, <1>4, Indices DEF SndInv, SndLosses, Awake, InStream
  <1>17. Before(sndLastDataAck) <= Before(sndLastDataAck')
    BY <1>1, Indices
  <1> QED
    BY <1>1, <1>3, <1>4, <1>5, <1>6, <1>7, <1>8, <1>9, <1>17, SndMoves DEF SndInv

LEMMA ReceiveAckKeeps ==
    ASSUME StreamFits, TransferAssumption, IInv, NEW p \in net, ReceiveAck(p)
    PROVE  IInv'
  <1> SndTyped /\ SndInv /\ RcvInv
    BY TypedParts DEF IInv
  <1>1. /\ UNCHANGED <<sndData, sndLastDataAck, sndCurrSeqNo, sndLost, scheduled, sndApp, packing, rcv>>
        /\ Joins(net \ {p}, Ack2Pkt(p.ack)) /\ sndExp' = 1 /\ p.type = "ack"
        /\ ~sndBroken /\ acking.at = "idle"
    BY DEF ReceiveAck, Answers, Hears
  <1>2. /\ InStream(p.ack) /\ Before(p.ack) <= Before(rcvLastAck) /\ Before(p.ack) \in Int
        /\ p.window \in Int /\ p.window <= RcvBufSize
    BY <1>1 DEF IInv, Packets, Honest, InStream
  <1>3. SentTo' = SentTo /\ SentTo \in Int
    BY <1>1, Indices DEF SentTo
  <1>4. /\ Known(Before(rcvLastAck)) /\ GivenTo <= SentTo /\ Known(Before(sndLastAck))
        /\ \A s \in rcvLost : Before(s) \in Int
    BY DEF RcvInv, RcvNumbers, InStream
  <1>5. Known(Before(p.ack)) /\ Before(p.ack) <= SentTo
    BY <1>2, <1>4, Indices DEF Known
  <1>6. ~(SeqCmp(p.ack, IncSeq(sndCurrSeqNo)) > 0)
    <2>1. InStream(sndCurrSeqNo)
      BY DEF SndInv, SndNumbers
    <2>2. CASE Before(sndCurrSeqNo) < Blocks
      <3>1. InStream(IncSeq(sndCurrSeqNo)) /\ Before(IncSeq(sndCurrSeqNo)) = SentTo
        BY <2>1, <2>2, StepsByOne DEF SentTo
      <3> QED
        BY <1>2, <1>5, <3>1, OffIsDistance, Indices
    <2>3. Before(sndCurrSeqNo) < Blocks
      BY Indices DEF SentTo
    <2> QED
      BY <2>2, <2>3
  <1>7. /\ sndBroken' = FALSE /\ acking' = [at |-> "window", ack |-> p.ack]
        /\ flowWindow' = IF SeqCmp(p.ack, sndLastAck) >= 0 THEN p.window ELSE flowWindow
        /\ sndLastAck' = IF SeqCmp(p.ack, sndLastAck) >= 0 THEN p.ack ELSE sndLastAck
    <2> DEFINE attack == SeqCmp(p.ack, IncSeq(sndCurrSeqNo)) > 0
    <2>1. attack = FALSE
      BY <1>6
    <2>2. /\ sndBroken' = attack /\ acking' = IF attack THEN acking ELSE [at |-> "window", ack |-> p.ack]
          /\ flowWindow' = IF SeqCmp(p.ack, sndLastAck) >= 0 /\ ~attack THEN p.window ELSE flowWindow
          /\ sndLastAck' = IF SeqCmp(p.ack, sndLastAck) >= 0 /\ ~attack THEN p.ack ELSE sndLastAck
      BY DEF ReceiveAck
    <2> HIDE DEF attack
    <2> QED
      BY <2>1, <2>2
  <1>8. /\ InStream(sndLastAck') /\ Known(Before(sndLastAck')) /\ Before(sndLastAck') \in Int
        /\ Before(sndLastAck) <= Before(sndLastAck') /\ Before(sndLastAck') <= SentTo
        /\ Before(p.ack) <= Before(sndLastAck')
        /\ flowWindow' \in Int /\ flowWindow' <= RcvBufSize
    <2>1. /\ InStream(sndLastAck) /\ flowWindow \in Int /\ flowWindow <= RcvBufSize
          /\ Before(sndLastAck) <= SentTo
      BY DEF SndInv, SndNumbers, SndTyped, PackingRight
    <2>2. CASE SeqCmp(p.ack, sndLastAck) >= 0
      <3>1. Before(sndLastAck) <= Before(p.ack)
        BY <1>2, <2>1, <2>2, OffIsDistance, Indices
      <3> QED
        BY <1>2, <1>5, <1>7, <2>2, <3>1, Indices
    <2>3. CASE ~(SeqCmp(p.ack, sndLastAck) >= 0)
      <3>1. Before(p.ack) <= Before(sndLastAck)
        BY <1>2, <2>1, <2>3, OffIsDistance, Indices
      <3> QED
        BY <1>4, <1>7, <2>1, <2>3, <3>1, Indices
    <2> QED
      BY <2>2, <2>3
  <1>9. SndTyped'
    <2>1. acking' \in [at : {"idle", "window", "wake"}, ack : SeqNo \cup {NoNum}]
      BY <1>2, <1>7 DEF InStream
    <2>2. sndExp' \in 1 .. ExpLimit + 1 /\ sndBroken' \in BOOLEAN
      <3>1. sndExp' \in 1 .. ExpLimit + 1
        BY <1>1 DEF TransferAssumption
      <3>2. sndBroken' \in BOOLEAN
        BY <1>7
      <3> QED
        BY <3>1, <3>2
    <2>3. sndLastAck' \in SeqNo /\ flowWindow' \in Int
      BY <1>8 DEF InStream
    <2> QED
      BY <1>1, <2>1, <2>2, <2>3 DEF SndTyped, sndData
  <1>10. SndNumbers'
    BY <1>1, <1>3, <1>8, Indices DEF SndInv, SndNumbers, sndData
  <1>11. SndBlocks' /\ SndLosses'
    BY <1>1, <1>3 DEF SndInv, SndBlocks, SndLosses, sndData
  <1>12. PackingRight' /\ AckingRight'
    BY <1>1, <1>2, <1>3, <1>7, <1>8 DEF SndInv, PackingRight, AckingRight
  <1>13. Awake'
    BY <1>1, <1>8, Indices DEF SndInv, SndLosses, Awake, InStream
  <1>14. PICK m : m = Ack2Pkt(p.ack)
    OBVIOUS
  <1>15. Honest(m)'
    <2>1. m.type = "ack2" /\ m.ack = p.ack
      BY <1>14 DEF Ack2Pkt
    <2> QED
      BY <1>1, <1>2, <2>1 DEF Honest, rcv, rcvProt
  <1>16. \E n \in SUBSET net : \E k : Joins(n, k) /\ Honest(k)'
    BY <1>1, <1>14, <1>15
  <1>17. Before(sndLastDataAck) <= Before(sndLastDataAck')
    BY <1>1, Indices
  <1> QED
    BY <1>1, <1>3, <1>8, <1>9, <1>10, <1>11, <1>12, <1>13, <1>16, <1>17, SndMoves DEF SndInv

LEMMA AckDataKeeps ==
    ASSUME StreamFits, TransferAssumption, IInv, AckData
    PROVE  IInv'
  <1> SndTyped /\ SndInv /\ RcvInv
    BY TypedParts DEF IInv
  <1> DEFINE offset == SeqOff(sndLastDataAck, acking.ack)
  <1>1. /\ UNCHANGED <<net, written, sndLastAck, sndCurrSeqNo, flowWindow, sndExp, sndBroken,
                       scheduled, sndApp, packing, rcv>>
        /\ acking.at = "window"
    BY DEF AckData
  <1>2. SentTo' = SentTo /\ SentTo \in Int
    BY <1>1, Indices DEF SentTo
  <1>3. Known(Before(sndLastAck'))
    BY <1>1 DEF RcvInv, RcvNumbers
  <1>4. /\ InStream(acking.ack) /\ Before(acking.ack) <= Before(sndLastAck)
        /\ Before(acking.ack) \in Int
    BY <1>1 DEF SndInv, AckingRight, InStream
  <1>5. offset = Before(acking.ack) - Before(sndLastDataAck) /\ offset \in Int
    BY <1>4, OffIsDistance, Indices DEF SndInv, SndNumbers
  <1>6. CASE offset <= 0
    <2>1. /\ acking' = [at |-> "idle", ack |-> NoNum]
          /\ UNCHANGED <<sndBuf, currBlock, sndLastDataAck, sndLost>>
      BY <1>6 DEF AckData
    <2>2. SndTyped'
      <3>1. acking' \in [at : {"idle", "window", "wake"}, ack : SeqNo \cup {NoNum}]
        BY <2>1
      <3> QED
        BY <1>1, <2>1, <3>1 DEF SndTyped
    <2>3. SndNumbers' /\ SndBlocks' /\ SndLosses'
      BY <1>1, <1>2, <2>1 DEF SndInv, SndNumbers, SndBlocks, SndLosses
    <2>4. PackingRight' /\ AckingRight' /\ Awake'
      BY <1>1, <1>2, <2>1 DEF SndInv, PackingRight, AckingRight, Awake
    <2>5. Before(sndLastDataAck) <= Before(sndLastDataAck')
      BY <2>1, Indices
    <2> QED
      BY <1>1, <1>2, <1>3, <2>2, <2>3, <2>4, <2>5, SndMoves DEF SndInv
  <1>7. CASE ~(offset <= 0)
    <2>1. /\ sndBuf' = SubSeq(sndBuf, offset + 1, Len(sndBuf)) /\ currBlock' = currBlock - offset
          /\ sndLastDataAck' = acking.ack /\ acking' = [acking EXCEPT !.at = "wake"]
          /\ sndLost' = {s \in sndLost : SeqCmp(s, DecSeq(acking.ack)) > 0}
      BY <1>7 DEF AckData
    <2> HIDE DEF offset
    <2>2. sndLastDataAck' = acking.ack /\ currBlock' = currBlock - offset
      BY <2>1
    <2>3. InStream(DecSeq(acking.ack)) /\ Before(DecSeq(acking.ack)) = Before(acking.ack) - 1
      BY <1>4, <1>5, <1>7, StepsByOne, Indices DEF SndInv, SndNumbers
    <2>4. acking'.at = "wake" /\ acking'.ack = acking.ack
          /\ acking' \in [at : {"idle", "window", "wake"}, ack : SeqNo \cup {NoNum}]
      BY <2>1 DEF SndTyped
    <2>5. /\ Len(sndBuf) = written - Before(sndLastDataAck) /\ SentTo <= written
          /\ currBlock = SentTo - Before(sndLastDataAck) /\ Before(sndLastAck) <= SentTo
      BY DEF SndInv, SndNumbers, SndBlocks
    <2>6. /\ written \in Int /\ Before(sndLastDataAck) \in Int /\ Before(sndLastAck) \in Int
          /\ SentTo \in Int
      BY Indices
    <2>7. offset \in Nat /\ offset <= Len(sndBuf) /\ offset <= currBlock
      <3>1. /\ offset > 0 /\ offset <= Before(sndLastAck) - Before(sndLastDataAck)
        BY <1>4, <1>5, <1>7, Indices
      <3> QED
        BY <1>5, <2>5, <2>6, <3>1
    <2>8. /\ sndBuf' \in Seq(1 .. Blocks) /\ Len(sndBuf') = Len(sndBuf) - offset
          /\ \A k \in DOMAIN sndBuf' : k + offset \in DOMAIN sndBuf /\ sndBuf'[k] = sndBuf[k + offset]
                                       /\ k \in Nat
      <3>1. sndBuf \in Seq(1 .. Blocks) /\ Len(sndBuf) \in Nat
        BY DEF SndTyped
      <3>2. sndBuf' = SubSeq(sndBuf, offset + 1, Len(sndBuf)) /\ offset \in Nat /\ offset <= Len(sndBuf)
        BY <2>1, <2>7
      <3>3. sndBuf' = [k \in 1 .. Len(sndBuf) - offset |-> sndBuf[k + offset]]
        BY <3>1, <3>2
      <3>4. Len(sndBuf') = Len(sndBuf) - offset /\ sndBuf' \in Seq(1 .. Blocks)
        BY <3>1, <3>2, <3>3
      <3>5. DOMAIN sndBuf' = 1 .. Len(sndBuf) - offset /\ DOMAIN sndBuf = 1 .. Len(sndBuf)
        BY <3>1, <3>3
      <3>6. \A k \in DOMAIN sndBuf' : k + offset \in DOMAIN sndBuf /\ k \in Nat
        BY <3>1, <3>2, <3>5
      <3> QED
        BY <3>3, <3>4, <3>5, <3>6
    <2>9. SndBlocks'
      <3>1. \A k \in DOMAIN sndBuf' : sndBuf'[k] = Before(acking.ack) + k
        <4> TAKE k \in DOMAIN sndBuf'
        <4>1. sndBuf'[k] = Before(sndLastDataAck) + (k + offset) /\ k \in Nat
          BY <2>8 DEF SndInv, SndBlocks
        <4> QED
          BY <1>4, <1>5, <4>1, Indices
      <3>2. Len(sndBuf') = written' - Before(sndLastDataAck')
        <4>1. Len(sndBuf') = Len(sndBuf) - offset
          BY <2>8
        <4>2. written' = written /\ Before(sndLastDataAck') = Before(acking.ack)
          BY <1>1, <2>2
        <4>3. Before(acking.ack) \in Int /\ offset = Before(acking.ack) - Before(sndLastDataAck)
          BY <1>4, <1>5
        <4> QED
          BY <2>5, <2>6, <4>1, <4>2, <4>3
      <3>4. Len(sndBuf') <= SndBufSize
        <4>1. Len(sndBuf) <= SndBufSize /\ SndBufSize \in Nat /\ Len(sndBuf) \in Nat
          BY DEF SndInv, SndBlocks, SndTyped, TransferAssumption
        <4> QED
          BY <2>7, <2>8, <4>1
      <3>3. currBlock' = SentTo' - Before(sndLastDataAck')
        <4>1. Before(acking.ack) \in Int /\ offset = Before(acking.ack) - Before(sndLastDataAck)
          BY <1>4, <1>5
        <4>2. currBlock' = currBlock - offset /\ Before(sndLastDataAck') = Before(acking.ack)
          BY <2>2
        <4> QED
          BY <1>2, <2>5, <2>6, <4>1, <4>2
      <3> QED
        BY <2>1, <2>7, <2>8, <3>1, <3>2, <3>3, <3>4 DEF SndBlocks
    <2>10. SndTyped'
      <3>1. currBlock' \in 0 .. Len(sndBuf')
        <4>1. Len(sndBuf') = Len(sndBuf) - offset
          BY <2>8
        <4>2. currBlock <= Len(sndBuf) /\ currBlock \in Nat /\ Len(sndBuf) \in Nat
          BY DEF SndTyped
        <4> QED
          BY <2>2, <2>7, <4>1, <4>2
      <3>2. sndLost' \subseteq SeqNo /\ sndLastDataAck' \in SeqNo
        BY <1>4, <2>1 DEF SndTyped, InStream
      <3> QED
        BY <1>1, <2>4, <2>8, <3>1, <3>2 DEF SndTyped
    <2>11. SndNumbers'
      BY <1>1, <1>2, <1>4, <1>5, <1>7, <2>2, Indices DEF SndInv, SndNumbers
    <2>12. SndLosses'
      <3> SUFFICES ASSUME NEW s \in sndLost'
                   PROVE  InStream(s) /\ Before(sndLastDataAck') <= Before(s) /\ Before(s) < SentTo'
        BY DEF SndLosses
      <3>1. s \in sndLost /\ SeqCmp(s, DecSeq(acking.ack)) > 0
        BY <2>1
      <3>2. InStream(s) /\ Before(s) < SentTo /\ Before(s) \in Int
        BY <3>1 DEF SndInv, SndLosses, InStream
      <3>3. Before(s) > Before(acking.ack) - 1
        BY <2>3, <3>1, <3>2, OffIsDistance
      <3> QED
        BY <1>2, <1>4, <2>1, <3>2, <3>3
    <2>13. PackingRight' /\ AckingRight' /\ Awake'
      <3>1. sndLost = {} => sndLost' = {}
        BY <2>1
      <3> QED
        BY <1>1, <1>2, <1>4, <2>4, <3>1 DEF SndInv, PackingRight, AckingRight, Awake
    <2>14. Before(sndLastDataAck) <= Before(sndLastDataAck')
      BY <1>4, <1>5, <1>7, <2>2, <2>6
    <2> QED
      BY <1>1, <1>2, <1>3, <2>9, <2>10, <2>11, <2>12, <2>13, <2>14, SndMoves DEF SndInv
  <1> QED
    BY <1>6, <1>7

LEMMA AckWakeKeeps ==
    ASSUME StreamFits, TransferAssumption, IInv, AckWake
    PROVE  IInv'
  <1> SndTyped /\ SndInv /\ RcvInv
    BY TypedParts DEF IInv
  <1>1. /\ UNCHANGED <<net, sndData, sndProt, sndExp, sndBroken, packing, rcv>>
        /\ packing.at \in {"idle", "sending"} /\ sndApp' = "ready" /\ scheduled' = TRUE
        /\ acking' = [at |-> "idle", ack |-> NoNum]
    BY DEF AckWake, ListFree
  <1>2. SentTo' = SentTo /\ SentTo \in Int
    BY <1>1, Indices DEF SentTo, sndProt
  <1>3. Known(Before(sndLastAck')) /\ Before(sndLastDataAck) <= Before(sndLastDataAck')
    BY <1>1, Indices DEF RcvInv, RcvNumbers, sndProt
  <1>4. SndTyped'
    <2>1. acking' \in [at : {"idle", "window", "wake"}, ack : SeqNo \cup {NoNum}]
      BY <1>1
    <2> QED
      BY <1>1, <2>1 DEF SndTyped, sndData, sndProt
  <1>5. SndNumbers' /\ SndBlocks' /\ SndLosses'
    BY <1>1, <1>2 DEF SndInv, SndNumbers, SndBlocks, SndLosses, sndData, sndProt
  <1>6. PackingRight' /\ AckingRight' /\ Awake'
    BY <1>1, <1>2 DEF SndInv, PackingRight, AckingRight, Awake, sndProt
  <1> QED
    BY <1>1, <1>2, <1>3, <1>4, <1>5, <1>6, SndMoves DEF SndInv

\* What a step does not disturb that only adds lost numbers, breaks or schedules
\* while no packet is being put together.
LEMMA LossStepKeeps ==
    ASSUME SndTyped, SndInv, packing.at \in {"idle", "sending"}, scheduled => scheduled',
           UNCHANGED <<sndData, sndLastAck, sndLastDataAck, sndCurrSeqNo, flowWindow, packing, acking>>,
           sndExp' \in 1 .. ExpLimit + 1, sndBroken' \in BOOLEAN, scheduled' \in BOOLEAN,
           sndApp' \in {"ready", "asleep"},
           \A s \in sndLost' : \/ s \in sndLost
                               \/ InStream(s) /\ Before(sndLastDataAck) <= Before(s) /\ Before(s) < SentTo,
           sndBroken' \/ scheduled' \/ (sndLost' = sndLost /\ ~sndBroken /\ ~scheduled)
    PROVE  SndTyped' /\ SndInv' /\ SentTo' = SentTo
  <1>1. SentTo' = SentTo
    BY DEF SentTo
  <1>2. SndTyped'
    BY DEF SndTyped, sndData, InStream
  <1>3. SndNumbers' /\ SndBlocks'
    BY <1>1 DEF SndInv, SndNumbers, SndBlocks, sndData
  <1>4. SndLosses'
    BY <1>1 DEF SndInv, SndLosses
  <1>5. PackingRight' /\ AckingRight' /\ Awake'
    BY <1>1 DEF SndInv, PackingRight, AckingRight, Awake
  <1> QED
    BY <1>1, <1>2, <1>3, <1>4, <1>5 DEF SndInv

LEMMA ReceiveNakKeeps ==
    ASSUME StreamFits, TransferAssumption, IInv, NEW p \in net, ReceiveNak(p)
    PROVE  IInv'
  <1> SndTyped /\ SndInv /\ RcvInv
    BY TypedParts DEF IInv
  <1>1. /\ UNCHANGED <<sndData, sndLastAck, sndLastDataAck, sndCurrSeqNo, flowWindow, sndApp, packing,
                       acking, rcv>>
        /\ net' \subseteq net /\ sndExp' = 1 /\ p.type = "nak" /\ packing.at \in {"idle", "sending"}
    BY DEF ReceiveNak, ListFree
  <1>2. \A s \in p.lost : InStream(s) /\ Before(s) \in Int /\ Before(s) < SentTo
    <2>1. \A s \in p.lost : InStream(s) /\ Before(s) < GivenTo
      BY <1>1 DEF IInv, Packets, Honest
    <2>2. GivenTo <= SentTo
      BY DEF RcvInv, RcvNumbers
    <2> QED
      BY <2>1, <2>2, Indices DEF InStream
  <1>3. InStream(sndCurrSeqNo) /\ InStream(sndLastAck) /\ SentTo \in Int
        /\ Before(sndLastDataAck) <= Before(sndLastAck)
    BY Indices DEF SndInv, SndNumbers
  <1>4. ~ \E s \in p.lost : SeqCmp(s, sndCurrSeqNo) > 0
    <2> SUFFICES ASSUME NEW s \in p.lost PROVE ~(SeqCmp(s, sndCurrSeqNo) > 0)
      OBVIOUS
    <2>1. Before(s) <= Before(sndCurrSeqNo)
      BY <1>2, Indices DEF SentTo
    <2> QED
      BY <1>2, <1>3, <2>1, OffIsDistance, Indices
  <1>5. /\ sndLost' = sndLost \cup {s \in p.lost : SeqCmp(s, sndLastAck) >= 0}
        /\ scheduled' = TRUE /\ sndBroken' = sndBroken
    BY <1>4 DEF ReceiveNak
  <1>6. \A s \in sndLost' :
           \/ s \in sndLost
           \/ InStream(s) /\ Before(sndLastDataAck) <= Before(s) /\ Before(s) < SentTo
    <2> SUFFICES ASSUME NEW s \in p.lost, SeqCmp(s, sndLastAck) >= 0
                 PROVE  InStream(s) /\ Before(sndLastDataAck) <= Before(s) /\ Before(s) < SentTo
      BY <1>5
    <2>1. Before(sndLastAck) <= Before(s)
      BY <1>2, <1>3, OffIsDistance, Indices
    <2> QED
      BY <1>2, <1>3, <2>1, Indices
  <1>7. sndExp' \in 1 .. ExpLimit + 1
    BY <1>1 DEF TransferAssumption
  <1>8. SndTyped' /\ SndInv' /\ SentTo' = SentTo
    BY <1>1, <1>5, <1>6, <1>7, LossStepKeeps DEF SndTyped
  <1>9. Known(Before(sndLastAck')) /\ Before(sndLastDataAck) <= Before(sndLastDataAck')
    BY <1>1, Indices DEF RcvInv, RcvNumbers
  <1> QED
    BY <1>1, <1>3, <1>8, <1>9, SndMoves

LEMMA SenderHearsAliveKeeps ==
    ASSUME StreamFits, TransferAssumption, IInv, NEW p \in net, SenderHearsAlive(p)
    PROVE  IInv'
  <1> SndTyped /\ SndInv /\ RcvInv
    BY TypedParts DEF IInv
  <1>1. /\ UNCHANGED <<sndData, sndProt, sndBroken, scheduled, sndApp, packing, acking, rcv>>
        /\ net' \subseteq net /\ sndExp' = 1
    BY DEF SenderHearsAlive
  <1>2. SentTo' = SentTo /\ SentTo \in Int
    BY <1>1, Indices DEF SentTo, sndProt
  <1>3. sndExp' \in 1 .. ExpLimit + 1
    BY <1>1 DEF TransferAssumption
  <1>4. SndTyped'
    BY <1>1, <1>3 DEF SndTyped, sndData, sndProt
  <1>5. SndInv'
    BY <1>1, <1>2 DEF SndInv, SndNumbers, SndBlocks, SndLosses, PackingRight, AckingRight, Awake,
                      sndData, sndProt
  <1>6. Known(Before(sndLastAck')) /\ Before(sndLastDataAck) <= Before(sndLastDataAck')
    BY <1>1, Indices DEF RcvInv, RcvNumbers, sndProt
  <1> QED
    BY <1>1, <1>2, <1>4, <1>5, <1>6, SndMoves

LEMMA SenderExpiresKeeps ==
    ASSUME StreamFits, TransferAssumption, IInv, SenderExpires
    PROVE  IInv'
  <1> SndTyped /\ SndInv /\ RcvInv
    BY TypedParts DEF IInv
  <1>1. /\ UNCHANGED <<sndData, sndLastAck, sndLastDataAck, sndCurrSeqNo, flowWindow, packing, acking,
                       rcv>>
        /\ packing.at \in {"idle", "sending"} /\ ~sndBroken
    BY DEF SenderExpires, Hears, ListFree
  <1>2. /\ InStream(sndCurrSeqNo) /\ InStream(sndLastAck) /\ SentTo \in Int
        /\ Before(sndLastDataAck) <= Before(sndLastAck) /\ Before(sndLastAck) <= SentTo
    BY Indices DEF SndInv, SndNumbers
  <1>3. Known(Before(sndLastAck')) /\ Before(sndLastDataAck) <= Before(sndLastDataAck')
    BY <1>1, Indices DEF RcvInv, RcvNumbers
  <1>4. /\ sndExp' \in 1 .. ExpLimit + 1 /\ sndBroken' \in BOOLEAN /\ scheduled' \in BOOLEAN
        /\ sndApp' \in {"ready", "asleep"} /\ (scheduled => scheduled')
    <2>1. sndExp \in 1 .. ExpLimit + 1 /\ ExpLimit \in Nat
      BY DEF SndTyped, TransferAssumption
    <2>2. sndExp' = sndExp \/ sndExp' = IF sndExp <= ExpLimit THEN sndExp + 1 ELSE sndExp
      BY DEF SenderExpires
    <2>3. sndExp' \in 1 .. ExpLimit + 1
      BY <2>1, <2>2
    <2>4. sndBroken' \in BOOLEAN /\ scheduled' \in BOOLEAN
      BY Zenon DEF SenderExpires, SndTyped
    <2>5. sndApp' \in {"ready", "asleep"}
      BY Zenon DEF SenderExpires, SndTyped
    <2>6. scheduled => scheduled'
      BY Zenon DEF SenderExpires
    <2> QED
      BY <2>3, <2>4, <2>5, <2>6
  <1>5. CASE sndExp > ExpLimit /\ sndBroken' = TRUE /\ net' = net /\ sndLost' = sndLost
    <2>1. SndTyped' /\ SndInv' /\ SentTo' = SentTo
      BY <1>1, <1>4, <1>5, LossStepKeeps
    <2> QED
      BY <1>1, <1>2, <1>3, <1>5, <2>1, SndMoves
  <1>6. CASE /\ IncSeq(sndCurrSeqNo) # sndLastAck /\ net' = net
             /\ sndLost' = sndLost \cup SeqRange(sndLastAck, sndCurrSeqNo)
             /\ scheduled' = (scheduled \/ sndBuf # <<>>)
    <2>1. Before(sndLastAck) < SentTo
      <3>1. InStream(IncSeq(sndCurrSeqNo)) /\ Before(IncSeq(sndCurrSeqNo)) = SentTo
        BY <1>2, StepsByOne, Indices DEF SentTo
      <3> QED
        BY <1>2, <1>6, <3>1, OffIsDistance, Indices
    <2>2. Len(sndBuf) # 0
      <3>1. /\ Len(sndBuf) = written - Before(sndLastDataAck) /\ SentTo <= written
            /\ Before(sndLastDataAck) <= Before(sndLastAck)
        BY DEF SndInv, SndBlocks, SndNumbers
      <3>2. /\ Before(sndLastDataAck) \in Int /\ Before(sndLastAck) \in Int
            /\ SentTo \in Int /\ written \in Int
        BY Indices
      <3> QED
        BY <2>1, <3>1, <3>2
    <2>3. scheduled' = TRUE
      <3>1. sndBuf # <<>>
        BY <2>2
      <3> QED
        BY <1>6, <3>1, Zenon
    <2>4. Before(sndLastAck) <= Before(sndCurrSeqNo)
      BY <2>1, Indices DEF SentTo
    <2>5. \A s \in sndLost' :
             \/ s \in sndLost
             \/ InStream(s) /\ Before(sndLastDataAck) <= Before(s) /\ Before(s) < SentTo
      <3> SUFFICES ASSUME NEW s \in SeqRange(sndLastAck, sndCurrSeqNo)
                   PROVE  InStream(s) /\ Before(sndLastDataAck) <= Before(s) /\ Before(s) < SentTo
        BY <1>6
      <3>1. InStream(s) /\ Before(s) \in Before(sndLastAck) .. Before(sndCurrSeqNo)
        BY <1>2, <2>4, RangeIsInterval
      <3> QED
        BY <1>2, <3>1, Indices DEF SentTo
    <2>6. SndTyped' /\ SndInv' /\ SentTo' = SentTo
      BY <1>1, <1>4, <2>3, <2>5, LossStepKeeps
    <2> QED
      BY <1>1, <1>2, <1>3, <1>6, <2>6, SndMoves
  <1>7. CASE /\ Joins(net, KeepAlive("receiver")) /\ sndLost' = sndLost /\ sndBroken' = sndBroken
             /\ scheduled' = (scheduled \/ sndBuf # <<>>)
    <2>1. scheduled' \/ (sndLost' = sndLost /\ ~sndBroken /\ ~scheduled)
      BY <1>1, <1>7
    <2>2. SndTyped' /\ SndInv' /\ SentTo' = SentTo
      BY <1>1, <1>4, <1>7, <2>1, LossStepKeeps
    <2>3. Honest(KeepAlive("receiver"))'
      BY DEF Honest, KeepAlive
    <2>4. \E n \in SUBSET net : \E m : Joins(n, m) /\ Honest(m)'
      BY <1>7, <2>3
    <2> QED
      BY <1>1, <1>2, <1>3, <2>2, <2>4, SndMoves
  <1> QED
    BY <1>5, <1>6, <1>7 DEF SenderExpires, Sends

-----------------------------------------------------------------------------
(* The steps of the receiving endpoint.                                    *)

\* It is enough to look at the receiver when the sender stands still.
LEMMA RcvMoves ==
    ASSUME TransferAssumption, IInv, UNCHANGED snd, RcvTyped', RcvInv',
           GivenTo <= GivenTo', Before(rcvLastAck) <= Before(rcvLastAck'),
           \A i \in Int : Known(i) => Known(i)',
           \/ net' \subseteq net
           \/ \E n \in SUBSET net : \E m : Joins(n, m) /\ Honest(m)'
    PROVE  IInv'
  <1>1. SndTyped' /\ SndInv'
    BY SndStill, TypedParts DEF IInv
  <1>2. /\ SentTo' = SentTo /\ SentTo \in Int
        /\ sndLastDataAck' = sndLastDataAck /\ Before(sndLastDataAck) \in Int
    BY Indices DEF snd, sndProt, SentTo
  <1>3. /\ GivenTo \in Int /\ GivenTo' \in Int /\ InStream(rcvLastAck) /\ InStream(rcvLastAck')
        /\ Before(rcvLastAck) \in Int
    BY Indices DEF IInv, RcvInv, RcvNumbers, GivenTo, InStream
  <1>4. \A p \in net : Honest(p)'
    <2> TAKE p \in net
    <2>1. Honest(p)
      BY DEF IInv, Packets
    <2> QED
      BY <1>2, <1>3, <2>1, HonestKept
  <1>5. Packets'
    BY <1>4, JoinsHonest, NetShrinks
  <1>6. TypeOK'
    BY <1>1 DEF TypeOK, SndTyped, RcvTyped, PackingType
  <1> QED
    BY <1>1, <1>5, <1>6 DEF IInv

\* The number that is acknowledged is the first that is missing.
LEMMA AckNumberIs ==
    ASSUME StreamFits, TransferAssumption, IInv
    PROVE  /\ InStream(AckNumber) /\ Before(AckNumber) \in Int /\ Known(Before(AckNumber))
           /\ Before(rcvLastAck) <= Before(AckNumber) /\ Before(AckNumber) <= GivenTo
  <1>1. /\ InStream(rcvCurrSeqNo) /\ Known(Before(rcvLastAck))
        /\ \A s \in rcvLost : InStream(s) /\ Before(s) < GivenTo
    BY DEF IInv, RcvInv, RcvNumbers
  <1>2. CASE rcvLost = {}
    <2>1. InStream(IncSeq(rcvCurrSeqNo)) /\ Before(IncSeq(rcvCurrSeqNo)) = GivenTo
      BY <1>1, StepsByOne, Indices DEF GivenTo
    <2> QED
      BY <1>1, <1>2, <2>1, Indices DEF AckNumber, Known
  <1>3. CASE rcvLost # {}
    <2>1. FirstSeq(rcvLost) \in rcvLost /\ \A t \in rcvLost : Before(FirstSeq(rcvLost)) <= Before(t)
      BY <1>1, <1>3, FirstIsLeast
    <2> QED
      BY <1>1, <1>3, <2>1, Indices DEF AckNumber, Known, InStream
  <1> QED
    BY <1>2, <1>3

\* Slots are distinct positions.
LEMMA SlotIs ==
    ASSUME TransferAssumption, startPos \in Slots, NEW j \in Slots
    PROVE  /\ Slot(j) = IF startPos + j < RcvBufSize THEN startPos + j ELSE startPos + j - RcvBufSize
           /\ Slot(j) \in Slots
  <1>1. startPos + j \in Nat /\ startPos + j < 2 * RcvBufSize /\ RcvBufSize \in Nat
    BY DEF TransferAssumption, Slots
  <1>2. Slot(j) = IF startPos + j < RcvBufSize THEN startPos + j ELSE startPos + j - RcvBufSize
    <2> DEFINE x == startPos + j
    <2> HIDE DEF x
    <2>1. x % RcvBufSize = IF x < RcvBufSize THEN x ELSE x - RcvBufSize
      <3>1. x \in Nat /\ x < 2 * RcvBufSize
        BY <1>1 DEF x
      <3> QED
        BY <3>1, GoesRound
    <2>2. Slot(j) = x % RcvBufSize
      BY DEF x, Slot
    <2>3. Slot(j) = IF x < RcvBufSize THEN x ELSE x - RcvBufSize
      BY <2>1, <2>2
    <2>4. startPos \in Nat /\ j \in Nat
      BY DEF Slots
    <2> QED
      BY <1>1, <2>3, <2>4 DEF x
  <1> QED
    BY <1>1, <1>2 DEF Slots

LEMMA SlotsDiffer ==
    ASSUME TransferAssumption, startPos \in Slots, NEW j \in Slots, NEW k \in Slots, Slot(j) = Slot(k)
    PROVE  j = k
  BY SlotIs DEF Slots, TransferAssumption

\* getRcvDataSize is what was acknowledged and not read, and the slot of an
\* offset from m_iLastAckPos is that of its index (buffer.cpp:373-388, 479-485).
LEMMA RingSize ==
    ASSUME TransferAssumption, IInv
    PROVE  /\ Len(read) \in Nat /\ Before(rcvLastAck) - Len(read) \in Slots
           /\ RcvDataSize = Before(rcvLastAck) - Len(read)
           /\ \A k \in Nat : Before(rcvLastAck) - Len(read) + k \in Slots =>
                 (lastAckPos + k) % RcvBufSize = Slot(Before(rcvLastAck) - Len(read) + k)
  <1> DEFINE d == Before(rcvLastAck) - Len(read)
  <1>1. /\ startPos \in Slots /\ Len(read) \in Nat /\ RcvBufSize \in Nat /\ RcvBufSize > 2
    BY Indices DEF IInv, TypeOK
  <1>2. d \in Slots
    <2>1. /\ Len(read) <= Before(rcvLastAck) /\ GivenTo < Len(read) + RcvBufSize
          /\ Before(rcvLastAck) <= GivenTo
      BY DEF IInv, RcvInv, RcvRing, RcvNumbers, Known
    <2> QED
      BY <1>1, <2>1, Indices DEF Slots
  <1>3. lastAckPos = Slot(d)
    BY DEF IInv, RcvInv, RcvRing
  <1> HIDE DEF d
  <1>4. /\ lastAckPos = IF startPos + d < RcvBufSize THEN startPos + d ELSE startPos + d - RcvBufSize
        /\ lastAckPos \in Slots
    BY <1>1, <1>2, <1>3, SlotIs
  <1>5. RcvDataSize = d
    <2> DEFINE x == lastAckPos + RcvBufSize - startPos
    <2>1. x \in Nat /\ x < 2 * RcvBufSize /\ (IF x < RcvBufSize THEN x ELSE x - RcvBufSize) = d
      BY <1>1, <1>2, <1>4 DEF Slots
    <2> HIDE DEF x
    <2>2. x % RcvBufSize = d
      BY <2>1, GoesRound
    <2> QED
      BY <2>2 DEF x, RcvDataSize
  <1>6. ASSUME NEW k \in Nat, d + k \in Slots
        PROVE  (lastAckPos + k) % RcvBufSize = Slot(d + k)
    <2>1. Slot(d + k) = IF startPos + d + k < RcvBufSize THEN startPos + d + k
                        ELSE startPos + d + k - RcvBufSize
      BY <1>1, <1>2, <1>6, SlotIs DEF Slots
    <2> DEFINE x == lastAckPos + k
    <2>2. /\ x \in Nat /\ x < 2 * RcvBufSize
          /\ (IF x < RcvBufSize THEN x ELSE x - RcvBufSize) = Slot(d + k)
      BY <1>1, <1>2, <1>4, <1>6, <2>1 DEF Slots
    <2> HIDE DEF x
    <2>3. x % RcvBufSize = Slot(d + k)
      BY <2>2, GoesRound
    <2> QED
      BY <2>3 DEF x
  <1> QED
    BY <1>1, <1>2, <1>5, <1>6 DEF d

LEMMA RingDistance ==
    ASSUME TransferAssumption, NEW a \in Slots, NEW b \in Slots
    PROVE  (a + RcvBufSize - b) % RcvBufSize \in Slots
  <1> DEFINE x == a + RcvBufSize - b
  <1>1. x \in Nat /\ x < 2 * RcvBufSize /\ RcvBufSize \in Nat
    BY DEF TransferAssumption, Slots
  <1> HIDE DEF x
  <1>2. x % RcvBufSize = IF x < RcvBufSize THEN x ELSE x - RcvBufSize
    BY <1>1, GoesRound
  <1>3. x % RcvBufSize \in Slots
    BY <1>1, <1>2 DEF Slots
  <1> QED
    BY <1>3 DEF x

\* What an ACK announces fits the buffer (core.cpp:1550).
LEMMA WindowFits ==
    ASSUME TransferAssumption, NEW n \in Slots
    PROVE  LET w == IF RcvBufSize - n - 1 < 2 THEN 2 ELSE RcvBufSize - n - 1
           IN  w \in Int /\ w <= RcvBufSize
  BY DEF TransferAssumption, Slots

LEMMA SendAckKeeps ==
    ASSUME StreamFits, TransferAssumption, IInv, SendAck
    PROVE  IInv'
  <1> RcvTyped /\ RcvInv
    BY TypedParts DEF IInv
  <1> DEFINE d == Before(rcvLastAck) - Len(read)
             k == Before(AckNumber) - Before(rcvLastAck)
  <1>1. /\ UNCHANGED <<snd, unit, startPos, read, rcvLastAckAck, rcvCurrSeqNo, rcvLost, rcvExp,
                       rcvBroken>>
        /\ rcvLastAck' = AckNumber
        /\ lastAckPos' = (lastAckPos + SeqOff(rcvLastAck, AckNumber)) % RcvBufSize
        /\ rcvApp' \in {"ready", rcvApp}
        /\ net' = net \/ Joins(net, AckPkt(AckNumber, Window'))
    BY DEF SendAck, Sends
  <1>2. /\ InStream(AckNumber) /\ Before(AckNumber) \in Int /\ Known(Before(AckNumber))
        /\ Before(rcvLastAck) <= Before(AckNumber) /\ Before(AckNumber) <= GivenTo
    BY AckNumberIs
  <1>3. GivenTo' = GivenTo /\ (\A i : Known(i)' <=> Known(i)) /\ GivenTo \in Int
    BY <1>1, Indices DEF GivenTo, Known
  <1>4. SentTo' = SentTo /\ sndLastAck' = sndLastAck
    BY <1>1 DEF snd, sndProt, SentTo
  <1>5. RcvNumbers'
    BY <1>1, <1>2, <1>3, <1>4, Indices DEF RcvInv, RcvNumbers
  <1>6. /\ Len(read) \in Nat /\ d \in Slots
        /\ \A i \in Nat : d + i \in Slots => (lastAckPos + i) % RcvBufSize = Slot(d + i)
    BY RingSize
  <1>7. k = SeqOff(rcvLastAck, AckNumber) /\ k \in Nat
    BY <1>2, OffIsDistance, Indices DEF RcvInv, RcvNumbers
  <1>8. d + k = Before(AckNumber) - Len(read) /\ d + k \in Slots
    <2>1. GivenTo < Len(read) + RcvBufSize /\ Len(read) <= Before(rcvLastAck)
      BY DEF RcvInv, RcvRing
    <2>2. Len(read) \in Nat
      BY <1>6
    <2>3. Before(rcvLastAck) \in Int /\ GivenTo \in Int /\ RcvBufSize \in Nat
      BY Indices
    <2> QED
      BY <1>2, <2>1, <2>2, <2>3 DEF Slots
  <1>9. lastAckPos' = Slot(Before(AckNumber) - Len(read))
    <2> HIDE DEF d, k
    <2> QED
      BY <1>1, <1>6, <1>7, <1>8
  <1> HIDE DEF d, k
  <1>10. RcvRing'
    <2>1. Slot(Before(AckNumber) - Len(read)) = Slot(Before(rcvLastAck) - Len(read))'
      BY <1>1 DEF Slot
    <2>2. Len(read) <= Before(AckNumber)
      BY <1>2, <1>6, Indices DEF RcvInv, RcvRing
    <2>3. \A j \in Slots : Slot(j)' = Slot(j) /\ (Stored(Len(read) + j)' <=> Stored(Len(read) + j))
      BY <1>1, <1>3 DEF Slot, Stored
    <2>4. \A j \in Slots :
             unit'[Slot(j)'] = IF Stored(Len(read) + j)' THEN Len(read') + j + 1 ELSE Free
      BY <1>1, <2>3 DEF RcvInv, RcvRing
    <2> QED
      BY <1>1, <1>3, <1>9, <2>1, <2>2, <2>4 DEF RcvInv, RcvRing
  <1>11. RcvTyped'
    <2>1. lastAckPos' \in Slots
      BY <1>8, <1>9, SlotIs DEF RcvTyped
    <2> QED
      BY <1>1, <1>2, <2>1 DEF RcvTyped, InStream
  <1>12. Window' \in Int /\ Window' <= RcvBufSize
    <2>1. startPos' \in Slots /\ lastAckPos' \in Slots
      BY <1>11 DEF RcvTyped
    <2>2. RcvDataSize' \in Slots
      BY <2>1, RingDistance DEF RcvDataSize
    <2>3. Window' = IF RcvBufSize - RcvDataSize' - 1 < 2 THEN 2 ELSE RcvBufSize - RcvDataSize' - 1
      BY DEF Window, AvailBufSize
    <2> QED
      BY <2>2, <2>3, WindowFits
  <1>13. net' \subseteq net \/ \E n \in SUBSET net : \E m : Joins(n, m) /\ Honest(m)'
    <2>1. PICK m : m = AckPkt(AckNumber, Window')
      OBVIOUS
    <2>2. m.type = "ack" /\ m.ack = AckNumber /\ m.window = Window'
      BY <2>1 DEF AckPkt
    <2>3. Honest(m)'
      BY <1>1, <1>2, <1>12, <2>2 DEF Honest
    <2> QED
      BY <1>1, <2>1, <2>3
  <1> QED
    BY <1>1, <1>2, <1>3, <1>5, <1>10, <1>11, <1>13, RcvMoves DEF RcvInv

\* Steps that change neither the numbers of the receiver nor its ring.
LEMMA RcvIdles ==
    ASSUME TransferAssumption, IInv, UNCHANGED <<snd, rcvData, rcvLastAck, rcvCurrSeqNo, rcvLost>>,
           rcvExp' \in 1 .. ExpLimit + 1, rcvBroken' \in BOOLEAN, rcvApp' \in {"ready", "asleep"},
           InStream(rcvLastAckAck'), 0 <= Before(rcvLastAckAck'),
           Before(rcvLastAckAck') <= Before(rcvLastAck),
           \/ net' \subseteq net
           \/ \E n \in SUBSET net : \E m : Joins(n, m) /\ Honest(m)'
    PROVE  IInv'
  <1> RcvTyped /\ RcvInv
    BY TypedParts DEF IInv
  <1>1. RcvTyped'
    BY DEF RcvTyped, rcvData, InStream
  <1>2. GivenTo' = GivenTo /\ (\A i : Known(i)' <=> Known(i)) /\ GivenTo \in Int
    BY Indices DEF GivenTo, Known
  <1>3. SentTo' = SentTo /\ sndLastAck' = sndLastAck
    BY DEF snd, sndProt, SentTo
  <1>4. RcvNumbers'
    BY <1>2, <1>3 DEF RcvInv, RcvNumbers
  <1>5. RcvRing'
    BY <1>2 DEF RcvInv, RcvRing, Slot, Stored, rcvData
  <1> QED
    BY <1>1, <1>2, <1>4, <1>5, RcvMoves, Indices DEF RcvInv

LEMMA SendLightAckKeeps ==
    ASSUME StreamFits, TransferAssumption, IInv, SendLightAck
    PROVE  IInv'
  <1> RcvTyped /\ RcvInv
    BY TypedParts DEF IInv
  <1>1. UNCHANGED <<snd, rcv>> /\ Joins(net, LightAckPkt(AckNumber))
    BY DEF SendLightAck, Sends
  <1>2. PICK m : m = LightAckPkt(AckNumber)
    OBVIOUS
  <1>3. m.type = "lite" /\ m.ack = AckNumber
    BY <1>2 DEF LightAckPkt
  <1>4. Known(Before(m.ack))'
    BY <1>1, <1>3, AckNumberIs DEF Known, GivenTo, rcv, rcvProt
  <1>5. Honest(m)'
    BY <1>3, <1>4, AckNumberIs DEF Honest
  <1>6. \E n \in SUBSET net : \E k : Joins(n, k) /\ Honest(k)'
    BY <1>1, <1>2, <1>5
  <1> QED
    BY <1>1, <1>6, RcvIdles DEF rcv, rcvProt, rcvCtl, RcvTyped, RcvInv, RcvNumbers

LEMMA SendNakKeeps ==
    ASSUME StreamFits, TransferAssumption, IInv, SendNak
    PROVE  IInv'
  <1> RcvTyped /\ RcvInv
    BY TypedParts DEF IInv
  <1>1. UNCHANGED <<snd, rcv>> /\ Joins(net, NakPkt(rcvLost))
    BY DEF SendNak, Sends
  <1>2. PICK m : m = NakPkt(rcvLost)
    OBVIOUS
  <1>3. m.type = "nak" /\ m.lost = rcvLost
    BY <1>2 DEF NakPkt
  <1>4. \A s \in m.lost : InStream(s) /\ Before(s) < GivenTo
    BY <1>3 DEF RcvInv, RcvNumbers
  <1>5. GivenTo' = GivenTo
    BY <1>1 DEF GivenTo, rcv, rcvProt
  <1>6. Honest(m)'
    BY <1>3, <1>4, <1>5 DEF Honest
  <1>7. \E n \in SUBSET net : \E k : Joins(n, k) /\ Honest(k)'
    BY <1>1, <1>2, <1>6
  <1> QED
    BY <1>1, <1>7, RcvIdles DEF rcv, rcvProt, rcvCtl, RcvTyped, RcvInv, RcvNumbers

LEMMA ReceiveAck2Keeps ==
    ASSUME StreamFits, TransferAssumption, IInv, NEW p \in net, ReceiveAck2(p)
    PROVE  IInv'
  <1> RcvTyped /\ RcvInv
    BY TypedParts DEF IInv
  <1>1. /\ UNCHANGED <<snd, rcvData, rcvLastAck, rcvCurrSeqNo, rcvLost, rcvBroken, rcvApp>>
        /\ p.type = "ack2" /\ net' \subseteq net /\ rcvExp' = 1
        /\ \/ rcvLastAckAck' = rcvLastAckAck
           \/ SeqCmp(p.ack, rcvLastAckAck) > 0 /\ rcvLastAckAck' = p.ack
    BY DEF ReceiveAck2
  <1>2. InStream(p.ack) /\ Before(p.ack) <= Before(rcvLastAck) /\ Before(p.ack) \in Int
    BY <1>1 DEF IInv, Packets, Honest, InStream
  <1>3. /\ InStream(rcvLastAckAck) /\ 0 <= Before(rcvLastAckAck)
        /\ Before(rcvLastAckAck) <= Before(rcvLastAck)
    BY DEF RcvInv, RcvNumbers
  <1>4. /\ InStream(rcvLastAckAck') /\ 0 <= Before(rcvLastAckAck')
        /\ Before(rcvLastAckAck') <= Before(rcvLastAck)
    BY <1>1, <1>2, <1>3, OffIsDistance, Indices
  <1>5. rcvExp' \in 1 .. ExpLimit + 1
    BY <1>1 DEF TransferAssumption
  <1> QED
    BY <1>1, <1>4, <1>5, RcvIdles DEF RcvTyped

LEMMA ReceiverHearsAliveKeeps ==
    ASSUME StreamFits, TransferAssumption, IInv, NEW p \in net, ReceiverHearsAlive(p)
    PROVE  IInv'
  <1> RcvTyped /\ RcvInv
    BY TypedParts DEF IInv
  <1>1. UNCHANGED <<snd, rcvData, rcvProt, rcvBroken, rcvApp>> /\ net' \subseteq net /\ rcvExp' = 1
    BY DEF ReceiverHearsAlive
  <1>2. rcvExp' \in 1 .. ExpLimit + 1
    BY <1>1 DEF TransferAssumption
  <1> QED
    BY <1>1, <1>2, RcvIdles DEF rcvProt, RcvTyped, RcvInv, RcvNumbers

LEMMA ReceiverExpiresKeeps ==
    ASSUME StreamFits, TransferAssumption, IInv, ReceiverExpires
    PROVE  IInv'
  <1> RcvTyped /\ RcvInv
    BY TypedParts DEF IInv
  <1>1. UNCHANGED <<snd, rcvData, rcvProt>>
    BY DEF ReceiverExpires
  <1>2. rcvExp' \in 1 .. ExpLimit + 1
    <2>1. rcvExp \in 1 .. ExpLimit + 1 /\ ExpLimit \in Nat
      BY DEF RcvTyped, TransferAssumption
    <2>2. rcvExp' = rcvExp \/ rcvExp' = IF rcvExp <= ExpLimit THEN rcvExp + 1 ELSE rcvExp
      BY DEF ReceiverExpires
    <2> QED
      BY <2>1, <2>2
  <1>3. rcvBroken' \in BOOLEAN /\ rcvApp' \in {"ready", "asleep"}
    BY Zenon DEF ReceiverExpires, RcvTyped
  <1>4. net' \subseteq net \/ \E n \in SUBSET net : \E m : Joins(n, m) /\ Honest(m)'
    <2>1. Honest(KeepAlive("sender"))'
      BY DEF Honest, KeepAlive
    <2>2. net' = net \/ Joins(net, KeepAlive("sender"))
      BY DEF ReceiverExpires, Sends
    <2> QED
      BY <2>1, <2>2
  <1> QED
    BY <1>1, <1>2, <1>3, <1>4, RcvIdles DEF rcvProt, RcvInv, RcvNumbers

\* When m_iStartPos moves on, every index keeps its slot, and the slot that was
\* first becomes the last.
LEMMA SlotNext ==
    ASSUME TransferAssumption, NEW a \in Slots, NEW b, b = (a + 1) % RcvBufSize, NEW j \in Slots
    PROVE  /\ b \in Slots
           /\ (b + j) % RcvBufSize = IF j + 1 < RcvBufSize THEN (a + (j + 1)) % RcvBufSize ELSE a
  <1>1. a \in Nat /\ a < RcvBufSize /\ j \in Nat /\ j < RcvBufSize /\ RcvBufSize \in Nat /\ RcvBufSize > 2
    BY DEF Slots, TransferAssumption
  <1>2. b = IF a + 1 < RcvBufSize THEN a + 1 ELSE 0
    <2> DEFINE x == a + 1
    <2>1. x \in Nat /\ x < 2 * RcvBufSize /\ x <= RcvBufSize
      BY <1>1
    <2>2. b = x % RcvBufSize
      OBVIOUS
    <2> HIDE DEF x
    <2>3. b = IF x < RcvBufSize THEN x ELSE 0
      BY <1>1, <2>1, <2>2, GoesRound
    <2> QED
      BY <2>3 DEF x
  <1>3. b \in Nat /\ b < RcvBufSize
    BY <1>1, <1>2
  <1>4. (b + j) % RcvBufSize = IF b + j < RcvBufSize THEN b + j ELSE (b + j) - RcvBufSize
    <2> DEFINE x == b + j
    <2>1. x \in Nat /\ x < 2 * RcvBufSize
      BY <1>1, <1>3
    <2> HIDE DEF x
    <2>2. x % RcvBufSize = IF x < RcvBufSize THEN x ELSE x - RcvBufSize
      BY <2>1, GoesRound
    <2> QED
      BY <2>2 DEF x
  <1>5. (a + (j + 1)) % RcvBufSize =
           IF a + (j + 1) < RcvBufSize THEN a + (j + 1) ELSE (a + (j + 1)) - RcvBufSize
    <2> DEFINE x == a + (j + 1)
    <2>1. x \in Nat /\ x < 2 * RcvBufSize
      BY <1>1
    <2> HIDE DEF x
    <2>2. x % RcvBufSize = IF x < RcvBufSize THEN x ELSE x - RcvBufSize
      BY <2>1, GoesRound
    <2> QED
      BY <2>2 DEF x
  <1> HIDE DEF Slots
  <1>6. (b + j) % RcvBufSize = IF j + 1 < RcvBufSize THEN (a + (j + 1)) % RcvBufSize ELSE a
    <2> DEFINE u == (b + j) % RcvBufSize
               v == (a + (j + 1)) % RcvBufSize
    <2>1. u = IF b + j < RcvBufSize THEN b + j ELSE (b + j) - RcvBufSize
      BY <1>4
    <2>2. v = IF a + (j + 1) < RcvBufSize THEN a + (j + 1) ELSE (a + (j + 1)) - RcvBufSize
      BY <1>5
    <2> HIDE DEF u, v
    <2>3. u = IF j + 1 < RcvBufSize THEN v ELSE a
      BY <1>1, <1>2, <1>3, <2>1, <2>2
    <2> QED
      BY <2>3 DEF u, v
  <1> QED
    BY <1>1, <1>3, <1>6 DEF Slots

LEMMA RecvKeeps ==
    ASSUME StreamFits, TransferAssumption, IInv, Recv
    PROVE  IInv' /\ (read' = read \/ (Len(read) < written /\ read' = Append(read, Len(read) + 1)))
  <1> RcvTyped /\ RcvInv
    BY TypedParts DEF IInv
  <1>1. UNCHANGED <<net, snd, lastAckPos, rcvProt, rcvExp, rcvBroken>>
    BY DEF Recv
  <1>2. CASE ~(RcvDataSize > 0)
    <2>1. rcvApp' = "asleep" /\ UNCHANGED <<read, unit, startPos>>
      BY <1>2 DEF Recv
    <2>2. IInv'
      BY <1>1, <2>1, RcvIdles DEF rcvProt, rcvData, RcvTyped, RcvInv, RcvNumbers
    <2> QED
      BY <2>1, <2>2
  <1>3. CASE RcvDataSize > 0
    <2> DEFINE L == Len(read)
    <2>1. /\ read' = Append(read, unit[startPos]) /\ unit' = [unit EXCEPT ![startPos] = Free]
          /\ startPos' = (startPos + 1) % RcvBufSize /\ rcvApp' = rcvApp
      BY <1>3 DEF Recv
    <2>2. /\ L \in Nat /\ Before(rcvLastAck) - L \in Slots /\ L < Before(rcvLastAck)
      BY <1>3, RingSize, Indices
    <2>3. /\ startPos \in Slots /\ unit \in [Slots -> 0 .. Blocks] /\ read \in Seq(1 .. Blocks)
          /\ 0 \in Slots /\ RcvBufSize \in Nat /\ RcvBufSize > 2
      <3>1. RcvBufSize \in Nat /\ RcvBufSize > 2
        BY Indices
      <3> QED
        BY <3>1 DEF RcvTyped, Slots
    <2>4. /\ Known(Before(rcvLastAck)) /\ GivenTo <= SentTo
          /\ \A s \in rcvLost : Before(s) \in Int
      BY DEF RcvInv, RcvNumbers, InStream
    <2>5. Stored(L) /\ L < GivenTo
      BY <2>2, <2>4, Indices DEF Stored, Known
    <2>6. Slot(0) = startPos
      BY <2>3, SlotIs DEF Slots
    <2>7. unit[startPos] = L + 1
      <3>1. unit[Slot(0)] = IF Stored(L + 0) THEN L + 0 + 1 ELSE Free
        BY <2>3 DEF RcvInv, RcvRing
      <3>2. L + 0 = L
        BY <2>2
      <3> HIDE DEF L
      <3> QED
        BY <2>2, <2>5, <2>6, <3>1, <3>2
    <2>8. L + 1 \in 1 .. Blocks /\ L < written
      BY <2>2, <2>4, <2>5, Indices DEF IInv, SndInv, SndNumbers
    <2>9. /\ read' \in Seq(1 .. Blocks) /\ Len(read') = L + 1
          /\ \A i \in DOMAIN read' : read'[i] = i
      <3>1. read' = Append(read, L + 1)
        BY <2>1, <2>7
      <3>2. \A i \in DOMAIN read : read[i] = i
        BY DEF RcvInv, RcvRing
      <3> QED
        BY <2>2, <2>3, <2>8, <3>1, <3>2
    <2>10. GivenTo' = GivenTo /\ (\A i : Known(i)' <=> Known(i)) /\ (\A i : Stored(i)' <=> Stored(i))
      BY <1>1 DEF GivenTo, Known, Stored, rcvProt
    <2>11. /\ startPos' \in Slots
           /\ \A j \in Slots : Slot(j)' = IF j + 1 < RcvBufSize THEN Slot(j + 1) ELSE startPos
      BY <2>1, <2>3, SlotNext DEF Slot
    <2>12. SentTo' = SentTo /\ sndLastAck' = sndLastAck
      BY <1>1 DEF snd, sndProt, SentTo
    <2>13. RcvNumbers'
      BY <1>1, <2>10, <2>12 DEF RcvInv, RcvNumbers, rcvProt
    <2>14. RcvTyped'
      <3>1. unit' \in [Slots -> 0 .. Blocks]
        BY <2>1, <2>3, Indices DEF Free
      <3> QED
        BY <1>1, <2>1, <2>9, <2>11, <3>1 DEF RcvTyped, rcvProt
    <2>15. \A j \in Slots :
              unit'[Slot(j)'] = IF Stored(Len(read) + j)' THEN Len(read') + j + 1 ELSE Free
      <3> SUFFICES ASSUME NEW j \in Slots
                   PROVE  unit'[Slot(j)'] = IF Stored(L + 1 + j) THEN L + 1 + j + 1 ELSE Free
        <4> TAKE j \in Slots
        <4>1. Stored(Len(read) + j)' <=> Stored(L + 1 + j)
          BY <1>1, <2>9, <2>10 DEF Stored, rcvProt
        <4> QED
          BY <2>9, <4>1
      <3>1. j \in Nat /\ j < RcvBufSize
        BY <2>3 DEF Slots
      <3>2. CASE j + 1 < RcvBufSize
        <4>1. j + 1 \in Slots /\ j + 1 # 0
          BY <2>3, <3>1, <3>2 DEF Slots
        <4>2. Slot(j)' = Slot(j + 1) /\ Slot(j + 1) # startPos /\ Slot(j + 1) \in Slots
          BY <2>3, <2>6, <2>11, <3>2, <4>1, SlotsDiffer, SlotIs
        <4>3. unit[Slot(j + 1)] = IF Stored(L + (j + 1)) THEN L + (j + 1) + 1 ELSE Free
          BY <4>1 DEF RcvInv, RcvRing
        <4>4. L + (j + 1) = L + 1 + j
          BY <2>2, <3>1
        <4>5. unit'[Slot(j)'] = unit[Slot(j + 1)]
          BY <2>1, <2>3, <4>2
        <4> QED
          BY <4>3, <4>4, <4>5
      <3>3. CASE ~(j + 1 < RcvBufSize)
        <4>1. Slot(j)' = startPos /\ unit'[startPos] = Free
          BY <2>1, <2>3, <2>11, <3>3
        <4>2. ~Stored(L + 1 + j)
          <5>1. GivenTo < L + RcvBufSize
            BY DEF RcvInv, RcvRing
          <5>2. GivenTo \in Int
            BY Indices
          <5> QED
            BY <2>2, <2>3, <3>1, <3>3, <5>1, <5>2 DEF Stored
        <4> QED
          BY <4>1, <4>2
      <3> QED
        BY <3>2, <3>3
    <2>16. lastAckPos' = Slot(Before(rcvLastAck) - Len(read))'
      <3> DEFINE e == Before(rcvLastAck) - (L + 1)
      <3>1. e \in Slots /\ e + 1 = Before(rcvLastAck) - L /\ e + 1 < RcvBufSize
        <4> HIDE DEF L
        <4>1. Before(rcvLastAck) \in Int
          BY Indices
        <4>2. /\ Before(rcvLastAck) - L < RcvBufSize /\ L \in Nat /\ L < Before(rcvLastAck)
              /\ RcvBufSize \in Nat
          BY <2>2, <2>3 DEF Slots
        <4> QED
          BY <4>1, <4>2 DEF Slots
      <3>2. Slot(Before(rcvLastAck) - Len(read))' = (startPos' + (Before(rcvLastAck') - Len(read'))) % RcvBufSize
        BY DEF Slot
      <3>3. Before(rcvLastAck') - Len(read') = e
        BY <1>1, <2>9 DEF rcvProt
      <3> HIDE DEF e
      <3>4. (startPos' + e) % RcvBufSize = Slot(e + 1)
        BY <2>11, <3>1 DEF Slot
      <3>5. lastAckPos' = Slot(Before(rcvLastAck) - L)
        BY <1>1 DEF RcvInv, RcvRing
      <3> QED
        BY <3>1, <3>2, <3>3, <3>4, <3>5
    <2>17. Len(read') <= Before(rcvLastAck') /\ GivenTo' < Len(read') + RcvBufSize
      <3>1. GivenTo < L + RcvBufSize /\ rcvLastAck' = rcvLastAck
        BY <1>1 DEF RcvInv, RcvRing, rcvProt
      <3>2. Before(rcvLastAck) \in Int /\ GivenTo \in Int
        BY Indices
      <3>3. Len(read') = L + 1
        BY <2>9
      <3> HIDE DEF L
      <3> QED
        BY <2>2, <2>3, <2>10, <3>1, <3>2, <3>3
    <2>18. RcvRing'
      BY <2>9, <2>15, <2>16, <2>17, Zenon DEF RcvRing
    <2>19. IInv'
      BY <1>1, <2>10, <2>13, <2>14, <2>18, RcvMoves, Indices DEF RcvInv, rcvProt
    <2> QED
      BY <2>1, <2>7, <2>8, <2>19
  <1> QED
    BY <1>2, <1>3

\* Every index of the stream has a number.
LEMMA IndexHasNumber ==
    ASSUME StreamFits, TransferAssumption, NEW m \in 0 .. Blocks
    PROVE  \E x : InStream(x) /\ Before(x) = m
  <1> DEFINE x == IF FirstSeqNo + m > MaxSeqNo THEN FirstSeqNo + m - MaxSeqNo - 1 ELSE FirstSeqNo + m
  <1>1. InStream(x) /\ Before(x) = m
    BY SeqNoAssumption
    DEF StreamFits, TransferAssumption, InStream, Before, SeqOff, AbsDiff, SeqNo
  <1> QED
    BY <1>1

\* A packet that is accepted has a slot of its own, and is not there yet.
LEMMA AcceptedIs ==
    ASSUME StreamFits, TransferAssumption, IInv, NEW s, InStream(s), 0 <= Before(s), Accepts(s)
    PROVE  /\ Before(s) \in Nat /\ Before(s) - Len(read) \in Slots
           /\ Before(s) - Len(read) + 1 < RcvBufSize
           /\ (lastAckPos + SeqOff(rcvLastAck, s)) % RcvBufSize = Slot(Before(s) - Len(read))
           /\ ~Stored(Before(s)) /\ Before(rcvLastAck) <= Before(s)
  <1> DEFINE d == Before(rcvLastAck) - Len(read)
             k == Before(s) - Before(rcvLastAck)
  <1>1. /\ Len(read) \in Nat /\ d \in Slots /\ RcvDataSize = d
        /\ \A i \in Nat : d + i \in Slots => (lastAckPos + i) % RcvBufSize = Slot(d + i)
    BY RingSize
  <1>2. Before(s) \in Nat /\ Before(rcvLastAck) \in Int /\ RcvBufSize \in Nat /\ Len(read) \in Nat
    BY <1>1, Indices DEF InStream
  <1>3. SeqOff(rcvLastAck, s) = k
    BY OffIsDistance DEF IInv, RcvInv, RcvNumbers
  <1>4. /\ k >= 0 /\ k < RcvBufSize - d - 1 /\ unit[(lastAckPos + k) % RcvBufSize] = Free
    <2> HIDE DEF k, d
    <2> QED
      BY <1>1, <1>3 DEF Accepts, AvailBufSize
  <1>5. /\ k \in Nat /\ d + k = Before(s) - Len(read) /\ d + k \in Slots /\ d + k + 1 < RcvBufSize
        /\ Before(rcvLastAck) <= Before(s)
    <2>1. k \in Int /\ d \in Int /\ d + k = Before(s) - Len(read) /\ d >= 0 /\ Before(rcvLastAck) <= Before(s)
      BY <1>1, <1>2, <1>4 DEF Slots
    <2> HIDE DEF k, d
    <2> QED
      BY <1>2, <1>4, <2>1 DEF Slots
  <1>6. (lastAckPos + k) % RcvBufSize = Slot(d + k)
    <2> HIDE DEF k, d
    <2> QED
      BY <1>1, <1>5
  <1>7. ~Stored(Before(s))
    <2>1. unit[Slot(d + k)] = IF Stored(Len(read) + (d + k)) THEN Len(read) + (d + k) + 1 ELSE Free
      <3> HIDE DEF d, k
      <3> QED
        BY <1>5 DEF IInv, RcvInv, RcvRing
    <2>2. Len(read) + (d + k) = Before(s)
      BY <1>2
    <2> HIDE DEF d, k
    <2> QED
      BY <1>2, <1>4, <1>6, <2>1, <2>2 DEF Free
  <1> QED
    <2> HIDE DEF d, k
    <2> QED
      BY <1>2, <1>3, <1>5, <1>6, <1>7

\* The numbers that a packet s has jumped over.
GapTo(s) ==
    IF SeqCmp(s, IncSeq(rcvCurrSeqNo)) > 0 THEN SeqRange(IncSeq(rcvCurrSeqNo), DecSeq(s)) ELSE {}

\* What an accepted packet s makes of the numbers of the receiver.
LEMMA AcceptedNumbers ==
    ASSUME StreamFits, TransferAssumption, IInv, NEW s, InStream(s), 0 <= Before(s),
           Before(s) < SentTo, Before(rcvLastAck) <= Before(s), ~Stored(Before(s)),
           UNCHANGED snd, UNCHANGED <<rcvLastAck, rcvLastAckAck>>,
           SeqCmp(s, rcvCurrSeqNo) > 0 => rcvCurrSeqNo' = s /\ rcvLost' = rcvLost \cup GapTo(s),
           ~(SeqCmp(s, rcvCurrSeqNo) > 0) => UNCHANGED rcvCurrSeqNo /\ rcvLost' = rcvLost \ {s}
    PROVE  /\ RcvNumbers' /\ GivenTo <= GivenTo' /\ (\A i \in Int : Known(i) => Known(i)')
           /\ \A m \in Nat : Stored(m)' <=> Stored(m) \/ m = Before(s)
           /\ GivenTo' = GivenTo \/ GivenTo' = Before(s) + 1
           /\ \A x \in GapTo(s) : InStream(x) /\ Before(x) < GivenTo'
  <1> DEFINE gap == GapTo(s)
             newer == SeqCmp(s, rcvCurrSeqNo) > 0
  <1>1. /\ InStream(rcvCurrSeqNo) /\ Known(Before(rcvLastAck)) /\ Known(Before(sndLastAck))
        /\ \A x \in rcvLost : InStream(x) /\ Before(x) < GivenTo /\ Before(x) \in Int
        /\ GivenTo <= SentTo
    BY DEF IInv, RcvInv, RcvNumbers, InStream
  <1>2. /\ Before(s) \in Nat /\ GivenTo \in Nat /\ SentTo \in Nat /\ SentTo <= Blocks
        /\ GivenTo = Before(rcvCurrSeqNo) + 1 /\ Before(rcvCurrSeqNo) \in Int /\ Blocks \in Nat
    BY Indices DEF InStream, GivenTo
  <1>3. InStream(IncSeq(rcvCurrSeqNo)) /\ Before(IncSeq(rcvCurrSeqNo)) = GivenTo
    BY <1>1, <1>2, StepsByOne
  <1>4. InStream(DecSeq(s)) /\ Before(DecSeq(s)) = Before(s) - 1
    BY <1>2, StepsByOne
  <1>5. newer <=> Before(s) >= GivenTo
    <2>1. SeqCmp(s, rcvCurrSeqNo) > 0 <=> Before(s) > Before(rcvCurrSeqNo)
      BY <1>1, OffIsDistance
    <2>2. SeqCmp(s, rcvCurrSeqNo) > 0 <=> Before(s) >= GivenTo
      BY <1>2, <2>1
    <2> QED
      BY <2>2
  <1>6. \A x : x \in gap <=> InStream(x) /\ Before(x) \in GivenTo .. Before(s) - 1
    <2>1. SeqCmp(s, IncSeq(rcvCurrSeqNo)) > 0 <=> Before(s) > GivenTo
      BY <1>3, OffIsDistance
    <2>2. CASE Before(s) > GivenTo
      <3>1. gap = SeqRange(IncSeq(rcvCurrSeqNo), DecSeq(s))
        BY <2>1, <2>2 DEF GapTo
      <3>2. GivenTo <= Before(s) - 1
        BY <1>2, <2>2
      <3> QED
        BY <1>3, <1>4, <3>1, <3>2, RangeIsInterval
    <2>3. CASE ~(Before(s) > GivenTo)
      <3>1. gap = {}
        BY <2>1, <2>3 DEF GapTo
      <3> QED
        BY <1>2, <2>3, <3>1 DEF InStream
    <2> QED
      BY <2>2, <2>3
  <1>7. SentTo' = SentTo /\ sndLastAck' = sndLastAck
    BY DEF snd, sndProt, SentTo
  <1>8. CASE newer
    <2>1. rcvCurrSeqNo' = s /\ GivenTo' = Before(s) + 1 /\ rcvLost' = rcvLost \cup gap
      BY <1>8 DEF GivenTo
    <2>2. Before(s) >= GivenTo
      BY <1>5, <1>8
    <2>3. \A x \in gap : InStream(x) /\ Before(x) < GivenTo' /\ Before(x) >= GivenTo /\ Before(x) \in Int
      BY <1>2, <1>6, <2>1
    <2>4. \A i \in Int : Known(i) => Known(i)'
      BY <1>1, <1>2, <2>1, <2>2, <2>3 DEF Known
    <2>5. \A x \in rcvLost' : InStream(x) /\ Before(x) < GivenTo'
      BY <1>1, <1>2, <2>1, <2>2, <2>3
    <2>6. RcvNumbers'
      BY <1>1, <1>2, <1>7, <2>1, <2>4, <2>5, Indices DEF IInv, RcvInv, RcvNumbers
    <2>7. ASSUME NEW m \in Nat PROVE Stored(m)' <=> Stored(m) \/ m = Before(s)
      <3>1. CASE m < GivenTo
        BY <1>1, <1>2, <2>1, <2>2, <2>3, <3>1 DEF Stored
      <3>2. CASE m >= GivenTo /\ m < Before(s)
        <4>1. PICK x : InStream(x) /\ Before(x) = m
          BY <1>2, <3>2, IndexHasNumber
        <4>2. x \in gap
          BY <1>2, <1>6, <3>2, <4>1
        <4> QED
          BY <1>2, <2>1, <3>2, <4>1, <4>2 DEF Stored
      <3>3. CASE m = Before(s)
        BY <1>1, <1>2, <1>6, <2>1, <2>2, <3>3 DEF Stored
      <3>4. CASE m > Before(s)
        BY <1>2, <2>1, <2>2, <3>4 DEF Stored
      <3> QED
        BY <1>2, <3>1, <3>2, <3>3, <3>4
    <2> QED
      BY <1>2, <2>1, <2>2, <2>3, <2>4, <2>6, <2>7
  <1>9. CASE ~newer
    <2>1. /\ rcvCurrSeqNo' = rcvCurrSeqNo /\ GivenTo' = GivenTo /\ rcvLost' = rcvLost \ {s}
      BY <1>9 DEF GivenTo
    <2>2. Before(s) < GivenTo
      BY <1>2, <1>5, <1>9
    <2>3. gap = {}
      BY <1>2, <1>6, <2>2 DEF InStream
    <2>4. s \in rcvLost /\ \A x \in rcvLost : Before(x) = Before(s) => x = s
      <3>1. PICK x \in rcvLost : Before(x) = Before(s)
        BY <2>2 DEF Stored
      <3>2. \A y \in rcvLost : Before(y) = Before(s) => y = s
        BY <1>1, OffIsDistance
      <3> QED
        BY <3>1, <3>2
    <2>5. \A i \in Int : Known(i) => Known(i)'
      BY <2>1 DEF Known
    <2>6. RcvNumbers'
      BY <1>1, <1>2, <1>7, <2>1, <2>5, Indices DEF IInv, RcvInv, RcvNumbers
    <2>7. \A m \in Nat : Stored(m)' <=> Stored(m) \/ m = Before(s)
      BY <1>1, <1>2, <2>1, <2>2, <2>4 DEF Stored
    <2> QED
      BY <1>2, <2>1, <2>3, <2>5, <2>6, <2>7
  <1> QED
    BY <1>8, <1>9

\* What the sender has forgotten is stored at the receiver or was read there.
LEMMA AckedIsStored ==
    ASSUME TransferAssumption, IInv, NEW i \in Nat, i < Before(sndLastDataAck)
    PROVE  Stored(i)
  <1>1. /\ Before(sndLastDataAck) <= Before(sndLastAck) /\ Known(Before(sndLastAck))
        /\ \A s \in rcvLost : Before(s) \in Int
    BY DEF IInv, SndInv, SndNumbers, RcvInv, RcvNumbers, InStream
  <1> QED
    BY <1>1, Indices DEF Known, Stored

LEMMA ReceiveDataKeeps ==
    ASSUME StreamFits, TransferAssumption, IInv, NEW p \in net, ReceiveData(p)
    PROVE  IInv'
  <1> RcvTyped /\ RcvInv
    BY TypedParts DEF IInv
  <1>1. /\ UNCHANGED <<snd, startPos, lastAckPos, read, rcvLastAck, rcvLastAckAck, rcvBroken, rcvApp>>
        /\ p.type = "data" /\ rcvExp' = 1
    BY DEF ReceiveData
  <1>2. rcvExp' \in 1 .. ExpLimit + 1
    BY <1>1 DEF TransferAssumption
  <1>3. CASE ~Accepts(p.seq)
    <2>1. net' \subseteq net /\ UNCHANGED <<unit, rcvLost, rcvCurrSeqNo>>
      BY <1>3 DEF ReceiveData
    <2> QED
      BY <1>1, <1>2, <2>1, RcvIdles DEF rcvData, RcvTyped, RcvInv, RcvNumbers
  <1>4. CASE Accepts(p.seq)
    <2>1. PICK s, gap : s = p.seq /\ gap = GapTo(s)
      OBVIOUS
    <2>2. /\ SeqCmp(s, rcvCurrSeqNo) > 0 => rcvCurrSeqNo' = s /\ rcvLost' = rcvLost \cup gap
          /\ ~(SeqCmp(s, rcvCurrSeqNo) > 0) => UNCHANGED rcvCurrSeqNo /\ rcvLost' = rcvLost \ {s}
      BY <1>4, <2>1, Zenon DEF ReceiveData, GapTo
    <2>3. /\ unit' = [unit EXCEPT ![(lastAckPos + SeqOff(rcvLastAck, p.seq)) % RcvBufSize] = p.block]
          /\ net' \subseteq net \/ Joins(net \ {p}, NakPkt(gap))
      BY <1>4, <2>1, Zenon DEF ReceiveData, Answers, GapTo
    <2>4. /\ InStream(p.seq) /\ 0 <= Before(p.seq) /\ Before(p.seq) < SentTo
          /\ \/ p.block = Before(p.seq) + 1
             \/ Before(p.seq) < Before(sndLastDataAck)
      BY <1>1 DEF IInv, Packets, Honest
    <2> DEFINE j0 == Before(p.seq) - Len(read)
    <2>5. /\ Before(p.seq) \in Nat /\ j0 \in Slots /\ j0 + 1 < RcvBufSize
          /\ (lastAckPos + SeqOff(rcvLastAck, p.seq)) % RcvBufSize = Slot(j0)
          /\ ~Stored(Before(p.seq)) /\ Before(rcvLastAck) <= Before(p.seq)
      BY <1>4, <2>4, AcceptedIs
    <2>6. /\ RcvNumbers' /\ GivenTo <= GivenTo' /\ (\A i \in Int : Known(i) => Known(i)')
          /\ \A m \in Nat : Stored(m)' <=> Stored(m) \/ m = Before(p.seq)
          /\ GivenTo' = GivenTo \/ GivenTo' = Before(p.seq) + 1
          /\ \A x \in gap : InStream(x) /\ Before(x) < GivenTo'
      <3> HIDE DEF j0
      <3>1. /\ InStream(s) /\ 0 <= Before(s) /\ Before(s) < SentTo
            /\ Before(rcvLastAck) <= Before(s) /\ ~Stored(Before(s))
        BY <2>1, <2>4, <2>5
      <3>2. /\ SeqCmp(s, rcvCurrSeqNo) > 0 => rcvCurrSeqNo' = s /\ rcvLost' = rcvLost \cup GapTo(s)
            /\ ~(SeqCmp(s, rcvCurrSeqNo) > 0) => UNCHANGED rcvCurrSeqNo /\ rcvLost' = rcvLost \ {s}
        BY <2>1, <2>2
      <3>3. UNCHANGED snd /\ UNCHANGED <<rcvLastAck, rcvLastAckAck>>
        BY <1>1
      <3>4. /\ RcvNumbers' /\ GivenTo <= GivenTo' /\ (\A i \in Int : Known(i) => Known(i)')
            /\ \A m \in Nat : Stored(m)' <=> Stored(m) \/ m = Before(s)
            /\ GivenTo' = GivenTo \/ GivenTo' = Before(s) + 1
            /\ \A x \in GapTo(s) : InStream(x) /\ Before(x) < GivenTo'
        BY <3>1, <3>2, <3>3, AcceptedNumbers
      <3> QED
        BY <2>1, <3>4
    <2>7. /\ startPos \in Slots /\ unit \in [Slots -> 0 .. Blocks] /\ Slot(j0) \in Slots
          /\ Len(read) \in Nat
      BY <2>5, SlotIs DEF RcvTyped
    <2>8. unit' = [unit EXCEPT ![Slot(j0)] = Before(p.seq) + 1]
      <3>1. ~(Before(p.seq) < Before(sndLastDataAck))
        BY <2>5, AckedIsStored
      <3> QED
        BY <2>3, <2>4, <2>5, <3>1
    <2>9. Len(read) + j0 = Before(p.seq)
      BY <2>5, <2>7
    <2>10. GivenTo' < Len(read) + RcvBufSize
      <3>1. GivenTo < Len(read) + RcvBufSize
        BY DEF RcvInv, RcvRing
      <3>2. Before(p.seq) + 1 < Len(read) + RcvBufSize
        <4>1. RcvBufSize \in Int /\ Len(read) \in Int /\ Before(p.seq) \in Int
          BY <2>5, <2>7, Indices
        <4>2. Before(p.seq) - Len(read) + 1 < RcvBufSize
          BY <2>5
        <4> QED
          BY <4>1, <4>2
      <3> QED
        BY <2>6, <3>1, <3>2
    <2> HIDE DEF j0
    <2>11. \A j \in Slots :
              unit'[Slot(j)'] = IF Stored(Len(read) + j)' THEN Len(read') + j + 1 ELSE Free
      <3> TAKE j \in Slots
      <3>1. Slot(j)' = Slot(j) /\ Slot(j) \in Slots /\ j \in Nat /\ read' = read
        BY <1>1, <2>7, SlotIs DEF Slot, Slots
      <3>2. unit[Slot(j)] = IF Stored(Len(read) + j) THEN Len(read) + j + 1 ELSE Free
        BY DEF RcvInv, RcvRing
      <3>3. Stored(Len(read) + j)' <=> Stored(Len(read) + j) \/ Len(read) + j = Before(p.seq)
        <4>1. PICK m \in Nat : m = Len(read) + j
          BY <2>7, <3>1
        <4>2. Stored(Len(read) + j)' <=> Stored(m)'
          BY <3>1, <4>1 DEF Stored
        <4> QED
          BY <2>6, <4>1, <4>2
      <3>4. CASE j = j0
        <4>1. unit'[Slot(j)] = Before(p.seq) + 1
          BY <2>7, <2>8, <3>4
        <4> QED
          BY <2>9, <3>1, <3>3, <3>4, <4>1
      <3>5. CASE j # j0
        <4>1. Slot(j) # Slot(j0)
          BY <2>5, <2>7, <3>5, SlotsDiffer
        <4>2. unit'[Slot(j)] = unit[Slot(j)]
          BY <2>7, <2>8, <3>1, <4>1
        <4>3. Len(read) + j # Before(p.seq)
          <5>1. j0 \in Nat
            BY <2>5 DEF Slots
          <5> QED
            BY <2>7, <2>9, <3>1, <3>5, <5>1
        <4> QED
          BY <3>1, <3>2, <3>3, <4>2, <4>3
      <3> QED
        BY <3>4, <3>5
    <2>12. RcvRing'
      <3>1. lastAckPos' = Slot(Before(rcvLastAck) - Len(read))'
        BY <1>1 DEF RcvInv, RcvRing, Slot
      <3>2. Len(read') <= Before(rcvLastAck') /\ \A i \in DOMAIN read' : read'[i] = i
        BY <1>1 DEF RcvInv, RcvRing
      <3>3. GivenTo' < Len(read') + RcvBufSize
        BY <1>1, <2>10
      <3> QED
        BY <2>11, <3>1, <3>2, <3>3, Zenon DEF RcvRing
    <2>13. RcvTyped'
      <3>1. Before(p.seq) + 1 \in 0 .. Blocks
        BY <2>4, <2>5, Indices
      <3>2. unit' \in [Slots -> 0 .. Blocks]
        BY <2>7, <2>8, <3>1
      <3>3. rcvLost' \subseteq SeqNo /\ rcvCurrSeqNo' \in SeqNo
        BY <2>6 DEF RcvNumbers, InStream
      <3> QED
        BY <1>1, <1>2, <3>2, <3>3 DEF RcvTyped
    <2>14. net' \subseteq net \/ \E n \in SUBSET net : \E m : Joins(n, m) /\ Honest(m)'
      <3>1. PICK m : m = NakPkt(gap)
        OBVIOUS
      <3>2. m.type = "nak" /\ m.lost = gap
        BY <3>1 DEF NakPkt
      <3>3. Honest(m)'
        BY <2>6, <3>2 DEF Honest
      <3> QED
        BY <2>3, <3>1, <3>3
    <2> QED
      BY <1>1, <2>6, <2>12, <2>13, <2>14, RcvMoves, Indices DEF RcvInv
  <1> QED
    BY <1>3, <1>4

-----------------------------------------------------------------------------
(* The theorems.                                                           *)

LEMMA NextKeeps ==
    ASSUME StreamFits, TransferAssumption, IInv, [Next]_vars
    PROVE  IInv'
  <1>1. CASE SenderStep
    BY <1>1, SendKeeps, PackStartKeeps, PackResendKeeps, PackNewKeeps, AckDataKeeps, AckWakeKeeps,
       SenderExpiresKeeps, SendPacketKeeps DEF SenderStep
  <1>2. CASE ReceiverStep
    BY <1>2, SendAckKeeps, SendLightAckKeeps, SendNakKeeps, ReceiverExpiresKeeps, RecvKeeps
    DEF ReceiverStep
  <1>3. ASSUME NEW p \in net, Arrives(p) PROVE IInv'
    BY <1>3, ReceiveLightAckKeeps, ReceiveAckKeeps, ReceiveNakKeeps, SenderHearsAliveKeeps,
       ReceiveDataKeeps, ReceiveAck2Keeps, ReceiverHearsAliveKeeps DEF Arrives
  <1>4. CASE UNCHANGED vars
    <2>1. UNCHANGED snd /\ UNCHANGED rcv /\ net' = net
      BY <1>4 DEF vars
    <2>2. SndTyped' /\ SndInv' /\ SentTo' = SentTo /\ SentTo \in Int
      BY <2>1, SndStill, TypedParts, Indices DEF IInv, SentTo, snd, sndProt
    <2>3. Known(Before(sndLastAck')) /\ Before(sndLastDataAck) <= Before(sndLastDataAck')
      BY <2>1, Indices DEF IInv, RcvInv, RcvNumbers, snd, sndProt
    <2> QED
      BY <2>1, <2>2, <2>3, SndMoves
  <1> QED
    BY <1>1, <1>2, <1>3, <1>4 DEF Next

\* What is known in indices has been received in the numbers of CSeqNo.
LEMMA KnownIsReceived ==
    ASSUME StreamFits, TransferAssumption, IInv, NEW a, InStream(a), Known(Before(a))
    PROVE  /\ SeqCmp(a, IncSeq(rcvCurrSeqNo)) <= 0
           /\ \A s \in rcvLost : SeqCmp(s, a) >= 0
  <1>1. /\ InStream(rcvCurrSeqNo) /\ \A s \in rcvLost : InStream(s)
        /\ Before(rcvCurrSeqNo) \in Int /\ Before(rcvCurrSeqNo) < Blocks
        /\ GivenTo = Before(rcvCurrSeqNo) + 1
    BY Indices DEF IInv, RcvInv, RcvNumbers, GivenTo
  <1>2. InStream(IncSeq(rcvCurrSeqNo)) /\ Before(IncSeq(rcvCurrSeqNo)) = GivenTo
    BY <1>1, StepsByOne
  <1>3. Before(a) <= GivenTo /\ \A s \in rcvLost : Before(a) <= Before(s)
    BY DEF Known
  <1>4. Before(a) \in Int /\ \A s \in rcvLost : Before(s) \in Int
    BY <1>1 DEF InStream
  <1>5. SeqCmp(a, IncSeq(rcvCurrSeqNo)) \in Int /\ ~(SeqCmp(a, IncSeq(rcvCurrSeqNo)) > 0)
    <2>1. Before(IncSeq(rcvCurrSeqNo)) \in Int /\ ~(Before(a) > Before(IncSeq(rcvCurrSeqNo)))
      BY <1>1, <1>2, <1>3, <1>4
    <2> QED
      BY <1>2, <2>1, OffIsDistance
  <1>6. \A s \in rcvLost : SeqCmp(s, a) \in Int /\ ~(SeqCmp(s, a) < 0)
    BY <1>1, <1>3, <1>4, OffIsDistance
  <1> QED
    BY <1>5, <1>6

LEMMA BlocksMatch ==
    ASSUME StreamFits, TransferAssumption, IInv
    PROVE  BlocksMatchNumbers
  <1>1. /\ InStream(sndLastDataAck) /\ InStream(sndCurrSeqNo)
        /\ Before(sndCurrSeqNo) \in Int /\ Before(sndCurrSeqNo) < Blocks
        /\ SentTo = Before(sndCurrSeqNo) + 1
    BY Indices DEF IInv, SndInv, SndNumbers, SentTo
  <1>2. InStream(IncSeq(sndCurrSeqNo)) /\ Before(IncSeq(sndCurrSeqNo)) = SentTo
    BY <1>1, StepsByOne
  <1>3. SeqOff(sndLastDataAck, IncSeq(sndCurrSeqNo)) = SentTo - Before(sndLastDataAck)
    BY <1>1, <1>2, OffIsDistance
  <1>4. ASSUME NEW p \in net, p.type = "data"
        PROVE  \/ p.block = Before(p.seq) + 1
               \/ p.block = Overwritten /\ SeqCmp(p.seq, sndLastDataAck) < 0
    <2>1. /\ InStream(p.seq)
          /\ \/ p.block = Before(p.seq) + 1
             \/ p.block = Overwritten /\ Before(p.seq) < Before(sndLastDataAck)
      BY <1>4 DEF IInv, Packets, Honest
    <2> QED
      BY <1>1, <2>1, OffIsDistance
  <1> QED
    BY <1>3, <1>4 DEF BlocksMatchNumbers, IInv, SndInv, SndBlocks

LEMMA AckedReceived ==
    ASSUME StreamFits, TransferAssumption, IInv
    PROVE  AckedIsReceived
  <1>1. /\ InStream(sndLastAck) /\ Known(Before(sndLastAck)) /\ InStream(rcvLastAck)
        /\ Known(Before(rcvLastAck)) /\ InStream(rcvLastAckAck)
        /\ Before(rcvLastAckAck) <= Before(rcvLastAck)
        /\ Before(sndLastDataAck) <= Before(sndLastAck)
        /\ \A s \in rcvLost : Before(s) \in Int
    BY DEF IInv, SndInv, SndNumbers, RcvInv, RcvNumbers, InStream
  <1>2. \A i \in Int : i <= Before(rcvLastAck) => Known(i)
    BY <1>1, Indices DEF Known
  <1>3. Known(Before(rcvLastAckAck))
    BY <1>1, <1>2, Indices
  <1>4. ASSUME NEW p \in net, p.type \in {"ack", "lite"}
        PROVE  InStream(p.ack) /\ Known(Before(p.ack))
    <2>1. Honest(p)
      BY DEF IInv, Packets
    <2>2. CASE p.type = "lite"
      BY <2>1, <2>2 DEF Honest
    <2>3. CASE p.type = "ack"
      <3>1. InStream(p.ack) /\ Before(p.ack) <= Before(rcvLastAck)
        BY <2>1, <2>3 DEF Honest
      <3> QED
        BY <1>2, <3>1 DEF InStream
    <2> QED
      BY <1>4, <2>2, <2>3
  <1> QED
    BY <1>1, <1>3, <1>4, KnownIsReceived DEF AckedIsReceived

LEMMA ReadableStored ==
    ASSUME TransferAssumption, IInv
    PROVE  ReadableIsStored
  <1>1. /\ Len(read) \in Nat /\ RcvDataSize \in Slots
        /\ RcvDataSize = Before(rcvLastAck) - Len(read)
    BY RingSize
  <1>2. ASSUME NEW k \in 0 .. RcvDataSize - 1
        PROVE  unit[(startPos + k) % RcvBufSize] = Len(read) + 1 + k
    <2>1. k \in Slots /\ k \in Nat /\ Len(read) + k < Before(rcvLastAck)
      <3>1. RcvBufSize \in Nat /\ Before(rcvLastAck) \in Int
        BY Indices
      <3>2. RcvDataSize \in 0 .. RcvBufSize - 1
        BY <1>1 DEF Slots
      <3> HIDE DEF RcvDataSize
      <3> QED
        BY <1>1, <1>2, <3>1, <3>2 DEF Slots
    <2>2. unit[Slot(k)] = IF Stored(Len(read) + k) THEN Len(read) + k + 1 ELSE Free
      BY <2>1 DEF IInv, RcvInv, RcvRing
    <2>3. /\ Before(rcvLastAck) <= GivenTo /\ Before(rcvLastAck) \in Int /\ GivenTo \in Int
          /\ \A s \in rcvLost : Before(s) \in Int /\ Before(rcvLastAck) <= Before(s)
      BY Indices DEF IInv, RcvInv, RcvNumbers, Known, InStream
    <2>4. Stored(Len(read) + k)
      BY <1>1, <2>1, <2>3 DEF Stored
    <2> QED
      BY <1>1, <2>1, <2>2, <2>4 DEF Slot
  <1> QED
    BY <1>1, <1>2 DEF ReadableIsStored

LEMMA NoAttack ==
    ASSUME StreamFits, TransferAssumption, IInv
    PROVE  NeverTakenForAttack
  <1>1. /\ InStream(sndCurrSeqNo) /\ Before(sndCurrSeqNo) \in Int /\ Before(sndCurrSeqNo) < Blocks
        /\ SentTo = Before(sndCurrSeqNo) + 1 /\ GivenTo <= SentTo /\ GivenTo \in Nat
        /\ Before(rcvLastAck) <= GivenTo /\ Before(rcvLastAck) \in Int
    BY Indices DEF IInv, SndInv, SndNumbers, RcvInv, RcvNumbers, SentTo, Known
  <1>2. InStream(IncSeq(sndCurrSeqNo)) /\ Before(IncSeq(sndCurrSeqNo)) = SentTo
    BY <1>1, StepsByOne
  <1>3. ASSUME NEW p \in net, p.type = "ack"
        PROVE  SeqCmp(p.ack, IncSeq(sndCurrSeqNo)) <= 0
    <2>1. InStream(p.ack) /\ Before(p.ack) <= Before(rcvLastAck) /\ Before(p.ack) \in Int
      BY <1>3 DEF IInv, Packets, Honest, InStream
    <2>2. ~(Before(p.ack) > Before(IncSeq(sndCurrSeqNo)))
      BY <1>1, <1>2, <2>1
    <2>3. SeqCmp(p.ack, IncSeq(sndCurrSeqNo)) \in Int /\ ~(SeqCmp(p.ack, IncSeq(sndCurrSeqNo)) > 0)
      BY <1>2, <2>1, <2>2, OffIsDistance
    <2> QED
      BY <2>3
  <1>4. ASSUME NEW p \in net, p.type = "nak", NEW s \in p.lost
        PROVE  SeqCmp(s, sndCurrSeqNo) <= 0
    <2>1. InStream(s) /\ Before(s) < GivenTo /\ Before(s) \in Int
      BY <1>4 DEF IInv, Packets, Honest, InStream
    <2>2. ~(Before(s) > Before(sndCurrSeqNo))
      BY <1>1, <2>1
    <2>3. SeqCmp(s, sndCurrSeqNo) \in Int /\ ~(SeqCmp(s, sndCurrSeqNo) > 0)
      BY <1>1, <2>1, <2>2, OffIsDistance
    <2> QED
      BY <2>3
  <1> QED
    BY <1>3, <1>4 DEF NeverTakenForAttack

LEMMA InFlightFits ==
    ASSUME StreamFits, TransferAssumption, IInv
    PROVE  FlightFits
  <1>1. /\ InStream(sndCurrSeqNo) /\ Before(sndCurrSeqNo) \in Int /\ Before(sndCurrSeqNo) < Blocks
        /\ InStream(sndLastAck) /\ InStream(sndLastDataAck) /\ SentTo = Before(sndCurrSeqNo) + 1
        /\ SentTo - Before(sndLastAck) <= RcvBufSize
    BY Indices DEF IInv, SndInv, SndNumbers, SentTo
  <1>2. InStream(IncSeq(sndCurrSeqNo)) /\ Before(IncSeq(sndCurrSeqNo)) = SentTo
    BY <1>1, StepsByOne
  <1>3. SeqOff(sndLastAck, IncSeq(sndCurrSeqNo)) <= RcvBufSize
    BY <1>1, <1>2, OffIsDistance
  <1>4. ASSUME NEW s \in sndLost
        PROVE  SeqCmp(s, sndCurrSeqNo) <= 0 /\ SeqCmp(s, sndLastDataAck) >= 0
    <2>1. /\ InStream(s) /\ Before(sndLastDataAck) <= Before(s) /\ Before(s) < SentTo
          /\ Before(s) \in Int /\ Before(sndLastDataAck) \in Int
      BY <1>1 DEF IInv, SndInv, SndLosses, InStream
    <2>2. ~(Before(s) > Before(sndCurrSeqNo)) /\ ~(Before(s) < Before(sndLastDataAck))
      BY <1>1, <2>1
    <2>3. SeqCmp(s, sndCurrSeqNo) \in Int /\ ~(SeqCmp(s, sndCurrSeqNo) > 0)
      BY <1>1, <2>1, <2>2, OffIsDistance
    <2>4. SeqCmp(s, sndLastDataAck) \in Int /\ ~(SeqCmp(s, sndLastDataAck) < 0)
      BY <1>1, <2>1, <2>2, OffIsDistance
    <2> QED
      BY <2>3, <2>4
  <1> QED
    BY <1>3, <1>4 DEF FlightFits

LEMMA LostServed ==
    ASSUME StreamFits, TransferAssumption, IInv
    PROVE  LostAreServed
  <1>1. \A s \in sndLost : InStream(s)
    BY DEF IInv, SndInv, SndLosses
  <1>2. InStream(sndLastAck)
    BY DEF IInv, SndInv, SndNumbers
  <1>3. \A s \in sndLost : Before(s) < Before(sndLastAck) => SeqCmp(s, sndLastAck) < 0
    BY <1>1, <1>2, OffIsDistance
  <1> QED
    BY <1>3 DEF LostAreServed, IInv, SndInv, Awake

\* A light acknowledgement narrows the window by what it acknowledges.
LEMMA LightAckOpensNothing ==
    ASSUME StreamFits, TransferAssumption, IInv, NEW p \in net, ReceiveLightAck(p), Stranded'
    PROVE  Stranded
  <1>1. /\ UNCHANGED <<sndData, sndCurrSeqNo, sndBroken, scheduled, packing, acking>>
        /\ p.type = "lite"
    BY DEF ReceiveLightAck
  <1>2. InStream(p.ack) /\ Before(p.ack) \in Int /\ Before(p.ack) <= SentTo
    <2>1. InStream(p.ack) /\ Known(Before(p.ack))
      BY <1>1 DEF IInv, Packets, Honest
    <2>2. Before(p.ack) \in Int /\ Before(p.ack) <= GivenTo /\ GivenTo <= SentTo
      BY <2>1 DEF InStream, Known, IInv, RcvInv, RcvNumbers
    <2> QED
      BY <2>1, <2>2, Indices
  <1>3. /\ InStream(sndCurrSeqNo) /\ InStream(sndLastAck) /\ flowWindow \in Int
        /\ Before(sndLastAck) \in Int /\ Before(sndLastAck) <= SentTo /\ SentTo \in Int
        /\ Before(sndCurrSeqNo) \in Int /\ Before(sndCurrSeqNo) < Blocks
        /\ SentTo = Before(sndCurrSeqNo) + 1
    BY Indices DEF IInv, SndInv, SndNumbers, TypeOK, SentTo
  <1>4. InStream(IncSeq(sndCurrSeqNo)) /\ Before(IncSeq(sndCurrSeqNo)) = SentTo
    BY <1>3, StepsByOne
  <1>5. CASE SeqCmp(p.ack, sndLastAck) >= 0
    <2>1. sndLastAck' = p.ack /\ flowWindow' = flowWindow - SeqOff(sndLastAck, p.ack)
      BY <1>5 DEF ReceiveLightAck
    <2>2. SeqOff(sndLastAck, p.ack) = Before(p.ack) - Before(sndLastAck)
      BY <1>2, <1>3, OffIsDistance
    <2>3. /\ SeqLen(sndLastAck, IncSeq(sndCurrSeqNo)) = SentTo - Before(sndLastAck) + 1
          /\ SeqLen(p.ack, IncSeq(sndCurrSeqNo)) = SentTo - Before(p.ack) + 1
      BY <1>2, <1>3, <1>4, LenCounts
    <2>4. flowWindow - SeqOff(sndLastAck, p.ack) >= SeqLen(p.ack, IncSeq(sndCurrSeqNo))
      BY <1>1, <2>1 DEF Stranded
    <2>5. flowWindow >= SeqLen(sndLastAck, IncSeq(sndCurrSeqNo))
      BY <1>2, <1>3, <2>2, <2>3, <2>4
    <2> QED
      BY <1>1, <2>5 DEF Stranded, sndData
  <1>6. CASE ~(SeqCmp(p.ack, sndLastAck) >= 0)
    BY <1>1, <1>6 DEF ReceiveLightAck, Stranded, sndData
  <1> QED
    BY <1>5, <1>6

\* Only a repeated acknowledgement leaves new blocks behind, at its end or through packData.
LEMMA StrandStep ==
    ASSUME StreamFits, TransferAssumption, IInv, [Next]_vars, Stranded'
    PROVE  Stranded \/ EndsRepeatedAck \/ GoesByOldWindow
  <1> SndTyped /\ SndInv
    BY TypedParts DEF IInv
  <1>0. /\ ~sndBroken' /\ ~scheduled' /\ packing'.at = "idle" /\ acking'.at = "idle"
        /\ currBlock' < Len(sndBuf') /\ flowWindow' >= SeqLen(sndLastAck', IncSeq(sndCurrSeqNo'))
    BY DEF Stranded
  <1>1. CASE UNCHANGED snd
    BY <1>1 DEF Stranded, snd, sndData, sndProt, sndCtl
  <1>2. CASE Send
    <2>1. CASE Len(sndBuf) >= SndBufSize
      BY <1>2, <2>1 DEF Send, Stranded, sndData, sndProt
    <2>2. CASE ~(Len(sndBuf) >= SndBufSize)
      BY <1>0, <1>2, <2>2 DEF Send
    <2> QED
      BY <2>1, <2>2
  <1>3. CASE PackStart
    BY <1>0, <1>3 DEF PackStart, Stranded
  <1>4. CASE PackResend
    <2>1. /\ InStream(packing.seq)
          /\ Before(packing.seq) < Before(sndLastDataAck) => acking.at = "wake"
      BY <1>4 DEF PackResend, SndInv, PackingRight
    <2>2. InStream(sndLastDataAck)
      BY DEF SndInv, SndNumbers
    <2>3. SeqOff(sndLastDataAck, packing.seq) = Before(packing.seq) - Before(sndLastDataAck)
      BY <2>1, <2>2, OffIsDistance
    <2>4. Before(packing.seq) \in Int /\ Before(sndLastDataAck) \in Int
      BY <2>1, <2>2 DEF InStream
    <2>5. CASE SeqOff(sndLastDataAck, packing.seq) < 0
      <3>1. acking.at = "wake" /\ acking' = acking
        BY <1>4, <2>1, <2>3, <2>4, <2>5 DEF PackResend
      <3> QED
        BY <1>0, <3>1
    <2>6. CASE ~(SeqOff(sndLastDataAck, packing.seq) < 0)
      BY <1>0, <1>4, <2>6 DEF PackResend, Packed
    <2> QED
      BY <2>5, <2>6
  <1>5. CASE PackNew
    <2> DEFINE fits == packing.window >= SeqLen(sndLastAck, IncSeq(sndCurrSeqNo))
    <2>1. CASE fits /\ currBlock < Len(sndBuf)
      BY <1>0, <1>5, <2>1 DEF PackNew, Packed
    <2>2. CASE ~(fits /\ currBlock < Len(sndBuf))
      <3>1. UNCHANGED <<currBlock, sndBuf, flowWindow, sndLastAck, sndCurrSeqNo>>
        BY <1>5, <2>2 DEF PackNew
      <3>2. ~fits /\ flowWindow >= SeqLen(sndLastAck, IncSeq(sndCurrSeqNo))
        BY <1>0, <2>2, <3>1
      <3>3. packing.window \in Int /\ flowWindow \in Int
        BY DEF SndTyped, PackingType
      <3>4. SeqLen(sndLastAck, IncSeq(sndCurrSeqNo)) \in Int
        <4>1. sndLastAck \in Int /\ sndCurrSeqNo \in Int
          BY SeqNoAssumption DEF SndTyped, SeqNo
        <4> QED
          BY <4>1, SeqNoAssumption DEF SeqLen, IncSeq
      <3>5. packing.window < flowWindow
        <4> HIDE DEF fits
        <4>1. ~(packing.window >= SeqLen(sndLastAck, IncSeq(sndCurrSeqNo)))
          BY <3>2 DEF fits
        <4> QED
          BY <3>2, <3>3, <3>4, <4>1
      <3> QED
        BY <1>0, <1>5, <3>5 DEF PackNew, GoesByOldWindow
    <2> QED
      BY <2>1, <2>2
  <1>6. CASE SendPacket
    <2>1. scheduled /\ scheduled' = scheduled
      BY <1>6 DEF SendPacket, SndInv, PackingRight
    <2> QED
      BY <1>0, <2>1
  <1>7. CASE AckData
    <2>1. CASE SeqOff(sndLastDataAck, acking.ack) <= 0
      BY <1>0, <1>7, <2>1 DEF AckData, EndsRepeatedAck
    <2>2. CASE ~(SeqOff(sndLastDataAck, acking.ack) <= 0)
      <3>1. acking'.at = "wake"
        BY <1>7, <2>2 DEF AckData, SndTyped
      <3> QED
        BY <1>0, <3>1
    <2> QED
      BY <2>1, <2>2
  <1>8. CASE AckWake
    BY <1>0, <1>8 DEF AckWake
  <1>9. CASE SenderExpires
    <2>1. sndBuf # <<>>
      <3>1. UNCHANGED <<sndBuf, currBlock>>
        BY <1>9 DEF SenderExpires, sndData
      <3>2. currBlock < Len(sndBuf) /\ currBlock \in Nat
        BY <1>0, <3>1 DEF SndTyped
      <3> QED
        BY <3>2
    <2>2. sndBroken' = TRUE \/ scheduled' = (scheduled \/ sndBuf # <<>>)
      BY <1>9, Zenon DEF SenderExpires
    <2> QED
      BY <1>0, <2>1, <2>2, Zenon
  <1>10. CASE ReceiverStep
    <2>1. UNCHANGED snd
      BY <1>10 DEF ReceiverStep, SendAck, SendLightAck, SendNak, ReceiverExpires, Recv
    <2> QED
      BY <1>1, <2>1
  <1>11. ASSUME NEW p \in net, Arrives(p)
         PROVE  Stranded \/ EndsRepeatedAck \/ GoesByOldWindow
    <2>1. CASE ReceiveLightAck(p)
      BY <2>1, LightAckOpensNothing
    <2>2. CASE ReceiveAck(p)
      <3> DEFINE attack == SeqCmp(p.ack, IncSeq(sndCurrSeqNo)) > 0
      <3>1. /\ sndBroken' = attack
            /\ acking' = IF attack THEN acking ELSE [at |-> "window", ack |-> p.ack]
        BY <2>2 DEF ReceiveAck
      <3>2. ~attack
        BY <1>0, <3>1
      <3>3. acking'.at = "window"
        BY <3>1, <3>2
      <3> QED
        BY <1>0, <3>3
    <2>3. CASE ReceiveNak(p)
      BY <1>0, <2>3 DEF ReceiveNak
    <2>4. CASE SenderHearsAlive(p)
      BY <2>4 DEF SenderHearsAlive, Stranded, sndData, sndProt
    <2>5. CASE ReceiveData(p) \/ ReceiveAck2(p) \/ ReceiverHearsAlive(p)
      BY <1>1, <2>5 DEF ReceiveData, ReceiveAck2, ReceiverHearsAlive
    <2> QED
      BY <1>11, <2>1, <2>2, <2>3, <2>4, <2>5 DEF Arrives
  <1>12. CASE UNCHANGED vars
    BY <1>1, <1>12 DEF vars
  <1> QED
    BY <1>2, <1>3, <1>4, <1>5, <1>6, <1>7, <1>8, <1>9, <1>10, <1>11, <1>12 DEF Next, SenderStep

\* IInv holds in every reachable state.
LEMMA Invariance == StreamFits => (Spec => []IInv)
  <1> SUFFICES ASSUME StreamFits PROVE Spec => []IInv
    OBVIOUS
  <1>1. Init => IInv
    BY InitInv, TransferAssumption
  <1>2. IInv /\ [Next]_vars => IInv'
    BY NextKeeps, TransferAssumption
  <1> QED
    BY <1>1, <1>2, PTL DEF Spec

\* For all buffers, networks and first numbers, whatever is lost, repeated or
\* reordered: a retransmission finds the block of its number, what the sender
\* forgets has been received, recv finds what was acknowledged, no honest packet is
\* taken for an attack, and what is in flight fits the receiver (core.cpp:1675-1908,
\* 1979-2174; buffer.cpp:204-265, 373-485).
THEOREM TransferIsSoundHolds == StreamFits => (Spec => []TransferIsSound)
  <1> SUFFICES ASSUME StreamFits PROVE Spec => []TransferIsSound
    OBVIOUS
  <1>1. IInv => TransferIsSound
    BY TransferAssumption, BlocksMatch, AckedReceived, ReadableStored, NoAttack, InFlightFits
    DEF TransferIsSound, IInv
  <1>2. Spec => []IInv
    BY Invariance
  <1> QED
    BY <1>1, <1>2, PTL

\* However pop, packData, sendto and the steps of an acknowledgement interleave, a socket
\* that is off the send list while no worker is on it has no lost number left to send again,
\* and gets there with new blocks within its window only at the end of an acknowledgement
\* that repeats a number, or when packData goes by a window that such a one has replaced
\* (queue.cpp:306-331, core.cpp:1725-1773, 1902, 1979-2102).
THEOREM NothingStrandsHolds == StreamFits => (Spec => NothingStrands)
  <1> SUFFICES ASSUME StreamFits PROVE Spec => NothingStrands
    OBVIOUS
  <1>1. IInv => LostAreServed
    BY TransferAssumption, LostServed
  <1>2. IInv /\ [Next]_vars => [Stranded' => Stranded \/ EndsRepeatedAck \/ GoesByOldWindow]_vars
    BY TransferAssumption, StrandStep
  <1>3. Spec => []IInv
    BY Invariance
  <1>4. Spec => []LostAreServed
    BY <1>1, <1>3, PTL
  <1>5. Spec => [][Stranded' => Stranded \/ EndsRepeatedAck \/ GoesByOldWindow]_vars
    BY <1>2, <1>3, PTL DEF Spec
  <1> QED
    BY <1>4, <1>5, PTL DEF NothingStrands

\* Only send and recv touch what the applications see.
LEMMA StreamStep ==
    ASSUME StreamFits, TransferAssumption, IInv, [Next]_vars
    PROVE  [Stream!Next]_(Stream!svars)
  <1>1. CASE Send
    <2>1. read' = read /\ written < Blocks /\ written' \in {written, written + 1}
      BY <1>1 DEF Send, sndData, rcv, rcvData
    <2> QED
      BY <2>1 DEF Stream!Next, Stream!Write, Stream!svars
  <1>2. CASE Recv
    <2>1. written' = written
      BY <1>2 DEF Recv, snd, sndData
    <2>2. read' = read \/ (Len(read) < written /\ read' = Append(read, Len(read) + 1))
      BY <1>2, RecvKeeps
    <2> QED
      BY <2>1, <2>2 DEF Stream!Next, Stream!Read, Stream!svars
  <1>3. ASSUME SenderStep \/ ReceiverStep, ~Send, ~Recv PROVE UNCHANGED <<written, read>>
    BY <1>3 DEF SenderStep, ReceiverStep, PackStart, PackResend, PackNew, SendPacket, AckData,
       AckWake, SenderExpires, SendAck, SendLightAck, SendNak, ReceiverExpires, snd, sndData, rcv, rcvData
  <1>4. ASSUME NEW p \in net, Arrives(p) PROVE UNCHANGED <<written, read>>
    BY <1>4 DEF Arrives, ReceiveLightAck, ReceiveAck, ReceiveNak, SenderHearsAlive, ReceiveData,
       ReceiveAck2, ReceiverHearsAlive, snd, sndData, rcv, rcvData
  <1>5. CASE UNCHANGED vars
    BY <1>5 DEF vars, snd, sndData, rcv, rcvData, Stream!svars
  <1> QED
    BY <1>1, <1>2, <1>3, <1>4, <1>5 DEF Next, Stream!svars

\* What recv returns is a prefix of what send was given: blocks are neither lost,
\* repeated nor reordered for the reader (core.cpp:893-1046,
\* buffer.cpp:120-162, 390-425).
THEOREM ImplementsByteStreamHolds == StreamFits => (Spec => ImplementsByteStream)
  <1> SUFFICES ASSUME StreamFits PROVE Spec => ImplementsByteStream
    OBVIOUS
  <1>1. Init => Stream!Init
    BY DEF Init, Stream!Init
  <1>2. IInv /\ [Next]_vars => [Stream!Next]_(Stream!svars)
    BY StreamStep, TransferAssumption
  <1>3. Spec => []IInv
    BY Invariance
  <1> QED
    BY <1>1, <1>2, <1>3, PTL DEF Spec, ImplementsByteStream, Stream!Spec

=============================================================================
