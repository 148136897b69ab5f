---------------------------- MODULE UdtMessages ----------------------------
(***************************************************************************)
(* A UDT connection in message mode (UDT_DGRAM): messages of one or more   *)
(* packets, with a time to live after which a retransmission is given up   *)
(* and the peer is told to drop the message (core.cpp:2004-2019, 1953).    *)
(*                                                                         *)
(* The network loses, delays, repeats and reorders: whatever was sent may  *)
(* arrive at any time, any number of times.  A retransmission may be       *)
(* called for at any time for any number that is not acknowledged (loss    *)
(* report or expiration).  Windows and pacing are UdtTransfer's matter; the*)
(* sequence numbers here do not wrap.                                      *)
(***************************************************************************)
EXTENDS Integers, Sequences, FiniteSets

CONSTANTS
    RcvBufSize,  \* m_iSize of CRcvBuffer
    Messages,    \* their numbers of packets, in the order they are written
    InOrder,     \* the messages that must be read in order
    Mortal       \* the messages with a time to live

VARIABLES
    written,     \* how many blocks the application has written
    firstBlock,  \* m_pFirstBlock, m_pCurrBlock: how many blocks they have passed
    currBlock,
    sndCurr,     \* m_iSndCurrSeqNo; the first number is 1
    sndAck,      \* m_iSndLastDataAck
    sent,        \* the data packets [seq, block] and drop requests [msg, lo, hi] sent so far
    expired,     \* the messages whose time has passed
    buf,         \* CRcvBuffer
    rcvAck,      \* m_iRcvLastAck
    rcvCurr,     \* m_iRcvCurrSeqNo
    rcvLost,     \* the receiver's loss list
    delivered    \* what recvmsg has returned, each a sequence of blocks

vars == <<written, firstBlock, currBlock, sndCurr, sndAck, sent, expired, buf, rcvAck, rcvCurr,
          rcvLost, delivered>>
sndVars == <<written, firstBlock, currBlock, sndCurr, sndAck, sent, expired>>
rcvVars == <<buf, rcvAck, rcvCurr, rcvLost, delivered>>
-----------------------------------------------------------------------------
(***************************************************************************)
(* The message side of CRcvBuffer (src/udt/buffer.cpp): a ring of units in *)
(* which messages of one or more packets are found, read and dropped, as   *)
(* operators from buffer to buffer.                                        *)
(*                                                                         *)
(* A buffer is a record: unit, slot -> packet or None; flag, slot -> 0, 1  *)
(* (stored), 2 (read out of order) or 3 (dropped); start, lastAck and max, *)
(* m_iStartPos, m_iLastAckPos and m_iMaxPos.  A packet is a record of its  *)
(* message, its block and whether it begins and ends the message (the      *)
(* boundary bits) and must be read in order.                               *)
(***************************************************************************)
Slots == 0 .. RcvBufSize - 1
None  == [msg |-> 0, block |-> 0, begins |-> FALSE, ends |-> FALSE, inorder |-> FALSE]

EmptyBuffer == [unit |-> [i \in Slots |-> None], flag |-> [i \in Slots |-> 0],
                start |-> 0, lastAck |-> 0, max |-> -1]

At(b, i) == (b.start + i) % RcvBufSize

RcvDataSize(b)  == (b.lastAck + RcvBufSize - b.start) % RcvBufSize
AvailBufSize(b) == RcvBufSize - RcvDataSize(b) - 1

\* addData of a packet whose slot is free.
SlotAt(b, offset) == (b.lastAck + offset) % RcvBufSize
\* Faulty: m_iMaxPos is where the last packet went, not the furthest.
AddedLast(b, pkt, offset) ==
    [b EXCEPT !.unit[SlotAt(b, offset)] = pkt, !.flag[SlotAt(b, offset)] = 1, !.max = offset]

Added(b, pkt, offset) ==
    [b EXCEPT !.unit[SlotAt(b, offset)] = pkt, !.flag[SlotAt(b, offset)] = 1,
              !.max = IF offset > @ THEN offset ELSE @]

\* addData of a packet whose slot is taken: m_iMaxPos alone may move.
Refused(b, offset) == [b EXCEPT !.max = IF offset > @ THEN offset ELSE @]

\* Faulty: m_iMaxPos may fall below zero.
AckedBelow(b, len) == [b EXCEPT !.lastAck = (@ + len) % RcvBufSize, !.max = @ - len]

Acked(b, len) ==
    [b EXCEPT !.lastAck = (@ + len) % RcvBufSize,
              !.max = IF @ - len < 0 THEN 0 ELSE @ - len]

\* dropMsg looks at the slots from m_iStartPos up to, and not including, the one
\* of m_iMaxPos, and compares the message number with the whole field of the
\* packet: only one whose boundary and order bits are all zero can match.
Dropped(b, msg) ==
    LET size == (b.lastAck + b.max + RcvBufSize - b.start) % RcvBufSize
        hit == {At(b, i) : i \in 0 .. size - 1}
    IN  [b EXCEPT !.flag = [i \in Slots |->
            IF /\ i \in hit /\ b.unit[i] # None /\ b.unit[i].msg = msg
               /\ ~b.unit[i].begins /\ ~b.unit[i].ends /\ ~b.unit[i].inorder
            THEN 3 ELSE b.flag[i]]]

Stored(b, k) == b.unit[k] # None /\ b.flag[k] = 1

\* Faulty: the look-ahead does not mind a hole.
WholeAtHole(b, i) == Stored(b, At(b, i)) /\ b.unit[At(b, i)].begins

\* The look-ahead of scanMsg: from the i-th slot on a message begins, and what of
\* it lies before m_iLastAckPos has no hole.
WholeAt(b, i) ==
    /\ Stored(b, At(b, i)) /\ b.unit[At(b, i)].begins
    /\ \A j \in i .. RcvDataSize(b) - 1 :
          \/ Stored(b, At(b, j))
          \/ \E e \in i .. j - 1 : b.unit[At(b, e)].ends

\* Faulty: the unit of a slot that is passed is not released.
SkippedKept(b) ==
    LET size == RcvDataSize(b)
        n == CHOOSE n \in 0 .. size : /\ n = size \/ WholeAt(b, n)
                                      /\ \A i \in 0 .. n - 1 : ~WholeAt(b, i)
        gone == {At(b, i) : i \in 0 .. n - 1}
    IN  IF size = 0 /\ b.max = 0 THEN b
        ELSE [b EXCEPT !.start = At(b, n),
                       !.unit = [i \in Slots |-> IF i \in gone THEN None ELSE b.unit[i]]]

\* scanMsg, first part: what is before the first whole message and acknowledged
\* is released, m_iStartPos moves.
Skipped(b) ==
    LET size == RcvDataSize(b)
        n == CHOOSE n \in 0 .. size : /\ n = size \/ WholeAt(b, n)
                                      /\ \A i \in 0 .. n - 1 : ~WholeAt(b, i)
        gone == {At(b, i) : i \in 0 .. n - 1}
    IN  IF size = 0 /\ b.max = 0 THEN b
        ELSE [b EXCEPT !.start = At(b, n),
                       !.unit = [i \in Slots |-> IF i \in gone THEN None ELSE b.unit[i]],
                       !.flag = [i \in Slots |-> IF i \in gone THEN 0 ELSE b.flag[i]]]

\* Faulty: a hole does not restart the search.
HeadOfHole(b, i) ==
    LET heads == {j \in 0 .. i : b.unit[At(b, j)].begins}
    IN  IF heads = {} THEN -1 ELSE CHOOSE j \in heads : \A k \in heads : k <= j

\* The slot where the message that ends at the i-th slot begins, counted from
\* m_iStartPos: the last beginning that no hole follows; -1 without one.
HeadOf(b, i) ==
    LET heads == {j \in 0 .. i : /\ b.unit[At(b, j)].begins
                                 /\ \A k \in j .. i : Stored(b, At(b, k))}
    IN  IF heads = {} THEN -1 ELSE CHOOSE j \in heads : \A k \in heads : k <= j

\* Faulty: a message that is not acknowledged is read whatever its order bit.
ReadableUnordered(b, i) ==
    /\ Stored(b, At(b, i)) /\ b.unit[At(b, i)].ends /\ HeadOf(b, i) >= 0

\* Whether the message that ends at the i-th slot may be read: it is acknowledged,
\* or need not be read in order.
Readable(b, i) ==
    /\ Stored(b, At(b, i)) /\ b.unit[At(b, i)].ends /\ HeadOf(b, i) >= 0
    /\ i < RcvDataSize(b) \/ ~b.unit[At(b, i)].inorder

\* scanMsg, second part, on a buffer that was Skipped: the place of the last
\* packet of the first message that may be read, or -1.
Found(b) ==
    LET places == {i \in 0 .. b.max + RcvDataSize(b) : i < RcvBufSize /\ Readable(b, i)}
    IN  IF places = {} \/ (RcvDataSize(b) = 0 /\ b.max = 0) THEN -1
        ELSE CHOOSE i \in places : \A j \in places : i <= j

\* "if the message is larger than the receiver buffer, return part of the message"
\* (buffer.cpp:642): the whole ring but one slot holds one message.
FoundPart(b) ==
    LET n == b.max + RcvDataSize(b)
    IN  Found(b) = -1 /\ n >= 0 /\ n < RcvBufSize
        /\ HeadOf(b, n) >= 0 /\ (n + 2) % RcvBufSize = HeadOf(b, n)

\* Faulty: a message that was read out of order is not marked.
ReadUnmarked(b) ==
    LET s == Skipped(b)
        q == Found(s)
        p == HeadOf(s, q)
        taken == {At(s, i) : i \in p .. q}
    IN  IF q = -1 THEN [buffer |-> s, blocks |-> <<>>]
        ELSE [blocks |-> [k \in 1 .. q - p + 1 |-> s.unit[At(s, p + k - 1)].block],
              buffer |-> IF q < RcvDataSize(s)
                         THEN [s EXCEPT !.unit = [i \in Slots |-> IF i \in taken THEN None ELSE @[i]],
                                        !.flag = [i \in Slots |-> IF i \in taken THEN 0 ELSE @[i]],
                                        !.start = At(s, q + 1)]
                         ELSE s]

\* readMsg: the buffer after it, and the blocks it returns.  A message that is
\* acknowledged is released; one that is not stays, marked as read.
Read(b) ==
    LET s == Skipped(b)
        q == Found(s)
        p == HeadOf(s, q)
        taken == {At(s, i) : i \in p .. q}
    IN  IF q = -1 THEN [buffer |-> s, blocks |-> <<>>]
        ELSE [blocks |-> [k \in 1 .. q - p + 1 |-> s.unit[At(s, p + k - 1)].block],
              buffer |-> IF q < RcvDataSize(s)
                         THEN [s EXCEPT !.unit = [i \in Slots |-> IF i \in taken THEN None ELSE @[i]],
                                        !.flag = [i \in Slots |-> IF i \in taken THEN 0 ELSE @[i]],
                                        !.start = At(s, q + 1)]
                         ELSE [s EXCEPT !.flag = [i \in Slots |-> IF i \in taken THEN 2 ELSE @[i]]]]
-----------------------------------------------------------------------------
(* The connection.                                                         *)

\* Blocks are counted through all messages.  Message m has those from First(m) to Last(m).
Last(m)  == LET sum[k \in 0 .. m] == IF k = 0 THEN 0 ELSE sum[k - 1] + Messages[k] IN sum[m]
First(m) == Last(m - 1) + 1
Blocks   == Last(Len(Messages))
MsgOf(b) == CHOOSE m \in DOMAIN Messages : b \in First(m) .. Last(m)

\* What a packet with block b carries.  A block behind the last one that was
\* written holds nothing that was ever meant: Junk.
Junk == 0
PacketOf(b) ==
    IF b = Junk THEN [None EXCEPT !.msg = -1]
    ELSE [msg |-> MsgOf(b), block |-> b, begins |-> b = First(MsgOf(b)),
          ends |-> b = Last(MsgOf(b)), inorder |-> MsgOf(b) \in InOrder]

Data(seq, b)     == [seq |-> seq, block |-> b]
Drop(msg, lo, hi) == [drop |-> msg, lo |-> lo, hi |-> hi]
DataSent == {p \in sent : "seq" \in DOMAIN p}
DropsSent == {p \in sent : "drop" \in DOMAIN p}

Init ==
    /\ written = 0 /\ firstBlock = 0 /\ currBlock = 0 /\ sndCurr = 0 /\ sndAck = 1
    /\ sent = {} /\ expired = {}
    /\ buf = EmptyBuffer /\ rcvAck = 1 /\ rcvCurr = 0 /\ rcvLost = {} /\ delivered = <<>>

-----------------------------------------------------------------------------
\* sendmsg: all blocks of the next message are added.
SendMsg ==
    /\ written < Blocks
    /\ written' = Last(MsgOf(written + 1))
    /\ UNCHANGED <<firstBlock, currBlock, sndCurr, sndAck, sent, expired, rcvVars>>

\* Time passes for a message that has been written.
Expire ==
    /\ \E m \in Mortal \ expired : Last(m) <= written /\ expired' = expired \cup {m}
    /\ UNCHANGED <<written, firstBlock, currBlock, sndCurr, sndAck, sent, rcvVars>>

\* packData, a new packet.
SendNew ==
    /\ currBlock < written
    /\ sndCurr' = sndCurr + 1 /\ currBlock' = currBlock + 1
    /\ sent' = sent \cup {Data(sndCurr', currBlock')}
    /\ UNCHANGED <<written, firstBlock, sndAck, expired, rcvVars>>

\* Faulty: the block after the one of the number is read.
BlockAfter(s) == IF firstBlock + (s - sndAck) + 2 <= written THEN firstBlock + (s - sndAck) + 2 ELSE Junk

\* readData(offset): the block at the offset of s from m_iSndLastDataAck.
BlockAt(s) == IF firstBlock + (s - sndAck) + 1 <= written THEN firstBlock + (s - sndAck) + 1 ELSE Junk

\* packData, a retransmission of a message that lives.
Resend ==
    /\ \E s \in sndAck .. sndCurr :
          /\ BlockAt(s) # Junk => MsgOf(BlockAt(s)) \notin expired
          /\ sent' = sent \cup {Data(s, BlockAt(s))}
    /\ UNCHANGED <<written, firstBlock, currBlock, sndCurr, sndAck, expired, rcvVars>>

\* packData, a retransmission whose message has expired: the rest of it is given
\* up.  msglen counts its blocks from this one on, and the request names the
\* numbers up to and including s + msglen, one past the message; m_iSndCurrSeqNo
\* moves past that number as well (core.cpp:2006-2016).
GiveUp ==
    /\ \E s \in sndAck .. sndCurr :
          /\ BlockAt(s) # Junk /\ MsgOf(BlockAt(s)) \in expired
          /\ LET msg == MsgOf(BlockAt(s))
                 msglen == Last(msg) - BlockAt(s) + 1
                 hi == s + msglen
             IN  /\ sent' = sent \cup {Drop(msg, s, hi)}
                 /\ currBlock' = IF currBlock + 1 \in BlockAt(s) + 1 .. Last(msg)
                                 THEN Last(msg) ELSE currBlock
                 /\ sndCurr' = IF sndCurr < hi + 1 THEN hi + 1 ELSE sndCurr
    /\ UNCHANGED <<written, firstBlock, sndAck, expired, rcvVars>>

\* An acknowledgement arrives: any that was sent, the newest last.  One above
\* everything sent would break the connection.
Acknowledged ==
    /\ \E a \in sndAck + 1 .. rcvAck :
          /\ a <= sndCurr + 1
          /\ sndAck' = a /\ firstBlock' = firstBlock + (a - sndAck)
    /\ UNCHANGED <<written, currBlock, sndCurr, sent, expired, rcvVars>>

-----------------------------------------------------------------------------
\* Faulty: a gap before the packet is not noticed.
ArriveNoGap ==
    /\ \E p \in DataSent :
          LET offset == p.seq - rcvAck
          IN  /\ offset >= 0 /\ offset < AvailBufSize(buf)
              /\ IF buf.unit[SlotAt(buf, offset)] # None
                 THEN buf' = Refused(buf, offset) /\ UNCHANGED <<rcvCurr, rcvLost>>
                 ELSE /\ buf' = Added(buf, PacketOf(p.block), offset)
                      /\ rcvLost' = rcvLost \ {p.seq}
                      /\ rcvCurr' = IF p.seq > rcvCurr THEN p.seq ELSE rcvCurr
    /\ UNCHANGED <<sndVars, rcvAck, delivered>>

\* processData: a packet within the buffer is stored, the numbers before it that
\* have not come are lost.
Arrive ==
    /\ \E p \in DataSent :
          LET offset == p.seq - rcvAck
          IN  /\ offset >= 0 /\ offset < AvailBufSize(buf)
              /\ IF buf.unit[SlotAt(buf, offset)] # None
                 THEN buf' = Refused(buf, offset) /\ UNCHANGED <<rcvCurr, rcvLost>>
                 ELSE /\ buf' = Added(buf, PacketOf(p.block), offset)
                      /\ rcvLost' = (rcvLost \cup (rcvCurr + 1 .. p.seq - 1)) \ {p.seq}
                      /\ rcvCurr' = IF p.seq > rcvCurr THEN p.seq ELSE rcvCurr
    /\ UNCHANGED <<sndVars, rcvAck, delivered>>

\* A drop request: the message is dropped from the buffer, its numbers are lost
\* no more, and m_iRcvCurrSeqNo follows if nothing is missing before them.
ArriveDrop ==
    /\ \E d \in DropsSent :
          /\ buf' = Dropped(buf, d.drop)
          /\ rcvLost' = rcvLost \ (d.lo .. d.hi)
          /\ rcvCurr' = IF d.lo <= rcvCurr + 1 /\ d.hi > rcvCurr THEN d.hi ELSE rcvCurr
    /\ UNCHANGED <<sndVars, rcvAck, delivered>>

AckNumber == IF rcvLost = {} THEN rcvCurr + 1 ELSE CHOOSE s \in rcvLost : \A t \in rcvLost : s <= t

\* sendCtrl(2).
SendAck ==
    /\ AckNumber > rcvAck
    /\ rcvAck' = AckNumber /\ buf' = Acked(buf, AckNumber - rcvAck)
    /\ UNCHANGED <<sndVars, rcvCurr, rcvLost, delivered>>

\* recvmsg: readMsg may move m_iStartPos although it finds no message.
RecvMsg ==
    /\ buf' = Read(buf).buffer
    /\ delivered' = IF Read(buf).blocks = <<>> THEN delivered ELSE Append(delivered, Read(buf).blocks)
    /\ <<buf', delivered'>> # <<buf, delivered>>
    /\ UNCHANGED <<sndVars, rcvAck, rcvCurr, rcvLost>>

Next == \/ SendMsg \/ Expire \/ SendNew \/ Resend \/ GiveUp \/ Acknowledged
        \/ Arrive \/ ArriveDrop \/ SendAck \/ RecvMsg

Spec == Init /\ [][Next]_vars

\* The receive thread takes the requests that come.
FairSpec == Spec /\ WF_vars(ArriveDrop) /\ WF_vars(SendAck)

-----------------------------------------------------------------------------
TypeOK ==
    /\ written \in 0 .. Blocks /\ firstBlock \in Nat /\ currBlock \in 0 .. Blocks
    /\ {sndCurr, sndAck, rcvAck, rcvCurr} \subseteq Nat
    /\ expired \subseteq Mortal /\ rcvLost \subseteq Nat
    /\ buf.unit \in [Slots -> [msg : -1 .. Len(Messages), block : 0 .. Blocks, begins : BOOLEAN,
                               ends : BOOLEAN, inorder : BOOLEAN]]
    /\ buf.flag \in [Slots -> 0 .. 3] /\ buf.start \in Slots /\ buf.lastAck \in Slots
    /\ buf.max \in -1 .. RcvBufSize - 1

\* The unit of a slot is in use exactly while the slot holds it: otherwise the
\* queue would give it to another packet (buffer.cpp:384-388, 513-524, queue.cpp:203).
UnitsInUse == \A i \in Slots : buf.flag[i] = 0 <=> buf.unit[i] = None

\* scanMsg looks at every packet there is: none lies beyond m_iMaxPos (buffer.cpp:597).
NothingBeyondMax ==
    \A i \in 0 .. RcvBufSize - 1 :
        buf.unit[At(buf, i)] # None => i <= RcvDataSize(buf) + buf.max

\* What recvmsg returns is one whole message, never the end of one and the
\* beginning of the next, however its packets arrived.
WholeMessages ==
    \A k \in DOMAIN delivered : \E m \in DOMAIN Messages :
        delivered[k] = [j \in 1 .. Messages[m] |-> First(m) + j - 1]

\* No message is returned twice, also not one that was read before it was
\* acknowledged and stays in the buffer.
ReadOnce == \A j, k \in DOMAIN delivered : delivered[j] = delivered[k] => j = k

\* Messages that must be read in order are: none overtakes an earlier message of
\* any kind (buffer.cpp:625-630).
OrderKept ==
    \A j, k \in DOMAIN delivered :
        j < k /\ MsgOf(delivered[j][1]) \in InOrder => delivered[j][1] < delivered[k][1]

\* A packet is retransmitted with the block that it was first sent with, and new
\* ones go on where the numbers stopped.
BlocksMatchNumbers == \A p \in DataSent : p.block = p.seq

\* What was acknowledged and has not expired is in the buffer or was returned:
\* the sender has forgotten it.
NothingSkipped ==
    \A b \in 1 .. rcvAck - 1 :
        b <= Blocks => \/ MsgOf(b) \in expired
                       \/ \E i \in Slots : buf.unit[i].block = b
                       \/ \E k \in DOMAIN delivered : b \in {delivered[k][j] : j \in DOMAIN delivered[k]}
=============================================================================
