---------------------------- MODULE UdtTransfer ----------------------------
(***************************************************************************)
(* One direction of a UDT stream connection (src/udt/core.cpp): the data   *)
(* of one endpoint and the control packets of the other, over a network    *)
(* that loses and reorders.                                                *)
(*                                                                         *)
(* Sending endpoint: the application (CUDT::send), the worker of the send  *)
(* queue (CUDT::packData, called by CSndUList::pop under m_ListLock), and  *)
(* the worker of the receive queue (processCtrl, checkTimers).  The two    *)
(* workers interleave: packData takes a lost number, or reads the window,  *)
(* in one step and a pointer to the packet's data in another, the packet   *)
(* leaves in a third, which holds no lock, and an acknowledgement is       *)
(* processed in three.  Receiving endpoint: the worker of its receive      *)
(* queue (processData, checkTimers, sendCtrl) and the application (recv).  *)
(*                                                                         *)
(* A packet carries one block; block i of the stream is the number i.      *)
(* Loss lists are sets here (UdtSndLossList and UdtRcvLossList implement   *)
(* them).  The clock is abstracted: a timer that the code waits for may    *)
(* fire at any time.  The congestion window never falls below 16           *)
(* (ccc.cpp:183, 210), above the windows of a small model, and is left     *)
(* out, as are RTT and bandwidth estimates and statistics.                 *)
(***************************************************************************)
EXTENDS UdtSeqNo, Sequences

CONSTANTS Blocks,        \* bound: how many blocks the application sends
          SndBufSize,    \* m_iSndBufSize, packets that the application may queue
          SndRingSize,   \* CSndBuffer::m_iSize once grown: blocks it has memory for
          RcvBufSize,    \* m_iRcvBufSize = m_iFlightFlagSize, slots of the receive buffer
          FirstSeqNo,    \* m_iISN of the sending endpoint
          InFlight,      \* bound: packets in the network at once
          ExpLimit       \* silent expirations before one may break the connection (16 in the code)

ASSUME TransferAssumption ==
    /\ Blocks \in Nat /\ SndBufSize \in Nat \ {0} /\ FirstSeqNo \in SeqNo
    /\ SndRingSize \in Nat /\ SndRingSize > SndBufSize
    /\ RcvBufSize \in Nat \ {0, 1, 2} /\ 2 * RcvBufSize < SeqNoTH
    /\ InFlight \in Nat \ {0} /\ ExpLimit \in Nat

VARIABLES
    net,              \* packets in the network
    \* the sending endpoint
    written,          \* blocks the application has queued so far
    sndBuf,           \* CSndBuffer: the blocks from m_pFirstBlock to m_pLastBlock
    currBlock,        \* CSndBuffer: how many of them m_pCurrBlock has passed
    sndLastAck, sndLastDataAck, sndCurrSeqNo, flowWindow, sndLost, sndExp, sndBroken,
    scheduled,        \* whether the socket is in CSndUList
    sndApp,           \* the caller of send: "ready" or "asleep" on m_SendBlockCond
    packing,          \* the worker of the send queue, inside packData
    acking,           \* the worker of the receive queue, inside the ACK case
    \* the receiving endpoint
    unit,             \* CRcvBuffer::m_pUnit, slot -> block or Free
    startPos, lastAckPos, rcvLastAck, rcvLastAckAck, rcvCurrSeqNo, rcvLost, rcvExp, rcvBroken,
    rcvApp,           \* the caller of recv: "ready" or "asleep" on m_RecvDataCond
    read              \* the blocks it has read

sndData == <<written, sndBuf, currBlock>>
sndProt == <<sndLastAck, sndLastDataAck, sndCurrSeqNo, flowWindow, sndLost>>
sndCtl  == <<sndExp, sndBroken, scheduled, sndApp, packing, acking>>
rcvData == <<unit, startPos, lastAckPos, read>>
rcvProt == <<rcvLastAck, rcvLastAckAck, rcvCurrSeqNo, rcvLost>>
rcvCtl  == <<rcvExp, rcvBroken, rcvApp>>
snd  == <<sndData, sndProt, sndCtl>>
rcv  == <<rcvData, rcvProt, rcvCtl>>
vars == <<net, snd, rcv>>

Slots == 0 .. RcvBufSize - 1
Free  == 0
NoNum == -1
Overwritten == -1         \* contents that are not those of one block

Init ==
    /\ net = {}
    /\ written = 0 /\ sndBuf = <<>> /\ currBlock = 0
    /\ sndLastAck = FirstSeqNo /\ sndLastDataAck = FirstSeqNo
    /\ sndCurrSeqNo = DecSeq(FirstSeqNo) /\ sndLost = {}
    /\ flowWindow = RcvBufSize
    /\ sndExp = 1 /\ sndBroken = FALSE /\ scheduled = FALSE /\ sndApp = "ready"
    /\ packing = [at |-> "idle", seq |-> NoNum, window |-> 0, block |-> Free]
    /\ acking = [at |-> "idle", ack |-> NoNum]
    /\ unit = [i \in Slots |-> Free] /\ startPos = 0 /\ lastAckPos = 0 /\ read = <<>>
    /\ rcvLastAck = FirstSeqNo /\ rcvLastAckAck = FirstSeqNo
    /\ rcvCurrSeqNo = DecSeq(FirstSeqNo) /\ rcvLost = {}
    /\ rcvExp = 1 /\ rcvBroken = FALSE /\ rcvApp = "ready"

-----------------------------------------------------------------------------
\* The network: a packet m that is sent joins those of n, or is lost, or takes
\* the place of one that is.
Joins(n, m) ==
    \/ net' = n
    \/ Cardinality(n \cup {m}) <= InFlight /\ net' = n \cup {m}
    \/ Cardinality(n \cup {m}) > InFlight /\ \E q \in n : net' = (n \ {q}) \cup {m}

Sends(m) == Joins(net, m)

\* Packet p arrives and is answered with m.
Answers(p, m) == Joins(net \ {p}, m)

DataPkt(seq, block)   == [type |-> "data", seq |-> seq, block |-> block]
AckPkt(ack, window)   == [type |-> "ack", ack |-> ack, window |-> window]
LightAckPkt(ack)      == [type |-> "lite", ack |-> ack]
Ack2Pkt(ack)          == [type |-> "ack2", ack |-> ack]
NakPkt(lost)          == [type |-> "nak", lost |-> lost]
KeepAlive(to)         == [type |-> "alive", to |-> to]

-----------------------------------------------------------------------------
\* The sending application.

\* m_ListLock is kept from pop's start until packData has returned; sendto runs without it.
ListFree == packing.at \in {"idle", "sending"}

\* send queues one block; when the buffer is full it waits on m_SendBlockCond,
\* and its loop tests again when it is woken.
Send ==
    /\ sndApp = "ready" /\ ~sndBroken /\ written < Blocks
    /\ IF Len(sndBuf) >= SndBufSize
       THEN sndApp' = "asleep" /\ UNCHANGED <<sndData, scheduled>>
       ELSE /\ ListFree                             \* update(this, false) takes m_ListLock
            /\ written' = written + 1
            /\ sndBuf' = Append(sndBuf, written')
            /\ scheduled' = TRUE
            /\ UNCHANGED <<currBlock, sndApp>>
    /\ UNCHANGED <<net, sndProt, sndExp, sndBroken, packing, acking, rcv>>

-----------------------------------------------------------------------------
\* The worker of the send queue: CSndUList::pop and packData.

\* The socket leaves the list; the first lost number, or the window, is read.
PackStart ==
    /\ packing.at = "idle" /\ scheduled
    /\ scheduled' = FALSE
    /\ IF sndBroken THEN UNCHANGED <<packing, sndLost>>
       ELSE IF sndLost # {}
       THEN /\ packing' = [at |-> "resend", seq |-> FirstSeq(sndLost), window |-> 0, block |-> Free]
            /\ sndLost' = sndLost \ {FirstSeq(sndLost)}
       ELSE /\ packing' = [at |-> "new", seq |-> NoNum, window |-> flowWindow, block |-> Free]
            /\ UNCHANGED sndLost
    /\ UNCHANGED <<net, sndData, sndLastAck, sndLastDataAck, sndCurrSeqNo, flowWindow, sndExp,
                   sndBroken, sndApp, acking, rcv>>

Idle == [at |-> "idle", seq |-> NoNum, window |-> 0, block |-> Free]

\* packData has returned a packet whose m_pcData points to the block, and pop has put the
\* socket back on the list.
Packed(seq, block) ==
    /\ packing' = [at |-> "sending", seq |-> seq, window |-> 0, block |-> block]
    /\ scheduled' = TRUE

\* Faulty: the offset is not compared again after m_AckLock is taken.
PackResendUnchecked ==
    /\ packing.at = "resend"
    /\ LET offset == SeqOff(sndLastDataAck, packing.seq)
           k == IF offset < 0 THEN 1 ELSE offset + 1
       IN  Packed(packing.seq, IF k \in DOMAIN sndBuf THEN sndBuf[k] ELSE Blocks)
    /\ UNCHANGED <<net, sndData, sndProt, sndExp, sndBroken, sndApp, acking, rcv>>

\* A retransmission, under m_AckLock: an acknowledgement may have overtaken it.
PackResend ==
    /\ packing.at = "resend"
    /\ LET offset == SeqOff(sndLastDataAck, packing.seq)
       IN  IF offset < 0 THEN packing' = Idle /\ UNCHANGED scheduled
           ELSE Packed(packing.seq, sndBuf[offset + 1])
    /\ UNCHANGED <<net, sndData, sndProt, sndExp, sndBroken, sndApp, acking, rcv>>

\* A new packet, if the window that was read has room and a block waits;
\* otherwise the socket stays off the list.
PackNew ==
    /\ packing.at = "new"
    /\ IF /\ packing.window >= SeqLen(sndLastAck, IncSeq(sndCurrSeqNo))
          /\ currBlock < Len(sndBuf)
       THEN /\ sndCurrSeqNo' = IncSeq(sndCurrSeqNo)
            /\ currBlock' = currBlock + 1
            /\ Packed(sndCurrSeqNo', sndBuf[currBlock'])
       ELSE packing' = Idle /\ UNCHANGED <<scheduled, sndCurrSeqNo, currBlock>>
    /\ UNCHANGED <<net, written, sndBuf, sndLastAck, sndLastDataAck, flowWindow, sndLost, sndExp,
                   sndBroken, sndApp, acking, rcv>>

\* What the memory of a block holds: send comes back to it after SndRingSize blocks.
InMemory(block) == IF written < block + SndRingSize THEN block ELSE Overwritten

\* sendto, outside every lock: an acknowledgement may have freed the block that m_pcData
\* points to, and send may have filled its memory again.
SendPacket ==
    /\ packing.at = "sending"
    /\ Sends(DataPkt(packing.seq, InMemory(packing.block)))
    /\ packing' = Idle
    /\ UNCHANGED <<sndData, sndProt, sndExp, sndBroken, scheduled, sndApp, acking, rcv>>

-----------------------------------------------------------------------------
\* The worker of the receive queue at the sending endpoint: processCtrl.

Hears == ~sndBroken /\ acking.at = "idle"

\* A light acknowledgement: the window shrinks by what it acknowledges.
ReceiveLightAck(p) ==
    /\ p.type = "lite" /\ Hears
    /\ net' = net \ {p} /\ sndExp' = 1
    /\ IF SeqCmp(p.ack, sndLastAck) >= 0
       THEN /\ flowWindow' = flowWindow - SeqOff(sndLastAck, p.ack)
            /\ sndLastAck' = p.ack
       ELSE UNCHANGED <<flowWindow, sndLastAck>>
    /\ UNCHANGED <<sndData, sndLastDataAck, sndCurrSeqNo, sndLost, sndBroken, scheduled, sndApp,
                   packing, acking, rcv>>

\* A full one: it is itself acknowledged, or not (core.cpp:1711-1716); a number
\* above everything sent breaks the connection; then the window is updated.
ReceiveAck(p) ==
    /\ p.type = "ack" /\ Hears
    /\ Answers(p, Ack2Pkt(p.ack)) /\ sndExp' = 1
    /\ LET attack == SeqCmp(p.ack, IncSeq(sndCurrSeqNo)) > 0
           ahead  == SeqCmp(p.ack, sndLastAck) >= 0
       IN  /\ sndBroken' = attack
           /\ acking' = IF attack THEN acking ELSE [at |-> "window", ack |-> p.ack]
           /\ flowWindow' = IF ahead /\ ~attack THEN p.window ELSE flowWindow
           /\ sndLastAck' = IF ahead /\ ~attack THEN p.ack ELSE sndLastAck
    /\ UNCHANGED <<sndData, sndLastDataAck, sndCurrSeqNo, sndLost, scheduled, sndApp, packing, rcv>>

\* Under m_AckLock: blocks and lost numbers below the acknowledgement leave.
AckData ==
    /\ acking.at = "window"
    /\ LET offset == SeqOff(sndLastDataAck, acking.ack)
       IN  IF offset <= 0
           THEN /\ acking' = [at |-> "idle", ack |-> NoNum]
                /\ UNCHANGED <<sndBuf, currBlock, sndLastDataAck, sndLost>>
           ELSE /\ sndBuf' = SubSeq(sndBuf, offset + 1, Len(sndBuf))
                /\ currBlock' = currBlock - offset
                /\ sndLastDataAck' = acking.ack
                /\ sndLost' = {s \in sndLost : SeqCmp(s, DecSeq(acking.ack)) > 0}
                /\ acking' = [acking EXCEPT !.at = "wake"]
    /\ UNCHANGED <<net, written, sndLastAck, sndCurrSeqNo, flowWindow, sndExp, sndBroken,
                   scheduled, sndApp, packing, rcv>>

\* Faulty: the socket is not put back on the list.
AckWakeUnscheduled ==
    /\ acking.at = "wake" /\ ListFree
    /\ sndApp' = "ready"
    /\ acking' = [at |-> "idle", ack |-> NoNum]
    /\ UNCHANGED <<net, sndData, sndProt, sndExp, sndBroken, scheduled, packing, rcv>>

\* The caller of send is woken, and the socket put on the list when packData,
\* which holds m_ListLock, has left (core.cpp:1762-1773).
AckWake ==
    /\ acking.at = "wake" /\ ListFree
    /\ sndApp' = "ready" /\ scheduled' = TRUE
    /\ acking' = [at |-> "idle", ack |-> NoNum]
    /\ UNCHANGED <<net, sndData, sndProt, sndExp, sndBroken, packing, rcv>>

\* A loss report: a number above everything sent breaks the connection, the
\* ones from m_iSndLastAck on are lost, and are sent at once.
ReceiveNak(p) ==
    /\ p.type = "nak" /\ Hears /\ ListFree
    /\ net' = net \ {p} /\ sndExp' = 1
    /\ IF \E s \in p.lost : SeqCmp(s, sndCurrSeqNo) > 0
       THEN sndBroken' = TRUE /\ UNCHANGED <<sndLost, scheduled>>
       ELSE /\ sndLost' = sndLost \cup {s \in p.lost : SeqCmp(s, sndLastAck) >= 0}
            /\ scheduled' = TRUE
            /\ UNCHANGED sndBroken
    /\ UNCHANGED <<sndData, sndLastAck, sndLastDataAck, sndCurrSeqNo, flowWindow, sndApp, packing,
                   acking, rcv>>

SenderHearsAlive(p) ==
    /\ p = KeepAlive("sender") /\ Hears
    /\ net' = net \ {p} /\ sndExp' = 1
    /\ UNCHANGED <<sndData, sndProt, sndBroken, scheduled, sndApp, packing, acking, rcv>>

\* Faulty: what is not acknowledged is not put on the loss list.
SenderExpiresIdly ==
    /\ Hears /\ ListFree
    /\ \/ /\ sndExp > ExpLimit
          /\ sndBroken' = TRUE /\ sndApp' = "ready" /\ scheduled' = TRUE
          /\ UNCHANGED <<net, sndExp>>
       \/ /\ IF IncSeq(sndCurrSeqNo) # sndLastAck
             THEN UNCHANGED net ELSE Sends(KeepAlive("receiver"))
          /\ scheduled' = (scheduled \/ sndBuf # <<>>)
          /\ sndExp' = IF sndExp <= ExpLimit THEN sndExp + 1 ELSE sndExp
          /\ UNCHANGED <<sndBroken, sndApp>>
    /\ UNCHANGED <<sndData, sndLastAck, sndLastDataAck, sndCurrSeqNo, flowWindow, sndLost, packing,
                   acking, rcv>>

\* The expiration timer (core.cpp:2277-2331): after enough expirations the
\* connection breaks and its callers are woken; until then everything that is
\* not acknowledged counts as lost, or a keep-alive goes out.
SenderExpires ==
    /\ Hears /\ ListFree
    /\ \/ /\ sndExp > ExpLimit
          /\ sndBroken' = TRUE /\ sndApp' = "ready" /\ scheduled' = TRUE
          /\ UNCHANGED <<net, sndLost, sndExp>>
       \/ /\ IF IncSeq(sndCurrSeqNo) # sndLastAck
             THEN sndLost' = sndLost \cup SeqRange(sndLastAck, sndCurrSeqNo) /\ UNCHANGED net
             ELSE Sends(KeepAlive("receiver")) /\ UNCHANGED sndLost
          /\ scheduled' = (scheduled \/ sndBuf # <<>>)
          /\ sndExp' = IF sndExp <= ExpLimit THEN sndExp + 1 ELSE sndExp
          /\ UNCHANGED <<sndBroken, sndApp>>
    /\ UNCHANGED <<sndData, sndLastAck, sndLastDataAck, sndCurrSeqNo, flowWindow, packing, acking,
                   rcv>>

-----------------------------------------------------------------------------
\* The receiving endpoint.

RcvDataSize == (lastAckPos + RcvBufSize - startPos) % RcvBufSize
AvailBufSize == RcvBufSize - RcvDataSize - 1
\* "a minimum flow window of 2 is used, even if buffer is full" (core.cpp:1550)
Window == IF AvailBufSize < 2 THEN 2 ELSE AvailBufSize

\* Whether processData stores a packet: within the buffer, and not there yet.
Accepts(seq) ==
    LET offset == SeqOff(rcvLastAck, seq)
    IN  /\ offset >= 0 /\ offset < AvailBufSize
        /\ unit[(lastAckPos + offset) % RcvBufSize] = Free

\* processData: the packet is stored; a gap before it is lost and reported, a
\* retransmission is lost no more.
ReceiveData(p) ==
    /\ p.type = "data" /\ ~rcvBroken
    /\ rcvExp' = 1
    /\ IF ~Accepts(p.seq)
       THEN net' = net \ {p} /\ UNCHANGED <<unit, rcvLost, rcvCurrSeqNo>>
       ELSE LET gap == IF SeqCmp(p.seq, IncSeq(rcvCurrSeqNo)) > 0
                       THEN SeqRange(IncSeq(rcvCurrSeqNo), DecSeq(p.seq)) ELSE {}
                newer == SeqCmp(p.seq, rcvCurrSeqNo) > 0
            IN  /\ unit' = [unit EXCEPT ![(lastAckPos + SeqOff(rcvLastAck, p.seq)) % RcvBufSize] =
                                            p.block]
                /\ IF gap # {} THEN Answers(p, NakPkt(gap)) ELSE net' = net \ {p}
                /\ rcvCurrSeqNo' = IF newer THEN p.seq ELSE rcvCurrSeqNo
                /\ rcvLost' = IF newer THEN rcvLost \cup gap ELSE rcvLost \ {p.seq}
    /\ UNCHANGED <<snd, startPos, lastAckPos, read, rcvLastAck, rcvLastAckAck, rcvBroken, rcvApp>>

\* Faulty: the largest number received is acknowledged although earlier ones are missing.
AckNumberPastLoss == IncSeq(rcvCurrSeqNo)

\* The number to acknowledge: the first that is missing.
AckNumber == IF rcvLost = {} THEN IncSeq(rcvCurrSeqNo) ELSE FirstSeq(rcvLost)

\* sendCtrl(2): data up to the acknowledged number become readable, a caller of
\* recv is woken, and the ACK goes out unless the sender is known to have it.
SendAck ==
    /\ ~rcvBroken
    /\ UNCHANGED <<snd, unit, startPos, read, rcvLastAckAck, rcvCurrSeqNo, rcvLost, rcvExp, rcvBroken>>
    /\ AckNumber # rcvLastAckAck
    /\ SeqCmp(AckNumber, rcvLastAck) >= 0
    /\ rcvLastAck' = AckNumber
    /\ lastAckPos' = (lastAckPos + SeqOff(rcvLastAck, AckNumber)) % RcvBufSize
    /\ rcvApp' = IF SeqCmp(AckNumber, rcvLastAck) > 0 THEN "ready" ELSE rcvApp
    /\ IF SeqCmp(AckNumber, rcvLastAckAck) > 0
       THEN Sends(AckPkt(AckNumber, Window')) ELSE UNCHANGED net

\* A light ACK carries the number alone, and changes nothing here.
SendLightAck ==
    /\ ~rcvBroken /\ AckNumber # rcvLastAckAck
    /\ Sends(LightAckPkt(AckNumber))
    /\ UNCHANGED <<snd, rcv>>

\* The periodic loss report.
SendNak ==
    /\ ~rcvBroken /\ rcvLost # {}
    /\ Sends(NakPkt(rcvLost))
    /\ UNCHANGED <<snd, rcv>>

\* ACK2: found in the ACK window and with a round trip above zero, it moves
\* m_iRcvLastAckAck; else it is as if it were lost (core.cpp:1812-1841).
ReceiveAck2(p) ==
    /\ p.type = "ack2" /\ ~rcvBroken
    /\ net' = net \ {p} /\ rcvExp' = 1
    /\ rcvLastAckAck' \in {rcvLastAckAck,
                           IF SeqCmp(p.ack, rcvLastAckAck) > 0 THEN p.ack ELSE rcvLastAckAck}
    /\ UNCHANGED <<snd, rcvData, rcvLastAck, rcvCurrSeqNo, rcvLost, rcvBroken, rcvApp>>

ReceiverHearsAlive(p) ==
    /\ p = KeepAlive("receiver") /\ ~rcvBroken
    /\ net' = net \ {p} /\ rcvExp' = 1
    /\ UNCHANGED <<snd, rcvData, rcvProt, rcvBroken, rcvApp>>

\* The expiration timer of an endpoint that has sent nothing.
ReceiverExpires ==
    /\ ~rcvBroken
    /\ \/ rcvExp > ExpLimit /\ rcvBroken' = TRUE /\ rcvApp' = "ready" /\ UNCHANGED <<net, rcvExp>>
       \/ /\ Sends(KeepAlive("sender"))
          /\ rcvExp' = IF rcvExp <= ExpLimit THEN rcvExp + 1 ELSE rcvExp
          /\ UNCHANGED <<rcvBroken, rcvApp>>
    /\ UNCHANGED <<snd, rcvData, rcvProt>>

\* recv: readable blocks are taken, also after a break; without any the caller
\* waits on m_RecvDataCond.
Recv ==
    /\ rcvApp = "ready"
    /\ IF RcvDataSize > 0
       THEN /\ read' = Append(read, unit[startPos])
            /\ unit' = [unit EXCEPT ![startPos] = Free]
            /\ startPos' = (startPos + 1) % RcvBufSize
            /\ UNCHANGED rcvApp
       ELSE ~rcvBroken /\ rcvApp' = "asleep" /\ UNCHANGED <<read, unit, startPos>>
    /\ UNCHANGED <<net, snd, lastAckPos, rcvProt, rcvExp, rcvBroken>>

-----------------------------------------------------------------------------
SenderStep ==
    Send \/ PackStart \/ PackResend \/ PackNew \/ SendPacket \/ AckData \/ AckWake \/ SenderExpires
ReceiverStep == SendAck \/ SendLightAck \/ SendNak \/ ReceiverExpires \/ Recv

Arrives(p) ==
    \/ ReceiveLightAck(p) \/ ReceiveAck(p) \/ ReceiveNak(p) \/ SenderHearsAlive(p)
    \/ ReceiveData(p) \/ ReceiveAck2(p) \/ ReceiverHearsAlive(p)

Next == SenderStep \/ ReceiverStep \/ \E p \in net : Arrives(p)

Spec == Init /\ [][Next]_vars

\* Fairness.  The worker of each queue loops for ever and a lock is not kept
\* from one that waits for it; timers fire.  The network loses packets, but not
\* every copy of one that is sent again and again: the block that the receiver
\* waits for and the acknowledgement of what it has.
WorkersRun ==
    /\ WF_vars(PackStart) /\ WF_vars(PackResend) /\ WF_vars(PackNew) /\ WF_vars(SendPacket)
    /\ WF_vars(AckData) /\ SF_vars(AckWake) /\ SF_vars(SenderExpires)
    /\ WF_vars(Recv) /\ WF_vars(Send) /\ WF_vars(SendAck)

Awaited(p)     == p.type = "data" /\ p.seq = AckNumber
AnswersAll(p)  == p.type = "ack" /\ p.ack = AckNumber

NetworkIsFair ==
    /\ SF_vars(SendPacket /\ \E p \in net' : Awaited(p))
    /\ SF_vars(\E p \in net : Awaited(p) /\ ReceiveData(p))
    /\ SF_vars(SendAck /\ \E p \in net' : AnswersAll(p))
    /\ SF_vars(\E p \in net : AnswersAll(p) /\ ReceiveAck(p))

FairSpec == Spec /\ WorkersRun /\ NetworkIsFair

-----------------------------------------------------------------------------
TypeOK ==
    /\ written \in 0 .. Blocks /\ sndBuf \in Seq(1 .. Blocks) /\ currBlock \in 0 .. Len(sndBuf)
    /\ {sndLastAck, sndLastDataAck, sndCurrSeqNo} \subseteq SeqNo /\ sndLost \subseteq SeqNo
    /\ flowWindow \in Int
    /\ sndExp \in 1 .. ExpLimit + 1 /\ rcvExp \in 1 .. ExpLimit + 1
    /\ {sndBroken, rcvBroken, scheduled} \subseteq BOOLEAN
    /\ {sndApp, rcvApp} \subseteq {"ready", "asleep"}
    /\ packing \in [at : {"idle", "resend", "new", "sending"}, seq : SeqNo \cup {NoNum},
                    window : Int, block : 0 .. Blocks]
    /\ acking \in [at : {"idle", "window", "wake"}, ack : SeqNo \cup {NoNum}]
    /\ unit \in [Slots -> 0 .. Blocks] /\ startPos \in Slots /\ lastAckPos \in Slots
    /\ {rcvLastAck, rcvLastAckAck, rcvCurrSeqNo} \subseteq SeqNo /\ rcvLost \subseteq SeqNo
    /\ read \in Seq(1 .. Blocks)

\* How many numbers of the stream lie before s.
Before(s) == SeqOff(FirstSeqNo, s)

\* A retransmission finds the block of its number: the buffer begins with the
\* block of m_iSndLastDataAck, and m_pCurrBlock stands behind the one of
\* m_iSndCurrSeqNo, although the two workers move them (buffer.cpp:204-265,
\* core.cpp:1738-1760, 1991-1998).  A packet may yet leave with contents that send has
\* overwritten meanwhile (queue.cpp:525-528, buffer.cpp:117-155), but only under a number
\* whose acknowledgement is processed: the receiver has passed it.
BlocksMatchNumbers ==
    /\ \A k \in DOMAIN sndBuf : sndBuf[k] = Before(sndLastDataAck) + k
    /\ acking.at # "window" => currBlock = SeqOff(sndLastDataAck, IncSeq(sndCurrSeqNo))
    /\ \A p \in net : p.type = "data" =>
           \/ p.block = Before(p.seq) + 1
           \/ p.block = Overwritten /\ SeqCmp(p.seq, sndLastDataAck) < 0

\* Everything the sender takes as acknowledged has been received, whatever
\* acknowledgements were lost, overtaken or repeated: it may forget the block
\* (core.cpp:1741).
AckedIsReceived ==
    LET Received(ack) == /\ SeqCmp(ack, IncSeq(rcvCurrSeqNo)) <= 0
                         /\ \A s \in rcvLost : SeqCmp(s, ack) >= 0
    IN  /\ Before(sndLastDataAck) <= Before(sndLastAck)
        /\ Received(sndLastAck) /\ Received(rcvLastAck) /\ Received(rcvLastAckAck)
        /\ \A p \in net : p.type \in {"ack", "lite"} => Received(p.ack)

\* What recv finds between m_iStartPos and m_iLastAckPos is there and in order
\* (buffer.cpp:390-425), and is all that was acknowledged and not read: the slot that
\* is kept free tells a full buffer from an empty one.
ReadableIsStored ==
    /\ RcvDataSize = Before(rcvLastAck) - Len(read)
    /\ \A k \in 0 .. RcvDataSize - 1 :
           unit[(startPos + k) % RcvBufSize] = Len(read) + 1 + k

\* "this should not happen: attack or bug" (core.cpp:1724, 1895): no packet of an
\* honest peer, however late, makes the sender break the connection.
NeverTakenForAttack ==
    \A p \in net :
        /\ p.type = "ack" => SeqCmp(p.ack, IncSeq(sndCurrSeqNo)) <= 0
        /\ p.type = "nak" => \A s \in p.lost : SeqCmp(s, sndCurrSeqNo) <= 0

\* The numbers that are sent and not acknowledged fit the buffer of the receiver,
\* hence the loss lists of both ends (core.cpp:686), also when packData goes by a
\* window that an acknowledgement has just replaced, or that was rounded up to two;
\* a lost number is one of them, or of those whose acknowledgement is being processed.
FlightFits ==
    /\ SeqOff(sndLastAck, IncSeq(sndCurrSeqNo)) <= RcvBufSize
    /\ \A s \in sndLost : SeqCmp(s, sndCurrSeqNo) <= 0 /\ SeqCmp(s, sndLastDataAck) >= 0

\* The socket is off the send list and nobody works on it, although the window lets a new
\* block leave.
Stranded ==
    /\ ~sndBroken /\ ~scheduled /\ packing.at = "idle" /\ acking.at = "idle"
    /\ currBlock < Len(sndBuf) /\ flowWindow >= SeqLen(sndLastAck, IncSeq(sndCurrSeqNo))

\* Likewise for what is lost: such a socket has no lost number that still counts.
LostAreServed ==
    ~sndBroken /\ ~scheduled /\ packing.at = "idle" /\ acking.at = "idle" =>
        \A s \in sndLost : SeqCmp(s, sndLastAck) < 0

\* The two steps that leave new blocks behind: the end of an acknowledgement that repeats a
\* number, which may widen the window but wakes nobody (core.cpp:1733, 1741-1746), and
\* packData on a window that such an acknowledgement has just widened (core.cpp:2005-2010).
EndsRepeatedAck == acking.at = "window" /\ acking'.at = "idle"
                     /\ SeqOff(sndLastDataAck, acking.ack) <= 0
GoesByOldWindow == packing.at = "new" /\ packing'.at = "idle" /\ packing.window < flowWindow

\* No socket is forgotten off the send list, whoever works on it (queue.cpp:306-331,
\* core.cpp:1773, 1902): never one with lost numbers to send again, and one with new blocks
\* within the window only by the two steps named; the expiration timer then puts it back.
NothingStrands ==
    [](LostAreServed) /\ [][Stranded' => Stranded \/ EndsRepeatedAck \/ GoesByOldWindow]_vars

\* Retransmissions find the block of their number, what the sender forgets was received, what
\* recv finds is there and in order, what is in flight fits the receiver, and no honest packet
\* is taken for an attack (core.cpp:1675-1921, 1979-2174; buffer.cpp:204-425).
TransferIsSound ==
    /\ TypeOK /\ BlocksMatchNumbers /\ AckedIsReceived /\ ReadableIsStored
    /\ NeverTakenForAttack /\ FlightFits

\* The stream is the one of ByteStream.
Stream == INSTANCE ByteStream
ImplementsByteStream == Stream!Spec

\* Everything that is written arrives, and a caller of send or recv that sleeps
\* while there is room or data is woken, unless the connection breaks.
EverythingArrives ==
    Len(read) < written ~> (Len(read) = written \/ sndBroken \/ rcvBroken)
SendWakes == sndApp = "asleep" ~> (sndApp = "ready" \/ rcvBroken)
DataGoesThrough == EverythingArrives /\ SendWakes
=============================================================================
