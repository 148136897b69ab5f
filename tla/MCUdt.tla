-------------------------------- MODULE MCUdt --------------------------------
(***************************************************************************)
(* Small instances of UDT's lists, queues and buffers for TLC, side by     *)
(* side: one part moves in a behaviour, and Parts says which ones may.     *)
(* The send queue and the messages have an instance for each question.     *)
(***************************************************************************)
EXTENDS UdtCounter, Sequences

CONSTANTS
    Parts,
    FirstSeqNo, FlowWindow,                    \* the two loss lists
    BufSize, LossLimit, DropsWrap,
    AckSize, MaxAckNo, DataAcks,               \* the ACK window
    Sockets, MaxTime, Intervals,               \* the send queue
    HeapSockets, HeapTime, HeapIntervals

VARIABLES
    part,
    sndList, sndRet, sndLastAck, sndLastDataAck, sndCurrSeqNo,
    rcvList, rcvRet, got, dropped, rcvLastAck, rcvCurrSeqNo,
    ring, head, tail, ackNo, answer,
    list, signalling, worker, schedTime, now, closing,
    written, firstBlock, currBlock, sndCurr, sndAck, sent, expired, buf, rcvAck, rcvCurr, rcvLost,
    delivered

sndListVars == <<sndList, sndRet, sndLastAck, sndLastDataAck, sndCurrSeqNo>>
rcvListVars == <<rcvList, rcvRet, got, dropped, rcvLastAck, rcvCurrSeqNo>>
ackVars == <<ring, head, tail, ackNo, answer>>
queueVars == <<list, signalling, worker, schedTime, now, closing>>
messageVars == <<written, firstBlock, currBlock, sndCurr, sndAck, sent, expired, buf, rcvAck,
                 rcvCurr, rcvLost, delivered>>
allVars == <<part, vars, sndListVars, rcvListVars, ackVars, queueVars, messageVars>>

ASSUME ListsFit == /\ FlowWindow \in Nat \ {0} /\ 2 * FlowWindow < SeqNoTH /\ FirstSeqNo \in SeqNo
                   /\ BufSize \in Nat \ {0} /\ BufSize < SeqNoTH /\ LossLimit \in Nat \ {0, 1}
ASSUME WindowFits == AckSize \in Nat \ {0, 1} /\ MaxAckNo \in Nat /\ MaxAckNo >= AckSize
ASSUME QueueHasTime == Sockets # {} /\ MaxTime > 2 /\ HeapTime > 2

SndLoss == INSTANCE UdtSndLossList WITH list <- sndList, ret <- sndRet
RcvLoss == INSTANCE UdtRcvLossList WITH list <- rcvList, ret <- rcvRet
AckWindow == INSTANCE UdtAckWindow WITH Size <- AckSize
Queue == INSTANCE UdtSndQueue
Heap == INSTANCE UdtSndQueue WITH Sockets <- HeapSockets, MaxTime <- HeapTime, Intervals <- HeapIntervals

\* Messages of one, three and two packets, and of one and two.
Whole == INSTANCE UdtMessages WITH
    RcvBufSize <- 7, Messages <- <<1, 3, 2>>, InOrder <- {1, 3}, Mortal <- {}
Dropping == INSTANCE UdtMessages WITH
    RcvBufSize <- 8, Messages <- <<1, 2>>, InOrder <- {1}, Mortal <- {2}

MCInit ==
    /\ part \in Parts
    /\ IF part = "counter" THEN Init ELSE s1 = 0 /\ s2 = 0 /\ d = 0
    /\ SndLoss!Init /\ RcvLoss!Init /\ AckWindow!Init
    /\ IF part = "heap" THEN Heap!Init ELSE Queue!Init
    /\ IF part = "dropping" THEN Dropping!Init ELSE Whole!Init

OnlyCounter == UNCHANGED <<sndListVars, rcvListVars, ackVars, queueVars, messageVars>>
OnlySndLoss == UNCHANGED <<vars, rcvListVars, ackVars, queueVars, messageVars>>
OnlyRcvLoss == UNCHANGED <<vars, sndListVars, ackVars, queueVars, messageVars>>
OnlyAckWindow == UNCHANGED <<vars, sndListVars, rcvListVars, queueVars, messageVars>>
OnlyQueue == UNCHANGED <<vars, sndListVars, rcvListVars, ackVars, messageVars>>
OnlyMessages == UNCHANGED <<vars, sndListVars, rcvListVars, ackVars, queueVars>>

MCNext ==
    /\ UNCHANGED part
    /\ \/ part = "counter" /\ Next /\ OnlyCounter
       \/ part = "sndloss" /\ SndLoss!Next /\ OnlySndLoss
       \/ part = "rcvloss" /\ RcvLoss!Next /\ OnlyRcvLoss
       \/ part = "ackwindow" /\ AckWindow!Next /\ OnlyAckWindow
       \/ part = "queue" /\ Queue!Next /\ OnlyQueue
       \/ part = "heap" /\ Heap!Next /\ OnlyQueue
       \/ part = "messages" /\ Whole!Next /\ OnlyMessages
       \/ part = "dropping" /\ Dropping!Next /\ OnlyMessages

\* The fairness of UdtSndQueue, when it is its turn.
QueueFairness ==
    /\ WF_allVars(part = "queue" /\ Queue!WorkerStep /\ OnlyQueue /\ UNCHANGED part)
    /\ WF_allVars(part = "queue" /\ Queue!Signal /\ OnlyQueue /\ UNCHANGED part)
    /\ WF_allVars(part = "queue" /\ Queue!Tick /\ OnlyQueue /\ UNCHANGED part)
    /\ WF_allVars(part = "queue" /\ Queue!CloseSignals /\ OnlyQueue /\ UNCHANGED part)

MCSpec == MCInit /\ [][MCNext]_allVars /\ QueueFairness
-----------------------------------------------------------------------------
\* Both loss lists implement a set of numbers (list.cpp), also across the wrap, and the ring
\* of sent ACKs the history of the last Size - 1 of them (window.cpp).
ImplementSetAndHistory ==
    SndLoss!ImplementsLossSet /\ RcvLoss!ImplementsLossSet /\ AckWindow!ImplementsAckHistory

\* The arrays of both loss lists agree with their links, indices and counters; the
\* receiver's holds the gaps before m_iRcvCurrSeqNo exactly, and its reports and find tell
\* what it holds (list.cpp, CSndLossList and CRcvLossList).  The indices of the ring of ACKs
\* stay in the array (window.cpp, CACKWindow); the send queue knows its sockets' places and
\* its first is the earliest, as long as it has five sockets at most, and no signal is lost
\* (queue.cpp, CSndUList and CSndQueue::worker).
ListsAndQueuesRight ==
    /\ SndLoss!TypeOK /\ SndLoss!SlotsMatchLinks /\ SndLoss!LastInsertIsANode
    /\ SndLoss!LengthIsContents
    /\ RcvLoss!TypeOK /\ RcvLoss!LinksAgree /\ RcvLoss!LossesAreTheGaps
    /\ RcvLoss!ReportIsTrue /\ RcvLoss!FindIsTrue
    /\ AckWindow!TypeOK
    /\ part = "heap" => Heap!PlacesAreKnown /\ Heap!FirstIsEarliest
    /\ part # "heap" => Queue!TypeOK /\ Queue!WaiterIsSignalled

\* A socket on the send queue is served and the queue can be closed (queue.cpp:452-541).
QueueServes == part = "queue" => Queue!JoinReturns /\ Queue!EntryIsServed

\* Messages are returned whole, once and in the order they ask for, and what was acknowledged
\* is there (buffer.cpp, CRcvBuffer, with packData and processCtrl of core.cpp); the units of
\* the buffer are in use while they are in it, also where messages expire.
MessagesRight ==
    /\ part # "dropping" => /\ Whole!WholeMessages /\ Whole!ReadOnce /\ Whole!OrderKept
                            /\ Whole!BlocksMatchNumbers /\ Whole!NothingSkipped
    /\ part = "dropping" => Dropping!TypeOK /\ Dropping!UnitsInUse /\ Dropping!NothingBeyondMax
=============================================================================
