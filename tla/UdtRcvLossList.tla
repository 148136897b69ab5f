--------------------------- MODULE UdtRcvLossList ---------------------------
(***************************************************************************)
(* The receiver's loss list of UDT (src/udt/list.cpp, CRcvLossList): like  *)
(* the sender's, but linked both ways, filled only at its end (the caller  *)
(* finds a gap above everything it has seen, core.cpp:2145) and emptied    *)
(* number by number as retransmissions arrive.  One thread uses it.        *)
(*                                                                         *)
(* The calls come from core.cpp: a packet is accepted within BufSize - 1   *)
(* of m_iRcvLastAck, and the list has as many slots (core.cpp:283, 687).   *)
(***************************************************************************)
EXTENDS UdtSeqNo, Sequences

CONSTANTS BufSize,       \* m_iRcvBufSize = m_iFlightFlagSize
          LossLimit,     \* words of a loss report, m_iPayloadSize / 4
          FirstSeqNo,    \* the initial sequence number, m_iISN of the peer
          DropsWrap      \* whether a drop request may cover the wrap of the numbers

VARIABLES list,          \* the arrays and the indices of the list
          ret,           \* what the last call returned or counted
          got,           \* the numbers whose packet is in the receive buffer
          dropped,       \* the numbers that drop requests have covered
          rcvLastAck, rcvCurrSeqNo

vars == <<list, ret, got, dropped, rcvLastAck, rcvCurrSeqNo>>

Slots == 0 .. BufSize - 1
None  == -1

Empty == [data1 |-> [i \in Slots |-> None], data2 |-> [i \in Slots |-> None],
          next |-> [i \in Slots |-> None], prior |-> [i \in Slots |-> None],
          head |-> None, tail |-> None, length |-> 0]

Init == /\ list = Empty
        /\ ret = 0
        /\ got = {} /\ dropped = {}
        /\ rcvLastAck = FirstSeqNo
        /\ rcvCurrSeqNo = DecSeq(FirstSeqNo)

-----------------------------------------------------------------------------
Put(L, i, s1, s2) == [L EXCEPT !.data1[i] = s1, !.data2[i] = IF s2 # s1 THEN s2 ELSE @]

\* Field f of slot i, when there is such a slot.
Linked(L, f, i, v) == IF i = None THEN L ELSE [L EXCEPT ![f][i] = v]

SlotOf(L, s) == (L.head + SeqOff(L.data1[L.head], s)) % BufSize

\* Faulty: the packet that reveals the gap is counted as lost.
InsertedOneMore(L, s1, s2) ==
    LET t == L.tail
        loc == SlotOf(L, s1)
    IN  IF L.length = 0
        THEN [Put(L, 0, s1, s2) EXCEPT !.head = 0, !.tail = 0, !.next[0] = None,
                                       !.prior[0] = None, !.length = SeqLen(s1, s2) + 1]
        ELSE [Put(L, loc, s1, s2) EXCEPT !.next[t] = loc, !.prior[loc] = t, !.next[loc] = None,
                                         !.tail = loc, !.length = @ + SeqLen(s1, s2) + 1]

\* insert: the range joins the last node or becomes a new last node.  (The
\* callers of core.cpp never make it join: the packet before it was received.)
Inserted(L, s1, s2) ==
    LET t == L.tail
        loc == SlotOf(L, s1)
    IN  IF L.length = 0
        THEN [Put(L, 0, s1, s2) EXCEPT !.head = 0, !.tail = 0, !.next[0] = None,
                                       !.prior[0] = None, !.length = SeqLen(s1, s2)]
        ELSE IF L.data2[t] # None /\ IncSeq(L.data2[t]) = s1
        THEN [L EXCEPT !.data2[t] = s2, !.length = @ + SeqLen(s1, s2)]
        ELSE [Put(L, loc, s1, s2) EXCEPT !.next[t] = loc, !.prior[loc] = t, !.next[loc] = None,
                                         !.tail = loc, !.length = @ + SeqLen(s1, s2)]

\* The last slot in use before i, going round the array (list.cpp:587-589).
RECURSIVE UsedBefore(_, _)
UsedBefore(L, i) == LET j == (i - 1 + BufSize) % BufSize
                    IN  IF L.data1[j] # None THEN j ELSE UsedBefore(L, j)

\* A node of one number leaves the list (list.cpp:524-542).
Unlinked(L, i) ==
    LET p == L.prior[i]
        n == L.next[i]
        M == Linked(Linked(L, "next", p, n), "prior", n, p)
    IN  [M EXCEPT !.data1[i] = None, !.head = IF @ = i THEN n ELSE @,
                  \* the tail of a list that becomes empty keeps its value
                  !.tail = IF @ = i /\ L.head # i THEN p ELSE @]

\* Faulty: the successor still points to the node that moved.
MovedUpNoPrior(L, i) ==
    LET j == (i + 1) % BufSize
        M == Linked(Put(L, j, IncSeq(L.data1[i]), L.data2[i]), "next",
                    IF L.head = i THEN None ELSE L.prior[i], j)
    IN  [M EXCEPT !.data1[i] = None, !.data2[i] = None,
                  !.next[j] = L.next[i], !.prior[j] = L.prior[i],
                  !.head = IF @ = i THEN j ELSE @, !.tail = IF @ = i THEN j ELSE @]

\* The first number of a range leaves: its node moves up one slot (list.cpp:546-576).
MovedUp(L, i) ==
    LET j == (i + 1) % BufSize
        M == Linked(Linked(Put(L, j, IncSeq(L.data1[i]), L.data2[i]), "next",
                           IF L.head = i THEN None ELSE L.prior[i], j),
                    "prior", IF L.tail = i THEN None ELSE L.next[i], j)
    IN  [M EXCEPT !.data1[i] = None, !.data2[i] = None,
                  !.next[j] = L.next[i], !.prior[j] = L.prior[i],
                  !.head = IF @ = i THEN j ELSE @, !.tail = IF @ = i THEN j ELSE @]

\* Faulty: a range of two numbers keeps its end when it shrinks to one.
EndedBeforeOpen(L, i, s) == [L EXCEPT !.data2[i] = DecSeq(s)]

\* The range of node i ends before s.
EndedBefore(L, i, s) ==
    [L EXCEPT !.data2[i] = IF s = IncSeq(L.data1[i]) THEN None ELSE DecSeq(s)]

\* s lies inside the range of node i: the part above it becomes a node of its
\* own, one slot after the place of s (list.cpp:606-631).
Split(L, i, s) ==
    LET loc == (SlotOf(L, s) + 1) % BufSize
        M == Linked(EndedBefore(Put(L, loc, IncSeq(s), L.data2[i]), i, s),
                    "prior", IF L.tail = i THEN None ELSE L.next[i], loc)
    IN  [M EXCEPT !.next[loc] = L.next[i], !.next[i] = loc, !.prior[loc] = i,
                  !.tail = IF @ = i THEN loc ELSE @]

Removed(L, s) ==
    LET loc == SlotOf(L, s)
        i == UsedBefore(L, loc)
        Less(M) == [M EXCEPT !.length = @ - 1]
    IN  CASE L.length = 0 \/ SeqOff(L.data1[L.head], s) < 0 -> L
          [] L.length > 0 /\ SeqOff(L.data1[L.head], s) >= 0 ->
               IF s = L.data1[loc]
               THEN Less(IF L.data2[loc] = None THEN Unlinked(L, loc) ELSE MovedUp(L, loc))
               ELSE IF L.data2[i] = None \/ SeqCmp(s, L.data2[i]) > 0 THEN L
               ELSE Less(IF s = L.data2[i] THEN EndedBefore(L, i, s) ELSE Split(L, i, s))

\* remove of a range, one number after the other.  After the wrap the code
\* runs up to, and not including, m_iMaxSeqNo (list.cpp:647).
RECURSIVE RemovedAll(_, _, _)
RemovedAll(L, s1, s2) ==
    IF s1 = s2 THEN Removed(L, s1)
    ELSE RemovedAll(IF s1 = MaxSeqNo THEN L ELSE Removed(L, s1), IncSeq(s1), s2)

-----------------------------------------------------------------------------
RECURSIVE NodesFrom(_, _)
NodesFrom(L, i) == IF i = None THEN <<>> ELSE <<i>> \o NodesFrom(L, L.next[i])

EndOf(L, i) == IF L.data2[i] = None THEN L.data1[i] ELSE L.data2[i]

\* getLossArray: the ranges in order while the report has room; a range of more
\* than one number takes two words (list.cpp:697-713).
RECURSIVE Report(_, _, _)
Report(L, i, len) ==
    IF i = None \/ len >= LossLimit - 1 THEN <<>>
    ELSE <<[from |-> L.data1[i], to |-> EndOf(L, i)]>>
         \o Report(L, L.next[i], IF L.data2[i] = None THEN len + 1 ELSE len + 2)

\* Faulty: the room for a range of two words is not kept.
RECURSIVE ReportOver(_, _, _)
ReportOver(L, i, len) ==
    IF i = None \/ len >= LossLimit THEN <<>>
    ELSE <<[from |-> L.data1[i], to |-> EndOf(L, i)]>>
         \o ReportOver(L, L.next[i], IF L.data2[i] = None THEN len + 1 ELSE len + 2)

GetLossArrayOver(L) == ReportOver(L, L.head, 0)

GetLossArray(L) == Report(L, L.head, 0)

\* Faulty: a range that starts before s1 is taken to end there.
FindStartsOnly(L, s1, s2) ==
    \E i \in Slots : /\ L.data1[i] # None
                      /\ SeqCmp(L.data1[i], s1) >= 0 /\ SeqCmp(L.data1[i], s2) <= 0

\* find: whether a number of the range is lost.
Find(L, s1, s2) ==
    \E i \in Slots :
        /\ L.data1[i] # None
        /\ \/ SeqCmp(L.data1[i], s1) = 0
           \/ SeqCmp(L.data1[i], s1) > 0 /\ SeqCmp(L.data1[i], s2) <= 0
           \/ SeqCmp(L.data1[i], s1) < 0 /\ L.data2[i] # None /\ SeqCmp(L.data2[i], s1) >= 0

\* getFirstLostSeq
GetFirstLostSeq(L) == IF L.length = 0 THEN None ELSE L.data1[L.head]

-----------------------------------------------------------------------------
\* Unused slots keep links that nothing follows; the model resets them, and
\* the tail of an empty list.
Tidy(L) ==
    LET used(i) == L.data1[i] # None
    IN  [L EXCEPT !.next = [i \in Slots |-> IF used(i) THEN @[i] ELSE None],
                  !.prior = [i \in Slots |-> IF used(i) THEN @[i] ELSE None],
                  !.tail = IF L.length = 0 THEN None ELSE @]

\* The numbers that processData accepts (core.cpp:2136).
Window == {IncSeqBy(rcvLastAck, d) : d \in 0 .. BufSize - 2}

\* processData: a gap is inserted, a retransmission removed (core.cpp:2145-2171).
Arrive(s) ==
    /\ s \in Window \ got
    /\ got' = got \cup {s}
    /\ list' = Tidy(CASE SeqCmp(s, IncSeq(rcvCurrSeqNo)) > 0 ->
                           Inserted(list, IncSeq(rcvCurrSeqNo), DecSeq(s))
                      [] SeqCmp(s, rcvCurrSeqNo) <= 0 -> Removed(list, s)
                      [] OTHER -> list)
    /\ ret' = IF SeqCmp(s, rcvCurrSeqNo) > 0 THEN list'.length - list.length
              ELSE list.length - list'.length
    /\ rcvCurrSeqNo' = IF SeqCmp(s, rcvCurrSeqNo) > 0 THEN s ELSE rcvCurrSeqNo
    /\ UNCHANGED <<dropped, rcvLastAck>>

\* A drop request of the sender (core.cpp:1953-1962), within the window.
DropMsg(s1, s2) ==
    /\ s1 \in Window /\ s2 \in Window /\ SeqCmp(s1, s2) <= 0
    /\ s1 > s2 => DropsWrap
    /\ SeqCmp(s1, IncSeq(rcvCurrSeqNo)) <= 0
    /\ list' = Tidy(RemovedAll(list, s1, s2))
    /\ ret' = 0
    /\ dropped' = dropped \cup SeqRange(s1, s2)
    /\ rcvCurrSeqNo' = IF SeqCmp(s2, rcvCurrSeqNo) > 0 THEN s2 ELSE rcvCurrSeqNo
    /\ UNCHANGED <<got, rcvLastAck>>

\* The first number that is missing; the buffer below it is handed over (core.cpp:1490-1515).
Acknowledge ==
    LET ack == IF list.length = 0 THEN IncSeq(rcvCurrSeqNo) ELSE GetFirstLostSeq(list)
    IN  /\ SeqCmp(ack, rcvLastAck) > 0
        /\ rcvLastAck' = ack
        /\ got' = {s \in got : SeqCmp(s, ack) >= 0}
        /\ dropped' = {s \in dropped : SeqCmp(s, ack) >= 0}
        /\ UNCHANGED <<list, ret, rcvCurrSeqNo>>

Next == \/ \E s \in SeqNo : Arrive(s)
        \/ \E s1, s2 \in SeqNo : DropMsg(s1, s2)
        \/ Acknowledge

Spec == Init /\ [][Next]_vars

-----------------------------------------------------------------------------
Numbers(i) == IF list.data1[i] = None THEN {} ELSE SeqRange(list.data1[i], EndOf(list, i))

Contents == UNION {Numbers(i) : i \in Slots}

TypeOK ==
    /\ list \in [data1 : [Slots -> SeqNo \cup {None}], data2 : [Slots -> SeqNo \cup {None}],
                 next : [Slots -> Slots \cup {None}], prior : [Slots -> Slots \cup {None}],
                 head : Slots \cup {None}, tail : Slots \cup {None}, length : 0 .. BufSize]
    /\ ret \in 0 .. BufSize /\ got \subseteq SeqNo /\ dropped \subseteq SeqNo
    /\ {rcvLastAck, rcvCurrSeqNo} \subseteq SeqNo

\* The links agree in both directions with the slots in use, and with head and
\* tail, through every removal of a first, middle or last number (list.cpp:520-635).
LinksAgree ==
    LET nodes == NodesFrom(list, list.head)
    IN  /\ {nodes[k] : k \in DOMAIN nodes} = {i \in Slots : list.data1[i] # None}
        /\ \A k \in 1 .. Len(nodes) - 1 : list.prior[nodes[k + 1]] = nodes[k]
        /\ nodes # <<>> => list.tail = nodes[Len(nodes)] /\ list.prior[list.head] = None
        /\ \A i \in Slots : list.data1[i] = None => list.data2[i] = None

\* Every number between the acknowledged one and the largest received is in
\* the buffer, dropped, or in the list: a packet that is none of these would
\* never be asked for again, and a listed one that is there would be fetched
\* twice (core.cpp:2138-2171).
LossesAreTheGaps ==
    /\ Contents = (IF rcvCurrSeqNo = DecSeq(rcvLastAck) THEN {}
                    ELSE SeqRange(rcvLastAck, rcvCurrSeqNo)) \ (got \cup dropped)
    /\ list.length = Cardinality(Contents)

\* A periodic loss report fits the words it is given and names lost numbers
\* only, the earliest first (list.h: getLossArray; core.cpp:1610).
ReportIsTrue ==
    LET r == GetLossArray(list)
        words == Len(r) + Cardinality({k \in DOMAIN r : r[k].from # r[k].to})
        named == UNION {SeqRange(r[k].from, r[k].to) : k \in DOMAIN r}
    IN  /\ words <= LossLimit
        /\ named \subseteq Contents
        /\ \A s \in named, t \in Contents \ named : SeqCmp(s, t) < 0
        /\ Contents # {} => GetFirstLostSeq(list) \in named

\* find answers from the set.
FindIsTrue == \A s1, s2 \in Window : SeqCmp(s1, s2) <= 0 =>
                  (Find(list, s1, s2) <=> SeqRange(s1, s2) \cap Contents # {})

\* Each call does to the set of lost numbers what list.h:97-160 says of it.
LossSet == INSTANCE UdtLossSet WITH lost <- Contents
ImplementsLossSet == LossSet!Spec
=============================================================================
