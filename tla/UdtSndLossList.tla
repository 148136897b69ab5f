--------------------------- MODULE UdtSndLossList ---------------------------
(***************************************************************************)
(* The sender's loss list of UDT (src/udt/list.cpp, CSndLossList): ranges  *)
(* of lost sequence numbers in a fixed array, linked in ascending order.   *)
(* A range that starts d numbers after the head lies d slots after it, so  *)
(* that a slot is found without a search.  The list is shared by the       *)
(* sending thread (getLostSeq) and the receiving one (insert, remove);     *)
(* m_ListLock makes each call one step.                                    *)
(*                                                                         *)
(* The calls come from core.cpp with the sender's window: numbers between  *)
(* m_iSndLastAck and m_iSndCurrSeqNo, at most FlowWindow of them, in an    *)
(* array of FlowWindow * 2 slots (core.cpp:686).                           *)
(***************************************************************************)
EXTENDS UdtSeqNo, Sequences

CONSTANTS FlowWindow,   \* m_iFlowWindowSize when the connection is made
          FirstSeqNo    \* the initial sequence number, m_iISN

VARIABLES list,         \* the arrays and the indices of the list
          ret,          \* what the last call returned
          sndLastAck, sndLastDataAck, sndCurrSeqNo

vars == <<list, ret, sndLastAck, sndLastDataAck, sndCurrSeqNo>>

Size  == 2 * FlowWindow
Slots == 0 .. Size - 1
None  == -1                          \* "no data in the node", and the end of the links

Empty == [data1 |-> [i \in Slots |-> None], data2 |-> [i \in Slots |-> None],
          next |-> [i \in Slots |-> None], head |-> None, length |-> 0, last |-> None]

Init == /\ list = Empty
        /\ ret = 0
        /\ sndLastAck = FirstSeqNo
        /\ sndLastDataAck = FirstSeqNo
        /\ sndCurrSeqNo = DecSeq(FirstSeqNo)

-----------------------------------------------------------------------------
\* The slot of a number, by its distance from the head.
SlotOf(L, s) == (L.head + SeqOff(L.data1[L.head], s) + Size) % Size

\* Write the range s1 .. s2 into slot i: the second number is stored only
\* when the range has more than one, and the slot's old one is not reset.
Put(L, i, s1, s2) ==
    [L EXCEPT !.data1[i] = s1, !.data2[i] = IF s2 # s1 THEN s2 ELSE @]

RECURSIVE LastBefore(_, _, _)
LastBefore(L, i, s) ==
    IF L.next[i] # None /\ SeqCmp(L.data1[L.next[i]], s) < 0
    THEN LastBefore(L, L.next[i], s) ELSE i

\* The last node that starts before s: the search starts at the last insertion
\* when that is before s (list.cpp:153-161).
PriorNode(L, s) ==
    LastBefore(L, IF L.last # None /\ SeqCmp(L.data1[L.last], s) < 0 THEN L.last ELSE L.head, s)

-----------------------------------------------------------------------------
\* insert

\* The node at loc swallows the ones it reaches (list.cpp:218-252).
RECURSIVE Coalesced(_, _)
Coalesced(L, loc) ==
    LET i == L.next[loc]
        end == L.data2[loc]
    IN  IF i = None \/ end = None \/ SeqCmp(L.data1[i], IncSeq(end)) > 0 THEN L
        ELSE LET a == L.data1[i]
                 b == IF L.data2[i] = None THEN a ELSE L.data2[i]
                 \* how many numbers of the swallowed node were counted twice
                 twice == IF L.data2[i] # None
                          THEN IF SeqCmp(b, end) > 0
                               THEN IF SeqCmp(end, a) >= 0 THEN SeqLen(a, end) ELSE 0
                               ELSE SeqLen(a, b)
                          ELSE IF a = IncSeq(end) THEN 0 ELSE 1
             IN  Coalesced([L EXCEPT !.data2[loc] = IF SeqCmp(b, end) > 0 THEN b ELSE @,
                                     !.data1[i] = None, !.data2[i] = None,
                                     !.next[loc] = L.next[i], !.length = @ - twice], loc)

\* Faulty: the last number of the old range is counted again.
ExtendedTwice(L, i, s2) ==
    LET from == IF L.data2[i] = None THEN L.data1[i] ELSE L.data2[i]
    IN  [L EXCEPT !.data2[i] = s2, !.length = @ + SeqLen(from, s2)]

\* The range of node i now ends with s2.
Extended(L, i, s2) ==
    LET from == IF L.data2[i] = None THEN L.data1[i] ELSE L.data2[i]
    IN  [L EXCEPT !.data2[i] = s2, !.length = @ + SeqLen(from, s2) - 1]

\* Faulty: the ends are compared as integers.
CoveredNoWrap(L, i, s1, s2) ==
    IF L.data2[i] = None THEN s2 = L.data1[i] ELSE s2 <= L.data2[i]

\* Nothing to do: the range is already in the node that covers s1.
Covered(L, i, s1, s2) ==
    IF L.data2[i] = None THEN s2 = L.data1[i] ELSE SeqCmp(s2, L.data2[i]) <= 0

Inserted(L, s1, s2) ==
    IF L.length = 0
    THEN [Put(L, 0, s1, s2) EXCEPT !.head = 0, !.next[0] = None, !.last = 0,
                                   !.length = SeqLen(s1, s2)]
    ELSE LET off == SeqOff(L.data1[L.head], s1)
             loc == SlotOf(L, s1)
             prior == PriorNode(L, s1)
         IN  CASE off < 0 ->
                    Coalesced([Put(L, loc, s1, s2) EXCEPT !.next[loc] = L.head, !.head = loc,
                                  !.last = loc, !.length = @ + SeqLen(s1, s2)], loc)
               [] off = 0 \/ s1 = L.data1[loc] ->
                    IF Covered(L, loc, s1, s2) THEN [L EXCEPT !.last = loc]
                    ELSE Coalesced(Extended([L EXCEPT !.last = loc], loc, s2), loc)
               [] L.data2[prior] = None \/ SeqCmp(L.data2[prior], s1) < 0 ->
                    Coalesced([Put(L, loc, s1, s2) EXCEPT !.next[loc] = L.next[prior],
                                  !.next[prior] = loc, !.last = loc,
                                  !.length = @ + SeqLen(s1, s2)], loc)
               [] OTHER ->
                    IF Covered(L, prior, s1, s2) THEN [L EXCEPT !.last = prior]
                    ELSE Coalesced(Extended([L EXCEPT !.last = prior], prior, s2), prior)

-----------------------------------------------------------------------------
\* remove(seqno): everything up to seqno leaves

\* Faulty: nodes leave without being counted.
DroppedUncounted(L, h, to) ==
    LET gone == {i \in Slots : L.data1[i] # None /\ SeqCmp(L.data1[i], L.data1[h]) >= 0
                              /\ (to = None \/ SeqCmp(L.data1[i], L.data1[to]) < 0)}
    IN  [L EXCEPT !.head = to, !.data1 = [i \in Slots |-> IF i \in gone THEN None ELSE @[i]],
                  !.data2 = [i \in Slots |-> IF i \in gone THEN None ELSE @[i]],
                  !.last = IF @ \in gone THEN None ELSE @]

\* The nodes from h up to the new head leave the list (list.cpp:348-365).
RECURSIVE Dropped(_, _, _)
Dropped(L, h, to) ==
    IF h = to THEN [L EXCEPT !.head = to]
    ELSE Dropped([L EXCEPT !.length = @ - (IF L.data2[h] # None
                                           THEN SeqLen(L.data1[h], L.data2[h]) ELSE 1),
                           !.data1[h] = None, !.data2[h] = None,
                           !.last = IF @ = h THEN None ELSE @], L.next[h], to)

\* Slot loc receives the rest of the range of slot i that follows s.
Rest(L, i, loc, s) == Put(L, loc, IncSeq(s),
                          IF SeqCmp(L.data2[i], IncSeq(s)) > 0 THEN L.data2[i] ELSE IncSeq(s))

Removed(L, s) ==
    LET off == SeqOff(L.data1[L.head], s)
        loc == SlotOf(L, s)
        nxt == (loc + 1) % Size
        prior == LastBefore(L, L.head, s)
        Cut(i, end) == [Rest(L, i, nxt, s) EXCEPT !.data2[i] = end, !.next[nxt] = L.next[i],
                                                  !.next[i] = nxt]
    IN  CASE L.length = 0 \/ off < 0 -> L
          [] L.length > 0 /\ off = 0 ->
               LET M == IF L.data2[loc] = None THEN L
                        ELSE [Rest(L, loc, nxt, s) EXCEPT !.next[nxt] = L.next[loc]]
               IN  [M EXCEPT !.data1[loc] = None, !.data2[loc] = None,
                             !.head = IF L.data2[loc] = None THEN L.next[loc] ELSE nxt,
                             !.last = IF @ = loc THEN None ELSE @, !.length = @ - 1]
          [] L.length > 0 /\ off > 0 /\ s = L.data1[loc] ->
               IF L.data2[loc] = None THEN Dropped(L, L.head, L.next[loc])
               ELSE Dropped(Cut(loc, None), L.head, nxt)
          [] L.length > 0 /\ off > 0 /\ s # L.data1[loc] ->
               IF L.data2[prior] # None /\ SeqCmp(L.data2[prior], s) > 0
               THEN Dropped(Cut(prior, s), L.head, nxt)
               ELSE Dropped(L, L.head, L.next[prior])

-----------------------------------------------------------------------------
\* getLostSeq: the first number leaves (list.cpp:376-418)

\* Faulty: the hint of the search survives the node it names.
PoppedKeepsHint(L) ==
    LET h == L.head
        nxt == (h + 1) % Size
        M == IF L.data2[h] = None THEN L
             ELSE [Rest(L, h, nxt, L.data1[h]) EXCEPT !.next[nxt] = L.next[h]]
    IN  [M EXCEPT !.data1[h] = None, !.data2[h] = None, !.length = @ - 1,
                  !.head = IF L.data2[h] = None THEN L.next[h] ELSE nxt]

\* Faulty: the slot that becomes free keeps the end of its range.
PoppedKeepsEnd(L) ==
    LET h == L.head
        nxt == (h + 1) % Size
        M == IF L.data2[h] = None THEN L
             ELSE [Rest(L, h, nxt, L.data1[h]) EXCEPT !.next[nxt] = L.next[h]]
    IN  [M EXCEPT !.data1[h] = None, !.length = @ - 1,
                  !.head = IF L.data2[h] = None THEN L.next[h] ELSE nxt,
                  !.last = IF @ = h THEN None ELSE @]

Popped(L) ==
    LET h == L.head
        nxt == (h + 1) % Size
        M == IF L.data2[h] = None THEN L
             ELSE [Rest(L, h, nxt, L.data1[h]) EXCEPT !.next[nxt] = L.next[h]]
    IN  [M EXCEPT !.data1[h] = None, !.data2[h] = None, !.length = @ - 1,
                  !.head = IF L.data2[h] = None THEN L.next[h] ELSE nxt,
                  !.last = IF @ = h THEN None ELSE @]

-----------------------------------------------------------------------------
\* The calls

Outstanding == IF sndCurrSeqNo = DecSeq(sndLastDataAck) THEN {}
               ELSE SeqRange(sndLastDataAck, sndCurrSeqNo)

\* The links of unused slots keep old values that nothing follows
\* (LastInsertIsANode): the model resets them.
Tidy(L) == [L EXCEPT !.next = [i \in Slots |-> IF L.data1[i] = None THEN None ELSE @[i]]]

Insert(s1, s2) ==
    /\ list' = Tidy(Inserted(list, s1, s2))
    /\ ret' = list'.length - list.length
    /\ UNCHANGED <<sndLastAck, sndLastDataAck, sndCurrSeqNo>>

\* packData: a new number is sent while the window has room (core.cpp:2031).
SendNew ==
    /\ FlowWindow >= SeqLen(sndLastDataAck, IncSeq(sndCurrSeqNo))
    /\ sndCurrSeqNo' = IncSeq(sndCurrSeqNo)
    /\ UNCHANGED <<list, ret, sndLastAck, sndLastDataAck>>

\* A loss report: the part of it from m_iSndLastAck on is inserted (core.cpp:1867-1886).
Nak(a, b) ==
    /\ SeqCmp(a, b) <= 0
    /\ SeqCmp(b, sndLastAck) >= 0
    /\ Insert(IF SeqCmp(a, sndLastAck) >= 0 THEN a ELSE sndLastAck, b)

\* The expiration timer: everything that is not acknowledged is lost (core.cpp:2304).
Expire == /\ IncSeq(sndCurrSeqNo) # sndLastAck
          /\ Insert(sndLastAck, sndCurrSeqNo)

\* A light acknowledgement moves m_iSndLastAck alone (core.cpp:1683-1699).
LightAck(a) ==
    /\ SeqCmp(a, sndLastAck) > 0
    /\ sndLastAck' = a
    /\ UNCHANGED <<list, ret, sndLastDataAck, sndCurrSeqNo>>

\* A full acknowledgement empties the list below it (core.cpp:1729-1758).
Ack(a) ==
    /\ SeqCmp(a, sndLastDataAck) > 0
    /\ sndLastAck' = IF SeqCmp(a, sndLastAck) >= 0 THEN a ELSE sndLastAck
    /\ sndLastDataAck' = a
    /\ list' = Tidy(Removed(list, DecSeq(a)))
    /\ ret' = 0
    /\ UNCHANGED sndCurrSeqNo

GetLostSeq ==
    /\ list' = IF list.length = 0 THEN list ELSE Tidy(Popped(list))
    /\ ret' = IF list.length = 0 THEN None ELSE list.data1[list.head]
    /\ UNCHANGED <<sndLastAck, sndLastDataAck, sndCurrSeqNo>>

Next == \/ SendNew \/ Expire \/ GetLostSeq
        \/ \E a, b \in Outstanding : Nak(a, b)
        \/ \E a \in Outstanding \cup {IncSeq(sndCurrSeqNo)} : LightAck(a) \/ Ack(a)

Spec == Init /\ [][Next]_vars

-----------------------------------------------------------------------------
\* The numbers that the slots in use hold.
Numbers(L, i) == IF L.data1[i] = None THEN {}
                 ELSE SeqRange(L.data1[i], IF L.data2[i] = None THEN L.data1[i] ELSE L.data2[i])

Contents == UNION {Numbers(list, i) : i \in Slots}

RECURSIVE NodesFrom(_, _)
NodesFrom(L, i) == IF i = None THEN {} ELSE {i} \cup NodesFrom(L, L.next[i])

TypeOK ==
    /\ list \in [data1 : [Slots -> SeqNo \cup {None}], data2 : [Slots -> SeqNo \cup {None}],
                 next : [Slots -> Slots \cup {None}], head : Slots \cup {None},
                 length : 0 .. FlowWindow, last : Slots \cup {None}]
    /\ ret \in SeqNo \cup {None}
    /\ {sndLastAck, sndLastDataAck, sndCurrSeqNo} \subseteq SeqNo

\* The array and the links agree: the slots in use are those that the links
\* reach from the head, each at the distance of its first number, and an
\* unused slot keeps no end of an old range for the next insertion to find
\* (Put does not reset it, list.cpp:115-117).
SlotsMatchLinks ==
    /\ {i \in Slots : list.data1[i] # None} = NodesFrom(list, list.head)
    /\ \A i \in Slots : list.data1[i] # None => SlotOf(list, list.data1[i]) = i
    /\ \A i \in Slots : list.data1[i] = None => list.data2[i] = None

\* The hint of the search is a node of the list: a search that began at a slot
\* that has left it would follow links that lead nowhere (list.cpp:155).
LastInsertIsANode == list.last # None => list.data1[list.last] # None

\* m_iLength counts the numbers in the list (getLossLength; insert returns
\* how many were new, list.h:57).
LengthIsContents == list.length = Cardinality(Contents)

\* The list is the set of lost numbers of UdtLossSet: whatever ranges are
\* inserted, cut and merged, and whether or not the numbers wrap, each call
\* does to the set what list.h:49-85 says of it.
LossSet == INSTANCE UdtLossSet WITH lost <- Contents
ImplementsLossSet == LossSet!Spec
=============================================================================
