---------------------------- MODULE UdtSndQueue ----------------------------
(***************************************************************************)
(* The send queue of UDT (src/udt/queue.cpp): CSndUList, a heap of the     *)
(* sockets that have something to send, ordered by the time of their next  *)
(* packet, the worker thread that serves it, and the interruptible timer   *)
(* it sleeps on (CTimer::sleepto, common.cpp).                             *)
(*                                                                         *)
(* The workers of the receive queue, the applications and the garbage      *)
(* collector call update and remove; m_ListLock makes each call one step,  *)
(* except that the signal for a first entry needs m_WindowLock as well and *)
(* is a step of its own.  What packData does is UdtTransfer's matter: here *)
(* it has a packet or none, and names the time of the next one or none.    *)
(***************************************************************************)
EXTENDS Integers, Sequences, FiniteSets

CONSTANTS Sockets,
          MaxTime,        \* bound of the clock
          Intervals       \* the times between two packets of a socket that are tried

VARIABLES
    list,         \* CSndUList, see below
    signalling,   \* a caller of insert_ holds m_ListLock and is about to signal
    worker,       \* where the worker is, and the time it has read
    schedTime,    \* CTimer::m_ullSchedTime
    now,          \* the clock
    closing       \* m_bClosing: "no", "set", or "joining" once the destructor has signalled

vars == <<list, signalling, worker, schedTime, now, closing>>

Time == 0 .. MaxTime

\* heap: m_pHeap[0 .. m_iLastEntry], with positions counted from 1; loc and ts:
\* m_iHeapLoc + 1, so 0 off the list, and m_llTimeStamp of every socket's node.
\* The clock has passed 1, the time stamp that stands for "now".
Init ==
    /\ list = [heap |-> <<>>, loc |-> [u \in Sockets |-> 0], ts |-> [u \in Sockets |-> 0]]
    /\ signalling = FALSE /\ worker = [at |-> "look", until |-> 0]
    /\ schedTime = 0 /\ now = 2 /\ closing = "no"

-----------------------------------------------------------------------------
\* The heap.

Ancestors(k) == {j \in 1 .. k : \E d \in 0 .. 5 : j = k \div 2^d}

\* Faulty: an entry that is swapped is not told where it is.
ToldNobody(loc, heap, places) == loc

\* The entries that now stand at these places are told so.
Told(loc, heap, places) ==
    [u \in Sockets |-> IF \E j \in places : heap[j] = u
                       THEN CHOOSE j \in places : heap[j] = u ELSE loc[u]]

\* insert_: the new entry goes last and is swapped up past later ones.
Inserted(l, u, t) ==
    LET q == Append(l.heap, u)
        n == Len(q)
        land[k \in 1 .. n] == IF k = 1 \/ l.ts[q[k \div 2]] <= t THEN k ELSE land[k \div 2]
        moved == {j \in Ancestors(n) : j > land[n]}
        heap == [j \in 1 .. n |-> IF j = land[n] THEN u
                                  ELSE IF j \in moved THEN q[j \div 2] ELSE q[j]]
    IN  [heap |-> heap, loc |-> Told(l.loc, heap, moved \cup {land[n]}),
         ts |-> [l.ts EXCEPT ![u] = t]]

\* Faulty: the last entry takes the place of the one that leaves, and stays there.
WithoutSinking(l, u) ==
    LET n == Len(l.heap) - 1
        w == l.heap[n + 1]
        i == l.loc[u]
    IN  [l EXCEPT !.heap = [j \in 1 .. n |-> IF j = i THEN w ELSE l.heap[j]],
                  !.loc = [@ EXCEPT ![w] = i, ![u] = 0]]

\* remove_ of a socket that is on the list: the last entry takes its place and
\* is swapped down past earlier ones.  It is never swapped up.
Without(l, u) ==
    LET n == Len(l.heap) - 1
        w == l.heap[n + 1]
        i == l.loc[u]
        q == [j \in 1 .. n |-> IF j = i THEN w ELSE l.heap[j]]
        child(k) == IF 2 * k + 1 <= n /\ l.ts[q[2 * k]] > l.ts[q[2 * k + 1]]
                    THEN 2 * k + 1 ELSE 2 * k
        land[k \in 1 .. n] == IF 2 * k > n \/ l.ts[w] <= l.ts[q[child(k)]]
                              THEN k ELSE land[child(k)]
        moved == IF i > n THEN {} ELSE {j \in Ancestors(land[i]) : j >= i /\ j < land[i]}
        heap == [j \in 1 .. n |-> IF j \in moved THEN q[child(j)]
                                  ELSE IF i <= n /\ j = land[i] THEN w ELSE q[j]]
        places == moved \cup (IF i <= n THEN {land[i]} ELSE {})
    IN  [l EXCEPT !.heap = heap, !.loc = [Told(@, heap, places) EXCEPT ![u] = 0]]

-----------------------------------------------------------------------------
\* Calls from other threads, each under m_ListLock.

\* insert_ has entered u: a first entry calls for a signal.
Enters(l, u, t) ==
    /\ list' = Inserted(l, u, t)
    /\ signalling' = (l.heap = <<>>)

\* Faulty: put on the list although it may be there.
UpdateAgain(u) ==
    /\ ~signalling
    /\ Enters(list, u, 1)
    /\ UNCHANGED <<worker, schedTime, now, closing>>

\* update(u, false): put on the list unless it is there (send, ACK).
Update(u) ==
    /\ ~signalling /\ list.loc[u] = 0
    /\ Enters(list, u, 1)
    /\ UNCHANGED <<worker, schedTime, now, closing>>

\* update(u) of a socket that is on the list: it is rescheduled for now, as the
\* first entry by interrupting the timer, else by leaving and entering again
\* (NAK, expiration, broken connection).
Reschedule(u) ==
    /\ ~signalling /\ list.loc[u] > 0
    /\ IF list.loc[u] = 1
       THEN /\ list' = [list EXCEPT !.ts[u] = 1]
            /\ schedTime' = now
            /\ UNCHANGED signalling
       ELSE Enters(Without(list, u), u, 1) /\ UNCHANGED schedTime
    /\ UNCHANGED <<worker, now, closing>>

\* Faulty: a first entry signals nobody.
SignalNobody ==
    /\ signalling /\ signalling' = FALSE
    /\ UNCHANGED <<list, schedTime, now, closing, worker>>

\* The signal of a first entry, under m_WindowLock.
Signal ==
    /\ signalling /\ signalling' = FALSE
    /\ worker' = IF worker.at = "waiting" THEN [worker EXCEPT !.at = "look"] ELSE worker
    /\ UNCHANGED <<list, schedTime, now, closing>>

\* remove(u): the socket closes.
Remove(u) ==
    /\ ~signalling /\ list.loc[u] > 0
    /\ list' = Without(list, u)
    /\ UNCHANGED <<signalling, worker, schedTime, now, closing>>

-----------------------------------------------------------------------------
\* The worker.

\* The loop's test, and getNextProcTime.
Look ==
    /\ worker.at = "look" /\ ~signalling
    /\ worker' = IF closing # "no" THEN [at |-> "gone", until |-> 0]
                 ELSE IF list.heap = <<>> THEN [at |-> "wait", until |-> 0]
                 ELSE LET ts == list.ts[list.heap[1]]
                      IN  [at |-> IF now < ts THEN "sleep" ELSE "pop", until |-> ts]
    /\ UNCHANGED <<list, signalling, schedTime, now, closing>>

\* sleepto begins.
FallAsleep ==
    /\ worker.at = "sleep"
    /\ schedTime' = worker.until
    /\ worker' = [worker EXCEPT !.at = "asleep"]
    /\ UNCHANGED <<list, signalling, now, closing>>

WakeUp ==
    /\ worker.at = "asleep" /\ schedTime <= now
    /\ worker' = [worker EXCEPT !.at = "pop"]
    /\ UNCHANGED <<list, signalling, schedTime, now, closing>>

\* pop: the first entry leaves.  It has no packet, or one and no time for the
\* next, or one and a time, at which it enters again.  The signal of that entry
\* finds nobody waiting: the worker itself gives it.
Pop ==
    /\ worker.at = "pop" /\ ~signalling
    /\ worker' = [at |-> "look", until |-> 0]
    /\ IF list.heap = <<>> THEN UNCHANGED list
       ELSE LET u == Head(list.heap)
            IN  \/ list' = Without(list, u)
                \/ \E d \in Intervals : /\ now + d <= MaxTime
                                        /\ list' = Inserted(Without(list, u), u, now + d)
    /\ UNCHANGED <<signalling, schedTime, now, closing>>

\* Faulty: the list is not looked at again under m_WindowLock.
WaitUnchecked ==
    /\ worker.at = "wait"
    /\ worker' = [worker EXCEPT !.at = "waiting"]
    /\ UNCHANGED <<list, signalling, schedTime, now, closing>>

\* Under m_WindowLock: the list, whose length is read without m_ListLock, and
\* m_bClosing are tested again before the wait.
Wait ==
    /\ worker.at = "wait"
    /\ worker' = [worker EXCEPT !.at = IF closing = "no" /\ list.heap = <<>>
                                       THEN "waiting" ELSE "look"]
    /\ UNCHANGED <<list, signalling, schedTime, now, closing>>

Tick ==
    /\ now < MaxTime /\ now' = now + 1
    /\ UNCHANGED <<list, signalling, worker, schedTime, closing>>

\* The destructor of the queue, when its sockets are gone: m_bClosing is set,
\* then signalled, and the worker is joined.
Close ==
    /\ closing = "no" /\ list.heap = <<>> /\ ~signalling
    /\ closing' = "set"
    /\ UNCHANGED <<list, signalling, worker, schedTime, now>>

\* Faulty: the worker is joined without a signal.
CloseSilently ==
    /\ closing = "set" /\ closing' = "joining"
    /\ UNCHANGED <<list, signalling, schedTime, now, worker>>

CloseSignals ==
    /\ closing = "set" /\ closing' = "joining"
    /\ worker' = IF worker.at = "waiting" THEN [worker EXCEPT !.at = "look"] ELSE worker
    /\ UNCHANGED <<list, signalling, schedTime, now>>

Callers == closing = "no" /\ \E u \in Sockets : Update(u) \/ Reschedule(u) \/ Remove(u)

WorkerStep == Look \/ FallAsleep \/ WakeUp \/ Pop \/ Wait

Next == Callers \/ Signal \/ WorkerStep \/ Tick \/ Close \/ CloseSignals

Spec == Init /\ [][Next]_vars

\* The worker runs and time passes; a caller that is about to signal does so.
FairSpec == Spec /\ WF_vars(WorkerStep) /\ WF_vars(Signal) /\ WF_vars(Tick) /\ WF_vars(CloseSignals)

-----------------------------------------------------------------------------
TypeOK ==
    /\ list.heap \in Seq(Sockets) /\ Len(list.heap) <= Cardinality(Sockets)
    /\ list.loc \in [Sockets -> 0 .. Cardinality(Sockets)] /\ list.ts \in [Sockets -> Time]
    /\ signalling \in BOOLEAN
    /\ worker \in [at : {"look", "sleep", "asleep", "pop", "wait", "waiting", "gone"}, until : Time]
    /\ schedTime \in Time /\ now \in Time /\ closing \in {"no", "set", "joining"}

\* Every node knows its place, and no socket is on the list twice: update and
\* remove find it by m_iHeapLoc alone (queue.cpp:286-296, 394-403).
PlacesAreKnown ==
    /\ \A k \in DOMAIN list.heap : list.loc[list.heap[k]] = k
    /\ \A u \in Sockets : list.loc[u] > 0 => list.loc[u] <= Len(list.heap)
    /\ Cardinality({u \in Sockets : list.loc[u] > 0}) = Len(list.heap)

\* "Scheduled processing time of the first UDT socket in the list" (queue.h:196):
\* the time that the worker sleeps for is the earliest of the list.
FirstIsEarliest ==
    \A k \in DOMAIN list.heap : list.ts[list.heap[1]] <= list.ts[list.heap[k]]

\* No wakeup is lost between the test of an empty list and the wait: while the
\* worker waits, a socket on the list has its signal under way (queue.cpp:382-391, 537-541).
WaiterIsSignalled == worker.at = "waiting" /\ list.heap # <<>> => signalling

\* The destructor's join returns (queue.cpp:452-459), also when the worker sleeps
\* for a socket that has left.
JoinReturns == closing = "joining" ~> worker.at = "gone"

\* A socket that is put on an idle queue is served, or leaves.
EntryIsServed == list.heap # <<>> ~> (worker.at = "pop" \/ list.heap = <<>>)
=============================================================================
