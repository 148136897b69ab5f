-------------------------- MODULE KadServiceProofs --------------------------
(***************************************************************************)
(* Theorems about DataStore, for every set of threads, keys and values,    *)
(* and then about KadService, which inherits them.                         *)
(***************************************************************************)
EXTENDS KadService, TLAPS

-----------------------------------------------------------------------------
(* Operators.                                                              *)

\* A sum of a time and a time to live is again a time.
LEMMA U32Type ==
    ASSUME NEW x \in -Half .. Modulus + Half - 1
    PROVE  U32(x) \in Times
  BY StoreAssumption DEF U32, Times, Modulus

LEMMA ConstantFacts ==
    /\ Half \in Nat \ {0} /\ Modulus \in Nat /\ MaxClock \in Nat
    /\ StartClock \in Nat /\ 1 <= StartClock /\ StartClock <= MaxClock
    /\ MaxClock < Modulus /\ "none" \in DelReqs
    /\ \A ttl \in Ttls : ttl \in Int /\ -Half <= ttl /\ ttl < Half
  BY StoreAssumption DEF Modulus

LEMMA AbsentType == Absent \in Tuple
  BY ConstantFacts DEF Absent, Tuple, Times

LEMMA NewTupleType ==
    ASSUME NEW now \in StartClock .. MaxClock, NEW ttl \in Ttls, NEW h \in Hashables
    PROVE  NewTuple(now, ttl, h) \in {r \in Tuple : r.status = "NOT_DELETED"}
  <1>1. h \in BOOLEAN
    BY StoreAssumption
  <1>2. now \in Times
    BY ConstantFacts DEF Times
  <1>3. (IF ttl < 0 THEN 0 ELSE U32(now + ttl)) \in Times
    <2>1. now + ttl \in -Half .. Modulus + Half - 1
      BY ConstantFacts
    <2> QED
      BY <2>1, U32Type, ConstantFacts DEF Times
  <1> QED
    BY <1>1, <1>2, <1>3, ConstantFacts DEF NewTuple, Tuple

LEMMA UpdatedTupleType ==
    ASSUME NEW now \in StartClock .. MaxClock, NEW ttl \in Ttls, NEW h \in Hashables
    PROVE  [NewTuple(now, ttl, h) EXCEPT !.expire = U32(now + ttl)] \in Tuple
  <1>1. now + ttl \in -Half .. Modulus + Half - 1
    BY ConstantFacts
  <1> QED
    BY <1>1, U32Type, NewTupleType DEF Tuple

\* Whatever the container becomes, the history is typed.
LEMMA BecomesType ==
    ASSUME NEW ds \in [Pairs -> Tuple], NEW S, TypeOK, Becomes(ds, S)
    PROVE  /\ datastore' \in [Pairs -> Tuple]
           /\ revoked' \in [Pairs -> -1 .. Modulus]
  <1>1. \A r \in Tuple : LeaseEnd(r) \in -1 .. Modulus
    BY ConstantFacts DEF LeaseEnd, Forever, Tuple, Times
  <1>2. NoLease \in -1 .. Modulus
    BY ConstantFacts DEF NoLease
  <1> QED
    BY <1>1, <1>2 DEF Becomes, TypeOK

\* Returning from a call keeps the calls typed: the other threads' iterators
\* are moved, dangle or are lost.
LEMMA ReturnType ==
    ASSUME NEW t \in Threads, NEW S, NEW renamed \in [Pairs -> Pairs],
           TypeOK, Return(t, S, renamed)
    PROVE  calls' \in [Threads -> Calls]
  <1>1. Idle \in Calls
    BY DEF Idle, Calls
  <1>2. ASSUME NEW c \in Calls, c.op = "DeleteItem"
        PROVE  c \in [op : {"DeleteItem"}, pair : Pairs, at : {"node", "end", "dangling"}]
    BY <1>2 DEF Calls
  <1>3. ASSUME NEW c \in Calls, c.op = "DeleteItem"
        PROVE  /\ [c EXCEPT !.at = "end"] \in Calls
               /\ [c EXCEPT !.at = "dangling"] \in Calls
               /\ [c EXCEPT !.pair = renamed[c.pair]] \in Calls
    BY <1>2, <1>3 DEF Calls
  <1> QED
    BY <1>1, <1>3 DEF Return, TypeOK

LEMMA InPlaceType == InPlace \in [Pairs -> Pairs]
  BY DEF InPlace

-----------------------------------------------------------------------------
(* Type correctness.                                                       *)

LEMMA TypeInit == Init => TypeOK
  <1> SUFFICES ASSUME Init PROVE TypeOK
    OBVIOUS
  <1>1. Idle \in Calls
    BY DEF Idle, Calls
  <1>2. StartClock \in StartClock .. MaxClock /\ NoLease \in -1 .. Modulus
    BY StoreAssumption, ConstantFacts DEF NoLease
  <1> QED
    BY <1>1, <1>2, AbsentType DEF Init, TypeOK

LEMMA PutType ==
    ASSUME NEW p \in Pairs, NEW r \in Tuple, TypeOK, Put(p, r)
    PROVE  /\ datastore' \in [Pairs -> Tuple]
           /\ revoked' \in [Pairs -> -1 .. Modulus]
  <1>1. [datastore EXCEPT ![p] = r] \in [Pairs -> Tuple]
    BY DEF TypeOK
  <1> QED
    BY <1>1, BecomesType DEF Put

LEMMA EraseType ==
    ASSUME NEW S, TypeOK
    PROVE  Erase(S) \in [Pairs -> Tuple]
  BY AbsentType DEF Erase, TypeOK

LEMMA TypeNext ==
    ASSUME TypeOK, [Next]_vars
    PROVE  TypeOK'
  <1> USE DEF TypeOK
  <1>1. ASSUME NEW t \in Threads, NEW p \in Pairs, NEW ttl \in Ttls,
               NEW h \in Hashables, StoreItemStamp(t, p, ttl, h)
        PROVE  TypeOK'
    <2>1. [op |-> "StoreItem", pair |-> p, tuple |-> NewTuple(clock, ttl, h)] \in Calls
      BY NewTupleType DEF Calls
    <2> QED
      BY <1>1, <2>1 DEF StoreItemStamp
  <1>2. ASSUME NEW t \in Threads, StoreItemCommit(t)
        PROVE  TypeOK'
    <2>1. calls[t] \in [op : {"StoreItem"}, pair : Pairs,
                         tuple : {r \in Tuple : r.status = "NOT_DELETED"}]
      BY <1>2 DEF StoreItemCommit, Calls
    <2>2. Idle \in Calls
      BY DEF Idle, Calls
    <2>3. CASE Present(datastore[calls[t].pair]) => MayReplace(datastore[calls[t].pair], calls[t].tuple)
      BY <1>2, <2>1, <2>3, PutType, ReturnType, InPlaceType DEF StoreItemCommit
    <2>4. CASE ~(Present(datastore[calls[t].pair]) => MayReplace(datastore[calls[t].pair], calls[t].tuple))
      BY <1>2, <2>2, <2>4 DEF StoreItemCommit
    <2> QED
      BY <2>3, <2>4
  <1>3. ASSUME NEW t \in Threads, NEW p \in Pairs, DeleteItemFind(t, p)
        PROVE  TypeOK'
    BY <1>3 DEF DeleteItemFind, Calls
  <1>4. ASSUME NEW t \in Threads, DeleteItemErase(t)
        PROVE  TypeOK'
    <2>1. calls[t] \in [op : {"DeleteItem"}, pair : Pairs, at : {"node", "end", "dangling"}]
      BY <1>4 DEF DeleteItemErase, Calls
    <2>2. Idle \in Calls
      BY DEF Idle, Calls
    <2>3. CASE calls[t].at = "end"
      BY <1>4, <2>2, <2>3 DEF DeleteItemErase
    <2>4. CASE calls[t].at = "node"
      <3>1. /\ Becomes(Erase({calls[t].pair}), {calls[t].pair})
            /\ Return(t, {calls[t].pair}, InPlace)
            /\ UNCHANGED <<clock, corrupt>>
        BY <1>4, <2>4 DEF DeleteItemErase
      <3> QED
        BY <3>1, EraseType, BecomesType, ReturnType, InPlaceType
    <2>5. CASE calls[t].at = "dangling"
      BY <1>4, <2>2, <2>5 DEF DeleteItemErase
    <2> QED
      BY <2>1, <2>3, <2>4, <2>5
  <1>5. ASSUME NEW t \in Threads, NEW k \in Keys, DeleteKey(t, k)
        PROVE  TypeOK'
    BY <1>5, EraseType, BecomesType, ReturnType, InPlaceType DEF DeleteKey
  <1>6. ASSUME NEW t \in Threads, Clear(t)
        PROVE  TypeOK'
    <2>1. [p \in Pairs |-> Absent] \in [Pairs -> Tuple]
      BY AbsentType
    <2> QED
      BY <1>6, <2>1, BecomesType, ReturnType, InPlaceType DEF Clear
  <1>7. ASSUME NEW t \in Threads, NEW p \in Pairs, NEW req \in DelReqs,
               MarkForDeletion(t, p, req)
        PROVE  TypeOK'
    <2>1. [datastore[p] EXCEPT !.status = "MARKED_FOR_DELETION", !.delReq = req] \in Tuple
      BY DEF Tuple, Tombstones
    <2> QED
      BY <1>7, <2>1, PutType, ReturnType, InPlaceType DEF MarkForDeletion
  <1>8. ASSUME NEW t \in Threads, NEW k \in Keys, NEW old \in Values, NEW new \in Values,
               NEW ttl \in Ttls, NEW h \in Hashables, UpdateItem(t, k, old, new, ttl, h)
        PROVE  TypeOK'
    <2> DEFINE r == [NewTuple(clock, ttl, h) EXCEPT !.expire = U32(clock + ttl)]
               ds == [datastore EXCEPT ![<<k, old>>] = Absent, ![<<k, new>>] = r]
    <2>1. r \in Tuple
      BY UpdatedTupleType
    <2>2. <<k, old>> \in Pairs /\ <<k, new>> \in Pairs
      BY DEF Pairs
    <2>3. ds \in [Pairs -> Tuple]
      BY <2>1, <2>2, AbsentType
    <2>4. [InPlace EXCEPT ![<<k, old>>] = <<k, new>>] \in [Pairs -> Pairs]
      BY <2>2, InPlaceType
    <2>5. /\ Becomes(ds, {})
          /\ Return(t, {}, [InPlace EXCEPT ![<<k, old>>] = <<k, new>>])
          /\ UNCHANGED <<clock, corrupt>>
      BY <1>8 DEF UpdateItem
    <2> QED
      BY <2>3, <2>4, <2>5, BecomesType, ReturnType
  <1>9. ASSUME NEW t \in Threads, NEW p \in Pairs, RefreshItem(t, p)
        PROVE  TypeOK'
    <2>1. [datastore[p] EXCEPT !.refreshed = clock] \in Tuple
      BY ConstantFacts DEF Tuple, Times
    <2> QED
      BY <1>9, <2>1, PutType, ReturnType, InPlaceType DEF RefreshItem
  <1>10. ASSUME NEW t \in Threads, NEW p \in Pairs, MarkAsDeleted(t, p)
         PROVE  TypeOK'
    <2>1. [datastore[p] EXCEPT !.status = "DELETED"] \in Tuple
      BY DEF Tuple, Tombstones
    <2> QED
      BY <1>10, <2>1, PutType, ReturnType, InPlaceType DEF MarkAsDeleted
  <1>11. ASSUME NEW t \in Threads, DeleteExpiredValues(t)
         PROVE  TypeOK'
    BY <1>11, EraseType, BecomesType, ReturnType, InPlaceType DEF DeleteExpiredValues
  <1>12. CASE Tick
    BY <1>12, ConstantFacts DEF Tick
  <1>13. CASE UNCHANGED vars
    BY <1>13 DEF vars
  <1> QED
    BY <1>1, <1>2, <1>3, <1>4, <1>5, <1>6, <1>7, <1>8, <1>9, <1>10, <1>11, <1>12, <1>13
    DEF Next, ClientCall, Maintenance

\* Every state of the store is typed (all operations of datastore.cpp).
THEOREM TypeCorrect == Spec => []TypeOK
  <1>1. TypeOK /\ [Next]_vars => TypeOK'
    BY TypeNext
  <1> QED
    BY <1>1, TypeInit, PTL DEF Spec

-----------------------------------------------------------------------------
(* DeleteItem's iterator, with any number of threads that erase.          *)

\* An iterator that DeleteItem found designates a tuple of the container, under the
\* key it has been given since, unless another thread has erased that tuple
\* ("dangling").
FoundIsThere ==
    \A t \in Threads :
        calls[t].op = "DeleteItem" /\ calls[t].at = "node" => Present(datastore[calls[t].pair])

SafeInv == TypeOK /\ FoundIsThere

\* A change keeps every found tuple that it does not erase in the container, if the
\* tuples it renames are there under their new names.
LEMMA KeepsFound ==
    ASSUME SafeInv, TypeOK', NEW t \in Threads, NEW renamed \in [Pairs -> Pairs],
           NEW S, Return(t, S, renamed),
           \A p \in Pairs \ S : Present(datastore[p]) => Present(datastore'[renamed[p]])
    PROVE  SafeInv'
  <1> USE DEF SafeInv
  <1>1. PICK raced \in SUBSET {u \in Threads \ {t} : calls[u].op = "DeleteItem"} :
          \A u \in Threads :
             calls'[u] = IF u = t THEN Idle
                         ELSE IF u \in raced THEN [calls[u] EXCEPT !.at = "end"]
                         ELSE IF calls[u].op = "DeleteItem"
                              THEN IF calls[u].at # "node" THEN calls[u]
                                   ELSE IF calls[u].pair \in S
                                   THEN [calls[u] EXCEPT !.at = "dangling"]
                                   ELSE [calls[u] EXCEPT !.pair = renamed[calls[u].pair]]
                              ELSE calls[u]
    BY DEF Return
  <1>2. \A u \in Threads : calls[u].op = "DeleteItem" =>
           /\ calls[u] \in [op : {"DeleteItem"}, pair : Pairs, at : {"node", "end", "dangling"}]
           /\ calls[u].at = "node" => Present(datastore[calls[u].pair])
    BY DEF TypeOK, Calls, FoundIsThere
  <1>3. ASSUME NEW u \in Threads, calls'[u].op = "DeleteItem"
        PROVE  calls'[u].at = "node" => Present(datastore'[calls'[u].pair])
    <2>1. u # t
      <3>1. calls'[t] = Idle
        BY <1>1
      <3> QED
        BY <1>3, <3>1 DEF Idle
    <2>2. CASE u \in raced
      BY <1>1, <1>2, <2>1, <2>2
    <2>3. CASE u \notin raced
      BY <1>1, <1>2, <1>3, <2>1, <2>3
    <2> QED
      BY <2>2, <2>3
  <1> QED
    BY <1>3 DEF FoundIsThere

\* A change that erases S and renames nothing.
LEMMA KeepsOthers ==
    ASSUME SafeInv, TypeOK', NEW t \in Threads, NEW S, Return(t, S, InPlace),
           \/ datastore' = Erase(S)
           \/ S = Pairs
    PROVE  SafeInv'
  <1>1. \A p \in Pairs \ S : Present(datastore[p]) => Present(datastore'[InPlace[p]])
    BY DEF Erase, InPlace
  <1> QED
    BY <1>1, KeepsFound, InPlaceType

LEMMA SafeNext ==
    ASSUME SafeInv, [Next]_vars
    PROVE  SafeInv'
  <1> USE DEF SafeInv
  <1>0. TypeOK'
    BY TypeNext
  <1>a. \A p \in Pairs : InPlace[p] = p
    BY DEF InPlace
  <1>1. ASSUME NEW t \in Threads, NEW p \in Pairs, NEW ttl \in Ttls,
               NEW h \in Hashables, StoreItemStamp(t, p, ttl, h)
        PROVE  SafeInv'
    BY <1>0, <1>1 DEF StoreItemStamp, FoundIsThere, TypeOK
  <1>2. ASSUME NEW t \in Threads, StoreItemCommit(t)
        PROVE  SafeInv'
    <2> DEFINE p == calls[t].pair
               r == calls[t].tuple
    <2>1. calls[t] \in [op : {"StoreItem"}, pair : Pairs,
                         tuple : {q \in Tuple : q.status = "NOT_DELETED"}]
      BY <1>2 DEF StoreItemCommit, Calls, TypeOK
    <2>2. CASE Present(datastore[p]) => MayReplace(datastore[p], r)
      <3>1. /\ datastore' = [datastore EXCEPT ![p] = r]
            /\ Return(t, {}, InPlace)
          BY <1>2, <2>2 DEF StoreItemCommit, Put, Becomes
      <3>2. Present(r)
        BY <2>1 DEF Present
      <3> QED
        BY <1>0, <1>a, <2>1, <3>1, <3>2, KeepsFound, InPlaceType DEF TypeOK
    <2>3. CASE ~(Present(datastore[p]) => MayReplace(datastore[p], r))
      BY <1>0, <1>2, <2>3 DEF StoreItemCommit, FoundIsThere, TypeOK, Idle
    <2> QED
      BY <2>2, <2>3
  <1>3. ASSUME NEW t \in Threads, NEW p \in Pairs, DeleteItemFind(t, p)
        PROVE  SafeInv'
    BY <1>0, <1>3 DEF DeleteItemFind, FoundIsThere, TypeOK
  <1>4. ASSUME NEW t \in Threads, DeleteItemErase(t)
        PROVE  SafeInv'
    <2>1. calls[t].at \in {"node", "end", "dangling"}
      BY <1>4 DEF DeleteItemErase, Calls, TypeOK
    <2>2. CASE calls[t].at \in {"end", "dangling"}
      <3>1. calls' = [calls EXCEPT ![t] = Idle] /\ datastore' = datastore
        <4>1. CASE calls[t].at = "end"
          BY <1>4, <4>1 DEF DeleteItemErase
        <4>2. CASE calls[t].at = "dangling"
          BY <1>4, <4>2 DEF DeleteItemErase
        <4> QED
          BY <2>2, <4>1, <4>2
      <3> QED
        BY <1>0, <3>1 DEF FoundIsThere, TypeOK, Idle
    <2>3. CASE calls[t].at = "node"
      BY <1>0, <1>4, <2>3, KeepsOthers DEF DeleteItemErase, Becomes
    <2> QED
      BY <2>1, <2>2, <2>3
  <1>5. ASSUME NEW t \in Threads, NEW k \in Keys, DeleteKey(t, k)
        PROVE  SafeInv'
    BY <1>0, <1>5, KeepsOthers DEF DeleteKey, Becomes
  <1>6. ASSUME NEW t \in Threads, Clear(t)
        PROVE  SafeInv'
    BY <1>0, <1>6, KeepsOthers DEF Clear
  <1>7. ASSUME NEW t \in Threads, NEW p \in Pairs, NEW req \in DelReqs,
               MarkForDeletion(t, p, req)
        PROVE  SafeInv'
    <2>1. /\ datastore' = [datastore EXCEPT ![p] =
                [datastore[p] EXCEPT !.status = "MARKED_FOR_DELETION", !.delReq = req]]
          /\ Return(t, {}, InPlace)
      BY <1>7 DEF MarkForDeletion, Put, Becomes
    <2>2. \A q \in Pairs : Present(datastore[q]) => Present(datastore'[q])
      BY <2>1 DEF Present, Tuple, TypeOK
    <2> QED
      BY <1>0, <1>a, <2>1, <2>2, KeepsFound, InPlaceType
  <1>8. ASSUME NEW t \in Threads, NEW k \in Keys, NEW old \in Values, NEW new \in Values,
               NEW ttl \in Ttls, NEW h \in Hashables, UpdateItem(t, k, old, new, ttl, h)
        PROVE  SafeInv'
    <2> DEFINE r == [NewTuple(clock, ttl, h) EXCEPT !.expire = U32(clock + ttl)]
               move == [InPlace EXCEPT ![<<k, old>>] = <<k, new>>]
    <2>1. <<k, old>> \in Pairs /\ <<k, new>> \in Pairs
      BY DEF Pairs
    <2>2. move \in [Pairs -> Pairs]
      BY <2>1, InPlaceType
    <2>3. /\ datastore' = [datastore EXCEPT ![<<k, old>>] = Absent, ![<<k, new>>] = r]
          /\ Return(t, {}, move)
      BY <1>8 DEF UpdateItem, Becomes
    <2>4. Present(r)
      BY NewTupleType DEF Present, Tuple, TypeOK
    <2> HIDE DEF r
    <2>5. \A q \in Pairs : Present(datastore[q]) => Present(datastore'[move[q]])
      BY <1>a, <2>1, <2>3, <2>4, InPlaceType DEF TypeOK
    <2> HIDE DEF move
    <2> QED
      BY <1>0, <2>2, <2>3, <2>5, KeepsFound
  <1>9. ASSUME NEW t \in Threads, NEW p \in Pairs, RefreshItem(t, p)
        PROVE  SafeInv'
    <2>1. /\ datastore' = [datastore EXCEPT ![p] = [datastore[p] EXCEPT !.refreshed = clock]]
          /\ Return(t, {}, InPlace)
      BY <1>9 DEF RefreshItem, Put, Becomes
    <2>2. \A q \in Pairs : Present(datastore[q]) => Present(datastore'[q])
      BY <2>1 DEF Present, Tuple, TypeOK
    <2> QED
      BY <1>0, <1>a, <2>1, <2>2, KeepsFound, InPlaceType
  <1>10. ASSUME NEW t \in Threads, NEW p \in Pairs, MarkAsDeleted(t, p)
         PROVE  SafeInv'
    <2>1. /\ datastore' = [datastore EXCEPT ![p] = [datastore[p] EXCEPT !.status = "DELETED"]]
          /\ Return(t, {}, InPlace)
      BY <1>10 DEF MarkAsDeleted, Put, Becomes
    <2>2. \A q \in Pairs : Present(datastore[q]) => Present(datastore'[q])
      BY <2>1 DEF Present, Tuple, TypeOK
    <2> QED
      BY <1>0, <1>a, <2>1, <2>2, KeepsFound, InPlaceType
  <1>11. ASSUME NEW t \in Threads, DeleteExpiredValues(t)
         PROVE  SafeInv'
    BY <1>0, <1>11, KeepsOthers DEF DeleteExpiredValues, Becomes
  <1>12. CASE Tick
    BY <1>0, <1>12 DEF Tick, FoundIsThere
  <1>13. CASE UNCHANGED vars
    BY <1>0, <1>13 DEF vars, FoundIsThere
  <1> QED
    BY <1>1, <1>2, <1>3, <1>4, <1>5, <1>6, <1>7, <1>8, <1>9, <1>10, <1>11, <1>12, <1>13
    DEF Next, ClientCall, Maintenance

\* Whatever other threads store, refresh, mark, rename or erase since DeleteItem's lookup
\* outside the lock, its iterator designates a tuple of the container when it erases,
\* unless another thread has erased that very tuple (datastore.cpp:86-93).
THEOREM FoundTupleIsThere == Spec => []FoundIsThere
  <1>1. Init => SafeInv
    BY TypeInit DEF Init, SafeInv, FoundIsThere, Idle
  <1>2. SafeInv /\ [Next]_vars => SafeInv'
    BY SafeNext
  <1>3. SafeInv => FoundIsThere
    BY DEF SafeInv
  <1> QED
    BY <1>1, <1>2, <1>3, PTL DEF Spec

-----------------------------------------------------------------------------
(* Leases, while the differences of times fit an int32_t.                  *)

\* The clock stays below 2^31 (until 2038), and no time to live reaches back
\* to before 0.
ClockFits ==
    /\ MaxClock < Half
    /\ \A ttl \in Ttls : 0 <= StartClock + ttl

\* No lease reaches farther ahead than its time to live.
Bounded(r) == r.expire <= clock + (IF r.ttl > 0 THEN r.ttl ELSE 0)

\* The inductive invariant: tuples are bounded, those that wait for StoreItem's
\* lock included.
LeaseInv ==
    /\ TypeOK
    /\ \A p \in Pairs : Bounded(datastore[p])
    /\ \A t \in Threads : calls[t].op = "StoreItem" => Bounded(calls[t].tuple)

\* What LoadItem's test means for a bounded lease.
LEMMA LoadableMeans ==
    ASSUME ClockFits, NEW r \in Tuple, NEW now \in StartClock .. MaxClock,
           r.ttl # -1, r.expire <= now + (IF r.ttl > 0 THEN r.ttl ELSE 0)
    PROVE  Loadable(r, now) <=> r.status = "NOT_DELETED" /\ now < r.expire
  <1>1. /\ r.ttl \in Int /\ r.ttl < Half /\ Half \in Nat /\ 0 < Half
        /\ r.expire \in 0 .. Modulus - 1
        /\ now \in Nat /\ now < Half
    BY ConstantFacts DEF Tuple, Times, ClockFits
  <1>2. CASE now < r.expire
    <2>1. Remaining(r.expire, now) = r.expire - now
      BY <1>1, <1>2 DEF Remaining, U32, Modulus
    <2> QED
      BY <1>1, <1>2, <2>1 DEF Loadable
  <1>3. CASE r.expire <= now
    <2>1. Remaining(r.expire, now) <= 0
      BY <1>1, <1>3 DEF Remaining, U32, Modulus
    <2>2. Remaining(r.expire, now) \in Int
      BY <1>1, <1>3 DEF Remaining, U32, Modulus
    <2> QED
      BY <1>1, <1>3, <2>1, <2>2 DEF Loadable
  <1> QED
    BY <1>1, <1>2, <1>3

LEMMA NewTupleBounded ==
    ASSUME ClockFits, TypeOK, NEW ttl \in Ttls, NEW h \in Hashables
    PROVE  /\ Bounded(NewTuple(clock, ttl, h))
           /\ Bounded([NewTuple(clock, ttl, h) EXCEPT !.expire = U32(clock + ttl)])
  <1>1. /\ ttl \in Int /\ ttl < Half /\ 0 <= clock + ttl
        /\ clock \in Nat /\ clock < Half
    BY ConstantFacts DEF ClockFits, TypeOK
  <1>2. U32(clock + ttl) = clock + ttl
    BY <1>1, ConstantFacts DEF U32, Modulus
  <1> QED
    BY <1>1, <1>2 DEF Bounded, NewTuple

\* The remaining facts about a step: calls that only return, and those that
\* leave the leases of the container alone.
LEMMA ReturnBounded ==
    ASSUME TypeOK, NEW t \in Threads, NEW S, NEW renamed, Return(t, S, renamed),
           NEW u \in Threads, calls'[u].op = "StoreItem"
    PROVE  calls'[u] = calls[u]
  <1>1. PICK raced \in SUBSET {v \in Threads \ {t} : calls[v].op = "DeleteItem"} :
          \A v \in Threads :
             calls'[v] = IF v = t THEN Idle
                         ELSE IF v \in raced THEN [calls[v] EXCEPT !.at = "end"]
                         ELSE IF calls[v].op = "DeleteItem"
                              THEN IF calls[v].at # "node" THEN calls[v]
                                   ELSE IF calls[v].pair \in S
                                        THEN [calls[v] EXCEPT !.at = "dangling"]
                                   ELSE [calls[v] EXCEPT !.pair = renamed[calls[v].pair]]
                              ELSE calls[v]
    BY DEF Return
  <1>2. ASSUME u = t PROVE FALSE
    <2>1. calls'[t] = Idle
      BY <1>1
    <2> QED
      BY <1>2, <2>1 DEF Idle
  <1>3. ASSUME calls[u].op = "DeleteItem" PROVE FALSE
    <2>1. calls[u] \in [op : {"DeleteItem"}, pair : Pairs, at : {"node", "end", "dangling"}]
      BY <1>3 DEF TypeOK, Calls
    <2> QED
      BY <1>1, <1>2, <2>1
  <1> QED
    BY <1>1, <1>2, <1>3

\* A call that returns preserves the invariant if the container stays bounded.
LEMMA ReturnKeepsLeases ==
    ASSUME LeaseInv, TypeOK', clock' = clock,
           NEW t \in Threads, NEW S, NEW renamed, Return(t, S, renamed),
           \A p \in Pairs : Bounded(datastore'[p])
    PROVE  LeaseInv'
  <1>1. \A u \in Threads : calls'[u].op = "StoreItem" => Bounded(calls'[u].tuple)
    BY ReturnBounded DEF LeaseInv
  <1> QED
    BY <1>1 DEF LeaseInv, Bounded

LEMMA EraseBounded ==
    ASSUME LeaseInv, NEW S
    PROVE  \A p \in Pairs : Bounded(Erase(S)[p])
  <1>1. Bounded(Absent)
    BY ConstantFacts DEF LeaseInv, TypeOK, Bounded, Absent
  <1> QED
    BY <1>1 DEF Erase, LeaseInv

LEMMA LeaseNext ==
    ASSUME ClockFits, LeaseInv, [Next]_vars
    PROVE  LeaseInv'
  <1> USE DEF LeaseInv
  <1>0. TypeOK'
    BY TypeNext
  <1>1. ASSUME NEW t \in Threads, NEW p \in Pairs, NEW ttl \in Ttls,
               NEW h \in Hashables, StoreItemStamp(t, p, ttl, h)
        PROVE  LeaseInv'
    <2>1. Bounded(NewTuple(clock, ttl, h))
      BY NewTupleBounded
    <2>2. /\ calls' = [calls EXCEPT ![t] = [op |-> "StoreItem", pair |-> p,
                                            tuple |-> NewTuple(clock, ttl, h)]]
          /\ clock' = clock /\ datastore' = datastore
      BY <1>1 DEF StoreItemStamp
    <2> QED
      BY <1>0, <2>1, <2>2 DEF TypeOK, Bounded
  <1>2. ASSUME NEW t \in Threads, StoreItemCommit(t)
        PROVE  LeaseInv'
    <2> DEFINE p == calls[t].pair
               r == calls[t].tuple
    <2>1. /\ calls[t] \in [op : {"StoreItem"}, pair : Pairs,
                           tuple : {q \in Tuple : q.status = "NOT_DELETED"}]
          /\ Bounded(r)
      BY <1>2 DEF StoreItemCommit, Calls, TypeOK
    <2>2. CASE Present(datastore[p]) => MayReplace(datastore[p], r)
      <3>1. /\ datastore' = [datastore EXCEPT ![p] = r]
            /\ Return(t, {}, InPlace)
            /\ clock' = clock
        BY <1>2, <2>2 DEF StoreItemCommit, Put, Becomes
      <3>2. \A q \in Pairs : Bounded(datastore'[q])
        BY <2>1, <3>1 DEF TypeOK
      <3> QED
        BY <1>0, <3>1, <3>2, ReturnKeepsLeases
    <2>3. CASE ~(Present(datastore[p]) => MayReplace(datastore[p], r))
      BY <1>0, <1>2, <2>3 DEF StoreItemCommit, TypeOK, Idle, Bounded
    <2> QED
      BY <2>2, <2>3
  <1>3. ASSUME NEW t \in Threads, NEW p \in Pairs, DeleteItemFind(t, p)
        PROVE  LeaseInv'
    BY <1>0, <1>3 DEF DeleteItemFind, TypeOK, Bounded
  <1>4. ASSUME NEW t \in Threads, DeleteItemErase(t)
        PROVE  LeaseInv'
    <2>1. calls[t].at \in {"node", "end", "dangling"}
      BY <1>4 DEF DeleteItemErase, Calls, TypeOK
    <2>2. CASE calls[t].at = "node"
      <3>1. /\ datastore' = Erase({calls[t].pair})
            /\ Return(t, {calls[t].pair}, InPlace)
            /\ clock' = clock
        BY <1>4, <2>2 DEF DeleteItemErase, Becomes
      <3> QED
        BY <1>0, <3>1, EraseBounded, ReturnKeepsLeases
    <2>3. CASE calls[t].at # "node"
      <3>1. /\ calls' = [calls EXCEPT ![t] = Idle]
            /\ clock' = clock /\ datastore' = datastore
        BY <1>4, <2>1, <2>3 DEF DeleteItemErase
      <3> QED
        BY <1>0, <3>1 DEF TypeOK, Idle, Bounded
    <2> QED
      BY <2>2, <2>3
  <1>5. ASSUME NEW t \in Threads, NEW k \in Keys, DeleteKey(t, k)
        PROVE  LeaseInv'
    BY <1>0, <1>5, EraseBounded, ReturnKeepsLeases DEF DeleteKey, Becomes
  <1>6. ASSUME NEW t \in Threads, Clear(t)
        PROVE  LeaseInv'
    <2>1. datastore' = Erase(Pairs)
      BY <1>6 DEF Clear, Becomes, Erase
    <2> QED
      BY <1>0, <1>6, <2>1, EraseBounded, ReturnKeepsLeases DEF Clear
  <1>7. ASSUME NEW t \in Threads, NEW p \in Pairs, NEW req \in DelReqs,
               MarkForDeletion(t, p, req)
        PROVE  LeaseInv'
    <2>1. /\ datastore' = [datastore EXCEPT ![p] =
                [datastore[p] EXCEPT !.status = "MARKED_FOR_DELETION", !.delReq = req]]
          /\ Return(t, {}, InPlace) /\ clock' = clock
      BY <1>7 DEF MarkForDeletion, Put, Becomes
    <2>2. \A q \in Pairs : Bounded(datastore'[q])
      BY <2>1 DEF Bounded, Tuple, TypeOK
    <2> QED
      BY <1>0, <2>1, <2>2, ReturnKeepsLeases
  <1>8. ASSUME NEW t \in Threads, NEW k \in Keys, NEW old \in Values, NEW new \in Values,
               NEW ttl \in Ttls, NEW h \in Hashables, UpdateItem(t, k, old, new, ttl, h)
        PROVE  LeaseInv'
    <2> DEFINE r == [NewTuple(clock, ttl, h) EXCEPT !.expire = U32(clock + ttl)]
    <2>1. <<k, old>> \in Pairs /\ <<k, new>> \in Pairs
      BY DEF Pairs
    <2>2. /\ datastore' = [datastore EXCEPT ![<<k, old>>] = Absent, ![<<k, new>>] = r]
          /\ Return(t, {}, [InPlace EXCEPT ![<<k, old>>] = <<k, new>>])
          /\ clock' = clock
      BY <1>8 DEF UpdateItem, Becomes
    <2>3. Bounded(r) /\ Bounded(Absent)
      BY NewTupleBounded, ConstantFacts DEF TypeOK, Bounded, Absent
    <2> HIDE DEF r
    <2>4. \A q \in Pairs : Bounded(datastore'[q])
      BY <2>1, <2>2, <2>3 DEF TypeOK
    <2> QED
      BY <1>0, <2>2, <2>4, ReturnKeepsLeases
  <1>9. ASSUME NEW t \in Threads, NEW p \in Pairs, RefreshItem(t, p)
        PROVE  LeaseInv'
    <2>1. /\ datastore' = [datastore EXCEPT ![p] = [datastore[p] EXCEPT !.refreshed = clock]]
          /\ Return(t, {}, InPlace) /\ clock' = clock
      BY <1>9 DEF RefreshItem, Put, Becomes
    <2>2. \A q \in Pairs : Bounded(datastore'[q])
      BY <2>1 DEF Bounded, Tuple, TypeOK
    <2> QED
      BY <1>0, <2>1, <2>2, ReturnKeepsLeases
  <1>10. ASSUME NEW t \in Threads, NEW p \in Pairs, MarkAsDeleted(t, p)
         PROVE  LeaseInv'
    <2>1. /\ datastore' = [datastore EXCEPT ![p] = [datastore[p] EXCEPT !.status = "DELETED"]]
          /\ Return(t, {}, InPlace) /\ clock' = clock
      BY <1>10 DEF MarkAsDeleted, Put, Becomes
    <2>2. \A q \in Pairs : Bounded(datastore'[q])
      BY <2>1 DEF Bounded, Tuple, TypeOK
    <2> QED
      BY <1>0, <2>1, <2>2, ReturnKeepsLeases
  <1>11. ASSUME NEW t \in Threads, DeleteExpiredValues(t)
         PROVE  LeaseInv'
    BY <1>0, <1>11, EraseBounded, ReturnKeepsLeases DEF DeleteExpiredValues, Becomes
  <1>12. CASE Tick
    <2>1. \A r \in Tuple : Bounded(r) => Bounded(r)'
      BY <1>12, ConstantFacts DEF Tick, Bounded, Tuple, Times, TypeOK
    <2> QED
      BY <1>0, <1>12, <2>1 DEF Tick, TypeOK, Calls
  <1>13. CASE UNCHANGED vars
    BY <1>0, <1>13 DEF vars, Bounded
  <1> QED
    BY <1>1, <1>2, <1>3, <1>4, <1>5, <1>6, <1>7, <1>8, <1>9, <1>10, <1>11, <1>12, <1>13
    DEF Next, ClientCall, Maintenance

LEMMA LeaseInit == Init => LeaseInv
  <1> SUFFICES ASSUME Init PROVE LeaseInv
    OBVIOUS
  <1>1. Bounded(Absent)
    BY ConstantFacts DEF Init, Bounded, Absent
  <1> QED
    BY <1>1, TypeInit DEF Init, LeaseInv, Idle

\* LoadItem returns a value only under a running lease, never past its time to
\* live and never for a time to live below -1 (datastore.cpp:64-84).
THEOREM LeasesRun == ClockFits => (Spec => []LeaseRuns)
  <1> SUFFICES ASSUME ClockFits PROVE Spec => []LeaseRuns
    OBVIOUS
  <1>1. LeaseInv /\ [Next]_vars => LeaseInv'
    BY LeaseNext
  <1>2. LeaseInv => LeaseRuns
    <2> SUFFICES ASSUME LeaseInv, NEW p \in Pairs,
                        Loadable(datastore[p], clock), datastore[p].ttl # -1
                 PROVE  /\ datastore[p].ttl > 0 /\ clock < datastore[p].expire
                        /\ datastore[p].expire <= clock + datastore[p].ttl
      BY DEF LeaseRuns
    <2>1. /\ datastore[p] \in Tuple /\ clock \in StartClock .. MaxClock
          /\ datastore[p].expire <= clock + (IF datastore[p].ttl > 0 THEN datastore[p].ttl ELSE 0)
      BY DEF LeaseInv, TypeOK, Bounded
    <2>2. clock < datastore[p].expire
      BY <2>1, LoadableMeans
    <2> QED
      BY <2>1, <2>2, ConstantFacts DEF Tuple, Times
  <1> QED
    BY <1>1, <1>2, LeaseInit, PTL DEF Spec

-----------------------------------------------------------------------------
(* No replay of a deleted value.                                           *)

\* Where the history of p stands: its tombstone is in the container, or the
\* lease that was deleted has run out.
Remembered(p) ==
    revoked[p] # NoLease =>
       IF Tombstone(datastore[p])
       THEN revoked[p] = LeaseEnd(datastore[p])
       ELSE revoked[p] < clock /\ ~Loadable(datastore[p], clock)

ReplayInv == LeaseInv /\ \A p \in Pairs : Remembered(p)

\* What a step promises for p.
Answers(p) ==
    revoked[p] # NoLease /\ Loadable(datastore'[p], clock')
        => datastore'[p].ttl = -1 \/ datastore'[p].expire > revoked[p]

\* A pair whose history has run out may be given any bounded lease.
LEMMA LapsedAnswers ==
    ASSUME ClockFits, LeaseInv', clock' = clock, NEW p \in Pairs, TypeOK,
           revoked[p] # NoLease => revoked[p] < clock
    PROVE  Answers(p)
  <1> SUFFICES ASSUME revoked[p] # NoLease, Loadable(datastore'[p], clock'),
                      datastore'[p].ttl # -1
               PROVE  datastore'[p].expire > revoked[p]
    BY DEF Answers
  <1>1. /\ datastore'[p] \in Tuple /\ clock' \in StartClock .. MaxClock
        /\ datastore'[p].expire <= clock' + (IF datastore'[p].ttl > 0 THEN datastore'[p].ttl ELSE 0)
    BY DEF LeaseInv, TypeOK, Bounded
  <1>2. clock' < datastore'[p].expire
    BY <1>1, LoadableMeans
  <1> QED
    BY <1>1, <1>2, ConstantFacts DEF TypeOK, Tuple, Times

\* A step that makes the container ds is safe for p if it leaves the tuple of p
\* as it is, forgives p, or meets one of the conditions named here.
LEMMA BecomesSafe ==
    ASSUME ClockFits, ReplayInv, LeaseInv', clock' = clock,
           NEW ds, NEW S, Becomes(ds, S), NEW p \in Pairs,
           \/ ds[p] = datastore[p]
           \/ ~Tombstone(datastore[p])
           \/ p \in S /\ ~Loadable(ds[p], clock)
           \/ Tombstone(ds[p]) 
           \/ ~Loadable(ds[p], clock) /\ LeaseEnd(datastore[p]) < clock
           \/ /\ Loadable(ds[p], clock)
              /\ ds[p].ttl = -1 \/ ds[p].expire > LeaseEnd(datastore[p])
    PROVE  Remembered(p)' /\ Answers(p)
  <1>1. /\ datastore' = ds
        /\ revoked'[p] = IF p \in S THEN NoLease
                         ELSE IF Tombstone(ds[p]) THEN LeaseEnd(ds[p])
                         ELSE IF Loadable(ds[p], clock) THEN NoLease
                         ELSE revoked[p]
    BY DEF Becomes
  <1>2. Remembered(p)
    BY DEF ReplayInv
  <1>3. Loadable(ds[p], clock) => ~Tombstone(ds[p])
    BY DEF Loadable, Tombstone, Tombstones
  <1>4. Answers(p)
    <2>1. CASE ~Tombstone(datastore[p])
      <3>1. revoked[p] # NoLease => revoked[p] < clock
        BY <1>2, <2>1 DEF Remembered
      <3> QED
        BY <3>1, LapsedAnswers DEF ReplayInv, LeaseInv
    <2>2. CASE Tombstone(datastore[p])
      <3>1. Loadable(ds[p], clock) => ds[p] # datastore[p]
        BY <1>3, <2>2
      <3> QED
        BY <1>1, <1>2, <1>3, <2>2, <3>1 DEF Answers, Remembered
    <2> QED
      BY <2>1, <2>2
  <1>5. Remembered(p)'
    BY <1>1, <1>2, <1>3 DEF Remembered
  <1> QED
    BY <1>4, <1>5

\* A bounded tuple that LoadItem would return, but for its lease, has lapsed.
LEMMA NotLoadableMeans ==
    ASSUME ClockFits, NEW r \in Tuple, NEW now \in StartClock .. MaxClock,
           r.status = "NOT_DELETED", ~Loadable(r, now),
           r.expire <= now + (IF r.ttl > 0 THEN r.ttl ELSE 0)
    PROVE  r.ttl # -1 /\ r.expire <= now
  <1>1. r.ttl # -1
    BY DEF Loadable
  <1>2. ~(now < r.expire)
    BY <1>1, LoadableMeans
  <1> QED
    BY <1>1, <1>2, ConstantFacts DEF Tuple, Times

LEMMA ReplayNext ==
    ASSUME ClockFits, ReplayInv, [Next]_vars
    PROVE  ReplayInv' /\ \A p \in Pairs : Answers(p)
  <1> USE DEF ReplayInv
  <1>0. LeaseInv'
    BY LeaseNext
  <1>a. TypeOK /\ \A p \in Pairs : datastore[p] \in Tuple
    BY DEF LeaseInv, TypeOK
  \* A step that changes neither the container nor the clock.
  <1>b. ASSUME UNCHANGED <<clock, datastore, revoked>>
        PROVE  ReplayInv' /\ \A p \in Pairs : Answers(p)
    <2>1. ASSUME NEW p \in Pairs, revoked[p] # NoLease
          PROVE  ~Loadable(datastore[p], clock)
      BY <2>1 DEF Remembered, Loadable, Tombstone, Tombstones
    <2> QED
      BY <1>0, <1>b, <2>1 DEF Remembered, Answers
  <1>1. ASSUME NEW t \in Threads, NEW p \in Pairs, NEW ttl \in Ttls,
               NEW h \in Hashables, StoreItemStamp(t, p, ttl, h)
        PROVE  ReplayInv' /\ \A q \in Pairs : Answers(q)
    BY <1>1, <1>b DEF StoreItemStamp
  <1>2. ASSUME NEW t \in Threads, StoreItemCommit(t)
        PROVE  ReplayInv' /\ \A q \in Pairs : Answers(q)
    <2> DEFINE p == calls[t].pair
               r == calls[t].tuple
               ds == [datastore EXCEPT ![p] = r]
    <2>1. /\ p \in Pairs /\ r \in Tuple /\ r.status = "NOT_DELETED"
          /\ Bounded(r)
      BY <1>2 DEF StoreItemCommit, Calls, TypeOK, LeaseInv
    <2>2. CASE Present(datastore[p]) => MayReplace(datastore[p], r)
      <3>1. Becomes(ds, {}) /\ clock' = clock
        BY <1>2, <2>2 DEF StoreItemCommit, Put
      <3>2. ds[p] = r /\ \A q \in Pairs \ {p} : ds[q] = datastore[q]
        BY <1>a, <2>1 DEF TypeOK
      <3>3. CASE ~Tombstone(datastore[p])
        BY <1>0, <3>1, <3>2, <3>3, BecomesSafe
      <3>4. CASE Tombstone(datastore[p])
        <4>1. r.ttl = -1 \/ (datastore[p].expire < r.expire /\ datastore[p].ttl # -1)
          BY <2>2, <3>4 DEF MayReplace, Present, Tombstone, Tombstones
        <4>2. CASE Loadable(r, clock)
          <5>1. r.ttl = -1 \/ r.expire > LeaseEnd(datastore[p])
            BY <1>a, <2>1, <4>1 DEF LeaseEnd, Tuple, Times
          <5> QED
            BY <1>0, <2>1, <3>1, <3>2, <4>2, <5>1, BecomesSafe
        <4>3. CASE ~Loadable(r, clock)
          <5>1. r.ttl # -1 /\ r.expire <= clock
            BY <1>a, <2>1, <4>3, NotLoadableMeans DEF Bounded, TypeOK
          <5>2. LeaseEnd(datastore[p]) < clock
            BY <1>a, <2>1, <4>1, <5>1, ConstantFacts DEF LeaseEnd, Tuple, Times, TypeOK
          <5> QED
            BY <1>0, <2>1, <3>1, <3>2, <4>3, <5>2, BecomesSafe
        <4> QED
          BY <4>2, <4>3
      <3> QED
        BY <3>3, <3>4
    <2>3. CASE ~(Present(datastore[p]) => MayReplace(datastore[p], r))
      BY <1>2, <1>b, <2>3 DEF StoreItemCommit
    <2> QED
      BY <2>2, <2>3
  <1>3. ASSUME NEW t \in Threads, NEW p \in Pairs, DeleteItemFind(t, p)
        PROVE  ReplayInv' /\ \A q \in Pairs : Answers(q)
    BY <1>3, <1>b DEF DeleteItemFind
  \* Erasing what is forgiven.
  <1>c. ASSUME NEW S, Becomes(Erase(S), S), clock' = clock
        PROVE  ReplayInv' /\ \A q \in Pairs : Answers(q)
    <2>1. \A q \in Pairs : \/ Erase(S)[q] = datastore[q]
                           \/ q \in S /\ ~Loadable(Erase(S)[q], clock)
      BY DEF Erase, Absent, Loadable
    <2> QED
      BY <1>0, <1>c, <2>1, BecomesSafe
  <1>4. ASSUME NEW t \in Threads, DeleteItemErase(t)
        PROVE  ReplayInv' /\ \A q \in Pairs : Answers(q)
    <2>1. calls[t].at \in {"node", "end", "dangling"}
      BY <1>4, <1>a DEF DeleteItemErase, Calls, TypeOK
    <2>2. CASE calls[t].at = "node"
      BY <1>4, <1>c, <2>2 DEF DeleteItemErase
    <2>3. CASE calls[t].at # "node"
      BY <1>4, <1>b, <2>1, <2>3 DEF DeleteItemErase
    <2> QED
      BY <2>2, <2>3
  <1>5. ASSUME NEW t \in Threads, NEW k \in Keys, DeleteKey(t, k)
        PROVE  ReplayInv' /\ \A q \in Pairs : Answers(q)
    BY <1>5, <1>c DEF DeleteKey
  <1>6. ASSUME NEW t \in Threads, Clear(t)
        PROVE  ReplayInv' /\ \A q \in Pairs : Answers(q)
    <2>1. [p \in Pairs |-> Absent] = Erase(Pairs)
      BY DEF Erase
    <2> QED
      BY <1>6, <1>c, <2>1 DEF Clear
  \* Putting a tuple where there is a live one, or a tombstone for a tombstone.
  <1>d. ASSUME NEW p \in Pairs, NEW r, Put(p, r), clock' = clock,
               ~Tombstone(datastore[p]) \/ Tombstone(r)
        PROVE  ReplayInv' /\ \A q \in Pairs : Answers(q)
    <2>1. Becomes([datastore EXCEPT ![p] = r], {})
      BY <1>d DEF Put
    <2>2. \A q \in Pairs : [datastore EXCEPT ![p] = r][q] = IF q = p THEN r ELSE datastore[q]
      BY <1>a DEF TypeOK
    <2>3. \A q \in Pairs : \/ [datastore EXCEPT ![p] = r][q] = datastore[q]
                           \/ ~Tombstone(datastore[q])
                           \/ Tombstone([datastore EXCEPT ![p] = r][q])
      BY <1>d, <2>2
    <2> QED
      BY <1>0, <1>d, <2>1, <2>3, BecomesSafe
  <1>7. ASSUME NEW t \in Threads, NEW p \in Pairs, NEW req \in DelReqs,
               MarkForDeletion(t, p, req)
        PROVE  ReplayInv' /\ \A q \in Pairs : Answers(q)
    BY <1>7, <1>d DEF MarkForDeletion, Tombstone, Tombstones
  <1>8. ASSUME NEW t \in Threads, NEW k \in Keys, NEW old \in Values, NEW new \in Values,
               NEW ttl \in Ttls, NEW h \in Hashables, UpdateItem(t, k, old, new, ttl, h)
        PROVE  ReplayInv' /\ \A q \in Pairs : Answers(q)
    <2> DEFINE r == [NewTuple(clock, ttl, h) EXCEPT !.expire = U32(clock + ttl)]
               ds == [datastore EXCEPT ![<<k, old>>] = Absent, ![<<k, new>>] = r]
    <2>1. /\ Becomes(ds, {}) /\ clock' = clock
          /\ datastore[<<k, old>>].status = "NOT_DELETED"
          /\ old = new \/ ~Present(datastore[<<k, new>>])
      BY <1>8 DEF UpdateItem
    <2>2. \A q \in Pairs : ds[q] = datastore[q] \/ ~Tombstone(datastore[q])
      BY <1>a, <2>1 DEF Present, Tombstone, Tombstones, TypeOK
    <2> HIDE DEF ds
    <2> QED
      BY <1>0, <2>1, <2>2, BecomesSafe
  <1>9. ASSUME NEW t \in Threads, NEW p \in Pairs, RefreshItem(t, p)
        PROVE  ReplayInv' /\ \A q \in Pairs : Answers(q)
    BY <1>9, <1>d DEF RefreshItem, Tombstone, Tombstones
  <1>10. ASSUME NEW t \in Threads, NEW p \in Pairs, MarkAsDeleted(t, p)
         PROVE  ReplayInv' /\ \A q \in Pairs : Answers(q)
    <2>1. Tombstone([datastore[p] EXCEPT !.status = "DELETED"])
      BY <1>a DEF Tombstone, Tombstones, Tuple
    <2> QED
      BY <1>10, <1>d, <2>1 DEF MarkAsDeleted
  <1>11. ASSUME NEW t \in Threads, DeleteExpiredValues(t)
         PROVE  ReplayInv' /\ \A q \in Pairs : Answers(q)
    <2>1. Becomes(Erase(Lapsed), {}) /\ clock' = clock
      BY <1>11 DEF DeleteExpiredValues
    <2>2. \A q \in Pairs : \/ Erase(Lapsed)[q] = datastore[q]
                           \/ /\ ~Loadable(Erase(Lapsed)[q], clock)
                              /\ LeaseEnd(datastore[q]) < clock
      BY <1>a DEF Erase, Lapsed, Absent, Loadable, LeaseEnd, Tuple, Times
    <2> QED
      BY <1>0, <2>1, <2>2, BecomesSafe
  <1>12. CASE Tick
    <2>1. UNCHANGED <<datastore, revoked>> /\ clock' = clock + 1 /\ clock' \in StartClock .. MaxClock
      BY <1>12, <1>0 DEF Tick, LeaseInv, TypeOK
    <2>2. ASSUME NEW p \in Pairs, ~Loadable(datastore[p], clock)
          PROVE  ~Loadable(datastore[p], clock')
      <3>1. CASE datastore[p].status # "NOT_DELETED"
        BY <3>1 DEF Loadable
      <3>2. CASE datastore[p].status = "NOT_DELETED"
        <4>1. /\ datastore[p].ttl # -1
              /\ datastore[p].expire <= clock
          BY <1>a, <2>2, <3>2, NotLoadableMeans DEF LeaseInv, Bounded, TypeOK
        <4>2. /\ datastore[p].ttl \in Int /\ datastore[p].expire \in Int /\ clock \in Int
          BY <1>a, ConstantFacts DEF Tuple, Times, TypeOK
        <4>3. /\ datastore[p].expire <= clock' + (IF datastore[p].ttl > 0 THEN datastore[p].ttl ELSE 0)
              /\ ~(clock' < datastore[p].expire)
          BY <2>1, <4>1, <4>2
        <4> QED
          BY <1>a, <2>1, <4>1, <4>3, LoadableMeans
      <3> QED
        BY <3>1, <3>2
    <2>3. \A p \in Pairs : Remembered(p)'
      BY <1>a, <2>1, <2>2, ConstantFacts DEF Remembered, TypeOK
    <2>4. ASSUME NEW p \in Pairs PROVE Answers(p)
      BY <2>1, <2>2 DEF Answers, Remembered, Loadable, Tombstone, Tombstones
    <2> QED
      BY <1>0, <2>3, <2>4
  <1>13. CASE UNCHANGED vars
    BY <1>13, <1>b DEF vars
  <1> QED
    BY <1>1, <1>2, <1>3, <1>4, <1>5, <1>6, <1>7, <1>8, <1>9, <1>10, <1>11, <1>12, <1>13
    DEF Next, ClientCall, Maintenance

\* Once marked for deletion, a value is not loadable again under a lease that
\* ends no later than the deleted one: not over the tombstone, not after the
\* tombstone was purged, not from a StoreItem that read the clock before.
THEOREM NoReplayHolds == ClockFits => (Spec => NoReplay)
  <1> SUFFICES ASSUME ClockFits PROVE Spec => NoReplay
    OBVIOUS
  <1>1. Init => ReplayInv
    BY LeaseInit DEF Init, ReplayInv, Remembered, NoLease
  <1>2. ReplayInv /\ [Next]_vars => ReplayInv'
    BY ReplayNext
  <1>3. ReplayInv /\ [Next]_vars =>
           [\A p \in Pairs :
               revoked[p] # NoLease /\ Loadable(datastore'[p], clock')
                   => \/ datastore'[p].ttl = -1
                      \/ datastore'[p].expire > revoked[p]]_vars
    BY ReplayNext DEF Answers
  <1> QED
    BY <1>1, <1>2, <1>3, PTL DEF Spec, NoReplay


-----------------------------------------------------------------------------
(* Republication, and the order of deletions.                              *)

\* What is left of a running lease, counted from now, ends where the lease ends.
LEMMA WhatIsLeft ==
    ASSUME ClockFits, NEW r \in Tuple, NEW now \in StartClock .. MaxClock,
           Loadable(r, now), r.ttl # -1,
           r.expire <= now + (IF r.ttl > 0 THEN r.ttl ELSE 0)
    PROVE  /\ Remaining(r.expire, now) > 0
           /\ U32(now + Remaining(r.expire, now)) = r.expire
  <1>1. now < r.expire
    BY LoadableMeans
  <1>2. /\ r.ttl \in Int /\ r.ttl < Half /\ Half \in Nat /\ 0 < Half
        /\ r.expire \in 0 .. Modulus - 1
        /\ now \in Nat /\ now < Half
    BY ConstantFacts DEF Tuple, Times, ClockFits
  <1>3. Remaining(r.expire, now) = r.expire - now
    BY <1>1, <1>2 DEF Remaining, U32, Modulus
  <1>4. U32(r.expire) = r.expire
    BY <1>2 DEF U32, Modulus
  <1> QED
    BY <1>1, <1>2, <1>3, <1>4

LEMMA RepublishKeeps ==
    ASSUME ClockFits, LeaseInv
    PROVE  RepublishKeepsLease
  <1> SUFFICES ASSUME NEW p \in ValuesToRefresh, datastore[p].status = "NOT_DELETED",
                      datastore[p].ttl # -1
               PROVE  /\ RefreshTtl(datastore[p]) > 0
                      /\ NewTuple(clock, RefreshTtl(datastore[p]), datastore[p].hashable).expire
                            = datastore[p].expire
    BY DEF RepublishKeepsLease
  <1> DEFINE r == datastore[p]
             left == Remaining(r.expire, clock)
  <1>1. /\ p \in Pairs /\ r \in Tuple /\ clock \in StartClock .. MaxClock
        /\ r.expire <= clock + (IF r.ttl > 0 THEN r.ttl ELSE 0)
        /\ Loadable(r, clock)
    BY DEF ValuesToRefresh, Tombstone, Tombstones, LeaseInv, TypeOK, Bounded
  <1>2. left > 0 /\ U32(clock + left) = r.expire
    BY <1>1, WhatIsLeft
  <1>3. RefreshTtl(r) = left
    BY DEF RefreshTtl
  <1>4. left \in Int
    BY <1>1, ConstantFacts DEF Remaining, U32, Tuple, Times, Modulus
  <1>5. NewTuple(clock, left, r.hashable).expire = U32(clock + left)
    BY <1>2, <1>4 DEF NewTuple
  <1> QED
    BY <1>2, <1>3, <1>5

\* What a step promises for the deletion of p.
FirstWins(p) ==
    Tombstone(datastore[p]) /\ Tombstone(datastore'[p])
        => /\ datastore'[p].delReq = datastore[p].delReq
           /\ datastore[p].status = "DELETED" => datastore'[p].status = "DELETED"

LEMMA FirstWinsNext ==
    ASSUME TypeOK, [Next]_vars
    PROVE  \A p \in Pairs : FirstWins(p)
  <1> USE DEF Tombstone, Tombstones
  <1>0. datastore \in [Pairs -> Tuple]
    BY DEF TypeOK
  <1>a. ASSUME datastore' = datastore
        PROVE  \A q \in Pairs : FirstWins(q)
    BY <1>a DEF FirstWins
  <1>b. ASSUME NEW S, datastore' = Erase(S)
        PROVE  \A q \in Pairs : FirstWins(q)
    BY <1>b DEF FirstWins, Erase, Absent
  <1>c. ASSUME NEW p \in Pairs, NEW r, datastore' = [datastore EXCEPT ![p] = r],
               \/ ~Tombstone(r) \/ ~Tombstone(datastore[p])
               \/ r.delReq = datastore[p].delReq /\ r.status = "DELETED"
        PROVE  \A q \in Pairs : FirstWins(q)
    BY <1>0, <1>c DEF FirstWins
  <1>1. ASSUME NEW t \in Threads, NEW p \in Pairs, NEW ttl \in Ttls,
               NEW h \in Hashables, StoreItemStamp(t, p, ttl, h)
        PROVE  \A q \in Pairs : FirstWins(q)
    BY <1>1, <1>a DEF StoreItemStamp
  <1>2. ASSUME NEW t \in Threads, StoreItemCommit(t)
        PROVE  \A q \in Pairs : FirstWins(q)
    <2>1. calls[t].pair \in Pairs /\ ~Tombstone(calls[t].tuple)
      BY <1>2 DEF StoreItemCommit, Calls, TypeOK
    <2>2. \/ datastore' = datastore
          \/ datastore' = [datastore EXCEPT ![calls[t].pair] = calls[t].tuple]
      BY <1>2 DEF StoreItemCommit, Put, Becomes
    <2> QED
      BY <1>a, <1>c, <2>1, <2>2
  <1>3. ASSUME NEW t \in Threads, NEW p \in Pairs, DeleteItemFind(t, p)
        PROVE  \A q \in Pairs : FirstWins(q)
    BY <1>3, <1>a DEF DeleteItemFind
  <1>4. ASSUME NEW t \in Threads, DeleteItemErase(t)
        PROVE  \A q \in Pairs : FirstWins(q)
    <2>1. calls[t].at \in {"node", "end", "dangling"}
      BY <1>4 DEF DeleteItemErase, Calls, TypeOK
    <2>2. datastore' = datastore \/ datastore' = Erase({calls[t].pair})
      BY <1>4, <2>1 DEF DeleteItemErase, Becomes
    <2> QED
      BY <1>a, <1>b, <2>2
  <1>5. ASSUME NEW t \in Threads, NEW k \in Keys, DeleteKey(t, k)
        PROVE  \A q \in Pairs : FirstWins(q)
    BY <1>5, <1>b DEF DeleteKey, Becomes
  <1>6. ASSUME NEW t \in Threads, Clear(t)
        PROVE  \A q \in Pairs : FirstWins(q)
    <2>1. datastore' = Erase(Pairs)
      BY <1>6 DEF Clear, Becomes, Erase
    <2> QED
      BY <1>b, <2>1
  <1>7. ASSUME NEW t \in Threads, NEW p \in Pairs, NEW req \in DelReqs,
               MarkForDeletion(t, p, req)
        PROVE  \A q \in Pairs : FirstWins(q)
    BY <1>7, <1>c DEF MarkForDeletion, Put, Becomes
  <1>8. ASSUME NEW t \in Threads, NEW k \in Keys, NEW old \in Values, NEW new \in Values,
               NEW ttl \in Ttls, NEW h \in Hashables, UpdateItem(t, k, old, new, ttl, h)
        PROVE  \A q \in Pairs : FirstWins(q)
    <2> DEFINE r == [NewTuple(clock, ttl, h) EXCEPT !.expire = U32(clock + ttl)]
    <2>1. ~Tombstone(r) /\ ~Tombstone(Absent)
      BY DEF NewTuple, Absent
    <2>2. datastore' = [datastore EXCEPT ![<<k, old>>] = Absent, ![<<k, new>>] = r]
      BY <1>8 DEF UpdateItem, Becomes
    <2> HIDE DEF r
    <2>3. \A q \in Pairs : datastore'[q] = datastore[q] \/ ~Tombstone(datastore'[q])
      BY <1>0, <2>1, <2>2
    <2> QED
      BY <2>3 DEF FirstWins
  <1>9. ASSUME NEW t \in Threads, NEW p \in Pairs, RefreshItem(t, p)
        PROVE  \A q \in Pairs : FirstWins(q)
    BY <1>9, <1>c DEF RefreshItem, Put, Becomes
  <1>10. ASSUME NEW t \in Threads, NEW p \in Pairs, MarkAsDeleted(t, p)
         PROVE  \A q \in Pairs : FirstWins(q)
    <2>1. datastore[p] \in Tuple
      BY <1>0
    <2>2. LET r == [datastore[p] EXCEPT !.status = "DELETED"]
          IN  r.delReq = datastore[p].delReq /\ r.status = "DELETED"
      BY <2>1 DEF Tuple
    <2> QED
      BY <1>10, <1>c, <2>2 DEF MarkAsDeleted, Put, Becomes
  <1>11. ASSUME NEW t \in Threads, DeleteExpiredValues(t)
         PROVE  \A q \in Pairs : FirstWins(q)
    BY <1>11, <1>b DEF DeleteExpiredValues, Becomes
  <1>12. CASE Tick
    BY <1>12, <1>a DEF Tick
  <1>13. CASE UNCHANGED vars
    BY <1>13, <1>a DEF vars
  <1> QED
    BY <1>1, <1>2, <1>3, <1>4, <1>5, <1>6, <1>7, <1>8, <1>9, <1>10, <1>11, <1>12, <1>13
    DEF Next, ClientCall, Maintenance

\* A republished value ends on the other node when it ends here, and of several
\* deletions of a value the first is the one that counts
\* (datastore.cpp:184-205, 220-222, 238).
THEOREM LeasesKeptHolds == ClockFits => (Spec => LeasesKept)
  <1> SUFFICES ASSUME ClockFits PROVE Spec => LeasesKept
    OBVIOUS
  <1>1. LeaseInv /\ [Next]_vars => LeaseInv'
    BY LeaseNext
  <1>2. LeaseInv => TypeOK /\ RepublishKeepsLease
    BY RepublishKeeps DEF LeaseInv
  <1>3. TypeOK /\ [Next]_vars =>
          [\A p \in Pairs :
              Tombstone(datastore[p]) /\ Tombstone(datastore'[p])
                  => /\ datastore'[p].delReq = datastore[p].delReq
                     /\ datastore[p].status = "DELETED"
                           => datastore'[p].status = "DELETED"]_vars
    BY FirstWinsNext DEF FirstWins
  <1> QED
    BY <1>1, <1>2, <1>3, LeaseInit, PTL DEF Spec, LeasesKept, FirstDeleteWins

-----------------------------------------------------------------------------
(* Maintenance.                                                            *)

LEMMA MaintenanceKeeps ==
    ASSUME ClockFits, LeaseInv, NEW t \in Threads, Maintenance(t), NEW p \in Pairs
    PROVE  \/ Loadable(datastore'[p], clock) <=> Loadable(datastore[p], clock)
           \/ UpdatedForever(datastore[p])
  <1>0. /\ datastore \in [Pairs -> Tuple] /\ datastore[p] \in Tuple
        /\ clock \in StartClock .. MaxClock
        /\ datastore[p].expire <= clock + (IF datastore[p].ttl > 0 THEN datastore[p].ttl ELSE 0)
    BY DEF LeaseInv, TypeOK, Bounded
  <1>1. ASSUME NEW q \in Pairs, RefreshItem(t, q)
        PROVE  Loadable(datastore'[p], clock) <=> Loadable(datastore[p], clock)
    <2>1. datastore' = [datastore EXCEPT ![q] = [datastore[q] EXCEPT !.refreshed = clock]]
      BY <1>1 DEF RefreshItem, Put, Becomes
    <2>2. /\ datastore'[p].status = datastore[p].status
          /\ datastore'[p].expire = datastore[p].expire
          /\ datastore'[p].ttl = datastore[p].ttl
      BY <1>0, <2>1 DEF Tuple
    <2> QED
      BY <2>2 DEF Loadable
  <1>2. ASSUME NEW q \in Pairs, MarkAsDeleted(t, q)
        PROVE  Loadable(datastore'[p], clock) <=> Loadable(datastore[p], clock)
    <2>1. /\ datastore' = [datastore EXCEPT ![q] = [datastore[q] EXCEPT !.status = "DELETED"]]
          /\ datastore[q].status = "MARKED_FOR_DELETION"
      BY <1>2 DEF MarkAsDeleted, Put, Becomes
    <2>2. CASE p = q
      BY <1>0, <2>1, <2>2 DEF Loadable, Tuple
    <2>3. CASE p # q
      BY <1>0, <2>1, <2>3
    <2> QED
      BY <2>2, <2>3
  <1>3. CASE DeleteExpiredValues(t)
    <2>1. datastore' = Erase(Lapsed)
      BY <1>3 DEF DeleteExpiredValues, Becomes
    <2>2. CASE p \notin Lapsed
      BY <2>1, <2>2 DEF Erase
    <2>3. CASE p \in Lapsed
      <3>1. ~Loadable(datastore'[p], clock)
        BY <2>1, <2>3 DEF Erase, Absent, Loadable
      <3>2. 0 < datastore[p].expire /\ datastore[p].expire < clock
        BY <2>3 DEF Lapsed
      <3>3. CASE datastore[p].ttl = -1
        BY <3>2, <3>3 DEF UpdatedForever
      <3>4. CASE datastore[p].ttl # -1
        <4>1. ~(clock < datastore[p].expire)
          BY <1>0, <3>2, ConstantFacts DEF Tuple, Times
        <4> QED
          BY <1>0, <3>1, <3>4, <4>1, LoadableMeans
      <3> QED
        BY <3>3, <3>4
    <2> QED
      BY <2>2, <2>3
  <1> QED
    BY <1>1, <1>2, <1>3 DEF Maintenance

\* No upkeep of the store takes a value away before its lease ends, or shows
\* one again after it, but for the everlasting values UpdateItem has given an
\* expire_time_ (datastore.cpp:147-157, 191-211, 234-249).
THEOREM MaintenanceIsInvisible == ClockFits => (Spec => MaintenanceInvisible)
  <1> SUFFICES ASSUME ClockFits PROVE Spec => MaintenanceInvisible
    OBVIOUS
  <1>1. LeaseInv /\ [Next]_vars => LeaseInv'
    BY LeaseNext
  <1>2. LeaseInv /\ [Next]_vars =>
          [(\E t \in Threads : Maintenance(t)) =>
              \A p \in Pairs : \/ Loadable(datastore'[p], clock) <=> Loadable(datastore[p], clock)
                               \/ UpdatedForever(datastore[p])]_vars
    BY MaintenanceKeeps
  <1> QED
    BY <1>1, <1>2, LeaseInit, PTL DEF Spec, MaintenanceInvisible

-----------------------------------------------------------------------------
(* The service.                                                            *)

\* What an operation of the store does to the calls of the other threads.
LEMMA ReturnKeepsOthers ==
    ASSUME TypeOK, NEW t \in Threads, NEW S, NEW renamed \in [Pairs -> Pairs],
           Return(t, S, renamed)
    PROVE  /\ calls'[t].op = "idle"
           /\ \A u \in Threads \ {t} : calls'[u].op = calls[u].op
  <1>1. ASSUME NEW c \in Calls, c.op = "DeleteItem"
        PROVE  /\ [c EXCEPT !.at = "end"].op = "DeleteItem"
               /\ [c EXCEPT !.at = "dangling"].op = "DeleteItem"
               /\ [c EXCEPT !.pair = renamed[c.pair]].op = "DeleteItem"
    BY <1>1 DEF Calls
  <1>2. Idle.op = "idle"
    BY DEF Idle
  <1> QED
    BY <1>1, <1>2 DEF Return, TypeOK

\* A thread is inside StoreItem exactly when its handler is.
Inside ==
    \A t \in RpcThreads :
       calls[t].op = "StoreItem" <=> rpc[t].op = "Store" /\ rpc[t].at = "commit"

LEMMA RpcThreadsAreThreads == RpcThreads \subseteq Threads
  BY ServiceAssumption

LEMMA ReplyType ==
    ASSUME ServiceTypeOK, NEW t \in Threads, NEW op \in Ops,
           NEW result \in {"unset", "Success", "Failure"}, NEW added \in BOOLEAN,
           Reply(t, op, result, added)
    PROVE  /\ rpc' \in [Threads -> Requests]
           /\ rpc' = [rpc EXCEPT ![t] = NoCall]
           /\ answer' \in Replies
  BY DEF ServiceTypeOK, Reply, Requests, NoCall, Replies

LEMMA GoOnType ==
    ASSUME ServiceTypeOK, NEW t \in Threads, NEW request \in Requests, GoOn(t, request)
    PROVE  /\ rpc' \in [Threads -> Requests]
           /\ rpc' = [rpc EXCEPT ![t] = request]
           /\ answer' \in Replies
  BY DEF ServiceTypeOK, GoOn, NoAnswer, Replies

\* A handler that leaves StoreItem, or does not enter it, keeps the two in step.
LEMMA InsideKept ==
    ASSUME ServiceTypeOK, NEW t \in Threads, NEW request, rpc' = [rpc EXCEPT ![t] = request],
           \A u \in Threads \ {t} : calls'[u].op = calls[u].op,
           calls'[t].op = "StoreItem" <=> request.op = "Store" /\ request.at = "commit"
    PROVE  Inside'
  BY RpcThreadsAreThreads DEF Inside, ServiceTypeOK

\* The same for a handler that has made no call of the store, or a query.
LEMMA InsideQuiet ==
    ASSUME ServiceTypeOK, NEW t \in RpcThreads, NEW request,
           rpc' = [rpc EXCEPT ![t] = request], UNCHANGED vars, IsIdle(t),
           ~(request.op = "Store" /\ request.at = "commit")
    PROVE  Inside'
  BY InsideKept, RpcThreadsAreThreads DEF vars, IsIdle

-----------------------------------------------------------------------------
(* Steps that leave the store alone.                                       *)

LEMMA QuietReply ==
    ASSUME ServiceTypeOK, NEW t \in RpcThreads, IsIdle(t), NEW op \in Ops,
           NEW result \in {"unset", "Success", "Failure"}, NEW added \in BOOLEAN,
           Reply(t, op, result, added), UNCHANGED <<vars, node_joined, updated>>
    PROVE  ServiceTypeOK'
  <1>1. t \in Threads
    BY RpcThreadsAreThreads
  <1>2. /\ rpc' \in [Threads -> Requests]
        /\ rpc' = [rpc EXCEPT ![t] = NoCall]
        /\ answer' \in Replies
    BY <1>1, ReplyType
  <1>3. Inside'
    BY <1>2, InsideQuiet DEF NoCall
  <1> QED
    BY <1>2, <1>3 DEF ServiceTypeOK, Inside

LEMMA QuietGoOn ==
    ASSUME ServiceTypeOK, NEW t \in RpcThreads, IsIdle(t), NEW request \in Requests,
           ~(request.op = "Store" /\ request.at = "commit"),
           GoOn(t, request), UNCHANGED <<vars, node_joined, updated>>
    PROVE  ServiceTypeOK'
  <1>1. t \in Threads
    BY RpcThreadsAreThreads
  <1>2. /\ rpc' \in [Threads -> Requests]
        /\ rpc' = [rpc EXCEPT ![t] = request]
        /\ answer' \in Replies
    BY <1>1, GoOnType
  <1>3. Inside'
    BY <1>2, InsideQuiet
  <1> QED
    BY <1>2, <1>3 DEF ServiceTypeOK, Inside

LEMMA CheckedType ==
    ASSUME ServiceTypeOK, NEW t \in RpcThreads, IsIdle(t), NEW p \in Pairs,
           NEW ttl \in Ttls, NEW publish \in BOOLEAN,
           Checked(t, p, ttl, publish), UNCHANGED <<vars, node_joined, updated>>
    PROVE  ServiceTypeOK'
  <1>1. CASE CanStore(p)
    <2> DEFINE request == [op |-> "Store", at |-> "stamp", pair |-> p, ttl |-> ttl,
                           publish |-> publish, hashable |-> HashableOf(p)]
    <2>1. HashableOf(p) \in BOOLEAN
      BY DEF HashableOf
    <2>2. request \in Requests /\ request.at # "commit"
      BY <2>1 DEF Requests
    <2>3. GoOn(t, request)
      BY <1>1 DEF Checked
    <2> HIDE DEF request
    <2> QED
      BY <2>2, <2>3, QuietGoOn
  <1>2. CASE ~CanStore(p)
    BY <1>2, QuietReply DEF Checked, Ops
  <1> QED
    BY <1>1, <1>2

\* The handlers and parts of handlers that do not change the store.
QuietStep(t) ==
    \/ \E op \in Ops : NotJoined(t, op) \/ BadRequest(t, op) \/ Lookup(t, op)
    \/ \E valid \in BOOLEAN : Downlist(t, valid) \/ Bootstrap(t, valid)
    \/ \E p \in Pairs : StoreDeleted(t, p)
    \/ \E p \in Pairs, ttl \in Ttls : StorePublish(t, p, ttl) \/ StoreMissing(t, p, ttl)
    \/ StoreCheck(t) \/ StoreNoTtl(t)
    \/ \E p \in Pairs, req \in DelReqs, sender \in BOOLEAN : DeleteLoad(t, p, req, sender)
    \/ \E p \in Pairs, new \in Values, ttl \in Ttls, sender \in BOOLEAN :
          UpdateLoad(t, p, new, ttl, sender)

LEMMA QuietSteps ==
    ASSUME ServiceTypeOK, NEW t \in RpcThreads, QuietStep(t)
    PROVE  ServiceTypeOK' /\ UNCHANGED vars
  <1>0. t \in Threads
    BY RpcThreadsAreThreads
  <1>1. ASSUME NEW op \in Ops, NotJoined(t, op) \/ BadRequest(t, op) \/ Lookup(t, op)
        PROVE  ServiceTypeOK'
    BY <1>1, QuietReply DEF NotJoined, BadRequest, Lookup, Free
  <1>2. ASSUME NEW valid \in BOOLEAN, Downlist(t, valid) \/ Bootstrap(t, valid)
        PROVE  ServiceTypeOK'
    <2>1. (IF valid THEN "Success" ELSE "unset") \in {"unset", "Success", "Failure"}
      OBVIOUS
    <2> QED
      BY <1>2, <2>1, QuietReply DEF Downlist, Bootstrap, Free, Ops
  <1>3. ASSUME NEW p \in Pairs, StoreDeleted(t, p)
        PROVE  ServiceTypeOK'
    BY <1>3, QuietReply DEF StoreDeleted, Free, Ops
  <1>4. ASSUME NEW p \in Pairs, NEW ttl \in Ttls, StorePublish(t, p, ttl)
        PROVE  ServiceTypeOK'
    BY <1>4, CheckedType DEF StorePublish, Free
  <1>5. ASSUME NEW p \in Pairs, NEW ttl \in Ttls, StoreMissing(t, p, ttl)
        PROVE  ServiceTypeOK'
    <2> DEFINE request == [op |-> "Store", at |-> "check", pair |-> p, ttl |-> ttl,
                           publish |-> FALSE, hashable |-> FALSE]
    <2>1. request \in Requests /\ request.at # "commit"
      BY DEF Requests
    <2>2. GoOn(t, request) /\ IsIdle(t) /\ UNCHANGED <<vars, node_joined, updated>>
      BY <1>5 DEF StoreMissing, Free
    <2> HIDE DEF request
    <2> QED
      BY <2>1, <2>2, QuietGoOn
  <1>6. ASSUME StoreCheck(t) PROVE ServiceTypeOK'
    <2>1. rpc[t] \in Requests /\ rpc[t].op = "Store"
      BY <1>0, <1>6 DEF StoreCheck, ServiceTypeOK
    <2>2. rpc[t].pair \in Pairs /\ rpc[t].ttl \in Ttls
      BY <2>1 DEF Requests
    <2> QED
      BY <1>6, <2>2, CheckedType DEF StoreCheck
  <1>7. ASSUME StoreNoTtl(t) PROVE ServiceTypeOK'
    BY <1>7, QuietReply DEF StoreNoTtl, Ops
  <1>8. ASSUME NEW p \in Pairs, NEW req \in DelReqs, NEW sender \in BOOLEAN,
               DeleteLoad(t, p, req, sender)
        PROVE  ServiceTypeOK'
    <2> DEFINE request == [op |-> "Delete", pair |-> p, req |-> req, sender |-> sender]
    <2>1. request \in Requests /\ request.op # "Store"
      BY DEF Requests
    <2>2. /\ Reply(t, "Delete", "Failure", FALSE) \/ GoOn(t, request)
          /\ IsIdle(t) /\ UNCHANGED <<vars, node_joined, updated>>
      BY <1>8 DEF DeleteLoad, Free
    <2> HIDE DEF request
    <2> QED
      BY <2>1, <2>2, QuietGoOn, QuietReply DEF Ops
  <1>9. ASSUME NEW p \in Pairs, NEW new \in Values, NEW ttl \in Ttls, NEW sender \in BOOLEAN,
               UpdateLoad(t, p, new, ttl, sender)
        PROVE  ServiceTypeOK'
    <2> DEFINE request == [op |-> "Update", pair |-> p, new |-> new, ttl |-> ttl,
                           sender |-> sender]
    <2>1. request \in Requests /\ request.op # "Store"
      BY DEF Requests
    <2>2. /\ Reply(t, "Update", "Failure", FALSE) \/ GoOn(t, request)
          /\ IsIdle(t) /\ UNCHANGED <<vars, node_joined, updated>>
      BY <1>9 DEF UpdateLoad, Free
    <2> HIDE DEF request
    <2> QED
      BY <2>1, <2>2, QuietGoOn, QuietReply DEF Ops
  <1>10. ServiceTypeOK'
    BY <1>1, <1>2, <1>3, <1>4, <1>5, <1>6, <1>7, <1>8, <1>9 DEF QuietStep
  <1>11. UNCHANGED vars
    BY DEF QuietStep, NotJoined, BadRequest, Lookup, Downlist, Bootstrap, StoreDeleted,
           StorePublish, StoreMissing, StoreCheck, StoreNoTtl, DeleteLoad, UpdateLoad
  <1> QED
    BY <1>10, <1>11

-----------------------------------------------------------------------------
(* Steps that change the store.                                            *)

LEMMA RefreshSteps ==
    ASSUME TypeOK, ServiceTypeOK, NEW t \in RpcThreads, NEW p \in Pairs, StoreRefresh(t, p)
    PROVE  ServiceTypeOK' /\ Next
  <1>1. t \in Threads
    BY RpcThreadsAreThreads
  <1>2. RefreshItem(t, p) /\ Reply(t, "Store", "Success", TRUE) /\ UNCHANGED <<node_joined, updated>>
    BY DEF StoreRefresh
  <1>3. calls'[t].op = "idle" /\ \A u \in Threads \ {t} : calls'[u].op = calls[u].op
    BY <1>1, <1>2, ReturnKeepsOthers, InPlaceType DEF RefreshItem
  <1>4. /\ rpc' \in [Threads -> Requests] /\ rpc' = [rpc EXCEPT ![t] = NoCall]
        /\ answer' \in Replies
    BY <1>1, <1>2, ReplyType DEF Ops
  <1>5. Inside'
    BY <1>1, <1>3, <1>4, InsideKept DEF NoCall
  <1> QED
    BY <1>1, <1>2, <1>4, <1>5 DEF ServiceTypeOK, Inside, Next, Maintenance

LEMMA StampSteps ==
    ASSUME TypeOK, ServiceTypeOK, NEW t \in RpcThreads, StoreStamp(t)
    PROVE  ServiceTypeOK' /\ Next
  <1>1. t \in Threads
    BY RpcThreadsAreThreads
  <1> DEFINE request == [rpc[t] EXCEPT !.at = "commit"]
  <1>2. rpc[t] \in Requests /\ rpc[t].op = "Store"
    BY <1>1 DEF StoreStamp, ServiceTypeOK
  <1>3. /\ request \in Requests /\ request.op = "Store" /\ request.at = "commit"
        /\ rpc[t].pair \in Pairs /\ rpc[t].ttl \in Ttls /\ rpc[t].hashable \in BOOLEAN
    BY <1>2 DEF Requests
  <1>4. /\ StoreItemStamp(t, rpc[t].pair, rpc[t].ttl, rpc[t].hashable)
        /\ GoOn(t, request) /\ UNCHANGED <<node_joined, updated>>
    BY DEF StoreStamp
  <1> HIDE DEF request
  <1>5. calls'[t].op = "StoreItem" /\ \A u \in Threads \ {t} : calls'[u].op = calls[u].op
    BY <1>1, <1>4 DEF StoreItemStamp, TypeOK
  <1>6. /\ rpc' \in [Threads -> Requests] /\ rpc' = [rpc EXCEPT ![t] = request]
        /\ answer' \in Replies
    BY <1>1, <1>3, <1>4, GoOnType
  <1>7. Inside'
    BY <1>1, <1>3, <1>5, <1>6, InsideKept
  <1>8. rpc[t].hashable \in Hashables
    BY <1>3, ServiceAssumption
  <1> QED
    BY <1>1, <1>3, <1>4, <1>6, <1>7, <1>8 DEF ServiceTypeOK, Inside, Next, ClientCall

LEMMA CommitSteps ==
    ASSUME TypeOK, ServiceTypeOK, NEW t \in RpcThreads, StoreCommit(t)
    PROVE  ServiceTypeOK' /\ Next
  <1>1. t \in Threads
    BY RpcThreadsAreThreads
  <1>2. PICK ok \in BOOLEAN :
           /\ StoreItemCommit(t) /\ node_joined' = node_joined
           /\ Reply(t, "Store", IF ok THEN "Success" ELSE "Failure", ok)
           /\ updated' \subseteq updated
    <2> DEFINE ok == Present(datastore[rpc[t].pair])
                        => MayReplace(datastore[rpc[t].pair], calls[t].tuple)
    <2>1. ok \in BOOLEAN
      OBVIOUS
    <2>2. /\ StoreItemCommit(t) /\ node_joined' = node_joined
          /\ Reply(t, "Store", IF ok THEN "Success" ELSE "Failure", ok)
          /\ updated' \subseteq updated
      BY DEF StoreCommit
    <2> HIDE DEF ok
    <2> QED
      BY <2>1, <2>2
  <1>3. calls'[t].op = "idle" /\ \A u \in Threads \ {t} : calls'[u].op = calls[u].op
    <2>1. CASE Return(t, {}, InPlace)
      BY <1>1, <2>1, ReturnKeepsOthers, InPlaceType
    <2>2. CASE calls' = [calls EXCEPT ![t] = Idle]
      BY <1>1, <2>2 DEF TypeOK, Idle
    <2> QED
      BY <1>2, <2>1, <2>2 DEF StoreItemCommit
  <1>4. /\ rpc' \in [Threads -> Requests] /\ rpc' = [rpc EXCEPT ![t] = NoCall]
        /\ answer' \in Replies
    BY <1>1, <1>2, ReplyType DEF Ops
  <1>5. Inside'
    BY <1>1, <1>3, <1>4, InsideKept DEF NoCall
  <1> QED
    BY <1>1, <1>2, <1>4, <1>5 DEF ServiceTypeOK, Inside, Next, ClientCall

LEMMA MarkSteps ==
    ASSUME TypeOK, ServiceTypeOK, NEW t \in RpcThreads, DeleteMark(t)
    PROVE  ServiceTypeOK' /\ [Next]_vars
  <1>1. t \in Threads
    BY RpcThreadsAreThreads
  <1>2. rpc[t] \in Requests /\ rpc[t].op = "Delete" /\ IsIdle(t)
    BY <1>1 DEF DeleteMark, ServiceTypeOK
  <1>3. rpc[t].pair \in Pairs /\ rpc[t].req \in DelReqs /\ rpc[t].sender \in BOOLEAN
    BY <1>2 DEF Requests
  <1>4. PICK result \in {"Success", "Failure"}, added \in BOOLEAN :
           Reply(t, "Delete", result, added)
    BY <1>3 DEF DeleteMark, ReplyToSender
  <1>5. /\ MarkForDeletion(t, rpc[t].pair, rpc[t].req) \/ UNCHANGED vars
        /\ UNCHANGED <<node_joined, updated>>
    BY DEF DeleteMark
  <1>6. CASE UNCHANGED vars
    <2>1. ServiceTypeOK'
      BY <1>2, <1>4, <1>5, <1>6, QuietReply DEF Ops
    <2> QED
      BY <1>6, <2>1
  <1>7. CASE MarkForDeletion(t, rpc[t].pair, rpc[t].req)
    <2>1. calls'[t].op = "idle" /\ \A u \in Threads \ {t} : calls'[u].op = calls[u].op
      BY <1>1, <1>7, ReturnKeepsOthers, InPlaceType DEF MarkForDeletion
    <2>2. /\ rpc' \in [Threads -> Requests] /\ rpc' = [rpc EXCEPT ![t] = NoCall]
          /\ answer' \in Replies
      BY <1>1, <1>4, ReplyType DEF Ops
    <2>3. Inside'
      BY <1>1, <2>1, <2>2, InsideKept DEF NoCall
    <2> QED
      BY <1>1, <1>3, <1>5, <1>7, <2>2, <2>3 DEF ServiceTypeOK, Inside, Next, ClientCall
  <1> QED
    BY <1>5, <1>6, <1>7

LEMMA ReplaceSteps ==
    ASSUME TypeOK, ServiceTypeOK, NEW t \in RpcThreads, UpdateReplace(t)
    PROVE  ServiceTypeOK' /\ [Next]_vars
  <1>1. t \in Threads
    BY RpcThreadsAreThreads
  <1>2. rpc[t] \in Requests /\ rpc[t].op = "Update" /\ IsIdle(t)
    BY <1>1 DEF UpdateReplace, ServiceTypeOK
  <1>3. /\ rpc[t].pair \in Pairs /\ rpc[t].new \in Values /\ rpc[t].ttl \in Ttls
        /\ rpc[t].sender \in BOOLEAN
    BY <1>2 DEF Requests
  <1>4. rpc[t].pair[1] \in Keys /\ rpc[t].pair[2] \in Values
    BY <1>3 DEF Pairs
  <1>5. PICK result \in {"Success", "Failure"}, added \in BOOLEAN :
           Reply(t, "Update", result, added)
    BY <1>3 DEF UpdateReplace, ReplyToSender
  <1>6. CASE UNCHANGED <<vars, node_joined, updated>>
    <2>1. ServiceTypeOK'
      BY <1>2, <1>5, <1>6, QuietReply DEF Ops
    <2> QED
      BY <1>6, <2>1
  <1>7. CASE UpdateItemOf(t) /\ node_joined' = node_joined
             /\ updated' = (updated \ {rpc[t].pair}) \cup {<<rpc[t].pair[1], rpc[t].new>>}
    <2> DEFINE k == rpc[t].pair[1]
    <2>1. <<k, rpc[t].new>> \in Pairs
      BY <1>3, <1>4 DEF Pairs
    <2>2. [InPlace EXCEPT ![rpc[t].pair] = <<k, rpc[t].new>>] \in [Pairs -> Pairs]
      BY <2>1, InPlaceType
    <2>3. PICK h \in BOOLEAN :
             UpdateItem(t, k, rpc[t].pair[2], rpc[t].new, rpc[t].ttl, h)
      BY <1>7 DEF UpdateItemOf
    <2>4. <<k, rpc[t].pair[2]>> = rpc[t].pair
      BY <1>3 DEF Pairs
    <2>5. calls'[t].op = "idle" /\ \A u \in Threads \ {t} : calls'[u].op = calls[u].op
      BY <1>1, <2>2, <2>3, <2>4, ReturnKeepsOthers DEF UpdateItem
    <2>6. /\ rpc' \in [Threads -> Requests] /\ rpc' = [rpc EXCEPT ![t] = NoCall]
          /\ answer' \in Replies
      BY <1>1, <1>5, ReplyType DEF Ops
    <2>7. Inside'
      BY <1>1, <2>5, <2>6, InsideKept DEF NoCall
    <2>8. h \in Hashables
      BY ServiceAssumption
    <2>9. Next
      BY <1>1, <1>3, <1>4, <2>3, <2>8 DEF Next, ClientCall
    <2>10. updated' \subseteq Pairs
      BY <1>7, <2>1 DEF ServiceTypeOK
    <2> QED
      BY <1>7, <2>6, <2>7, <2>9, <2>10 DEF ServiceTypeOK, Inside
  <1> QED
    BY <1>6, <1>7 DEF UpdateReplace

LEMMA UpkeepSteps ==
    ASSUME TypeOK, ServiceTypeOK, Upkeep
    PROVE  ServiceTypeOK' /\ [Next]_vars
  <1>0. /\ answer' \in Replies /\ rpc' \in [Threads -> Requests] /\ updated' \subseteq Pairs
        /\ UNCHANGED <<rpc, updated>>
    BY DEF Upkeep, ServiceTypeOK, Replies
  <1>1. ASSUME NEW t \in Threads \ RpcThreads, Maintenance(t), node_joined' = node_joined
        PROVE  ServiceTypeOK' /\ Next
    <2>1. \A u \in Threads \ {t} : calls'[u].op = calls[u].op
      BY <1>1, ReturnKeepsOthers, InPlaceType
      DEF Maintenance, RefreshItem, MarkAsDeleted, DeleteExpiredValues
    <2>2. \A u \in RpcThreads : calls'[u].op = calls[u].op
      BY <2>1, RpcThreadsAreThreads
    <2> QED
      BY <1>0, <1>1, <2>2 DEF ServiceTypeOK, Next
  <1>2. ASSUME Tick, node_joined' = node_joined
        PROVE  ServiceTypeOK' /\ Next
    BY <1>0, <1>2 DEF Tick, ServiceTypeOK, Next
  <1>3. ASSUME node_joined' = ~node_joined, UNCHANGED vars
        PROVE  ServiceTypeOK'
    BY <1>0, <1>3 DEF vars, ServiceTypeOK
  <1> QED
    BY <1>1, <1>2, <1>3 DEF Upkeep

-----------------------------------------------------------------------------
(* The theorems.                                                           *)

LEMMA ServiceInitType == ServiceInit => Init /\ ServiceTypeOK
  <1> SUFFICES ASSUME ServiceInit PROVE Init /\ ServiceTypeOK
    OBVIOUS
  <1>1. NoCall \in Requests /\ NoCall.op = "none"
    BY DEF NoCall, Requests
  <1>2. \A t \in RpcThreads : rpc[t].op = "none" /\ calls[t].op = "idle"
    BY <1>1, RpcThreadsAreThreads DEF ServiceInit, Init, Idle
  <1>3. answer \in Replies
    BY DEF ServiceInit, Replies
  <1> QED
    BY <1>1, <1>2, <1>3 DEF ServiceInit, ServiceTypeOK

LEMMA ServiceStep ==
    ASSUME TypeOK, ServiceTypeOK, [ServiceNext]_allVars
    PROVE  ServiceTypeOK' /\ [Next]_vars
  <1>1. ASSUME NEW t \in RpcThreads, Handler(t)
        PROVE  ServiceTypeOK' /\ [Next]_vars
    <2>1. ASSUME QuietStep(t) PROVE ServiceTypeOK' /\ [Next]_vars
      BY <2>1, QuietSteps
    <2>2. ASSUME NEW p \in Pairs, StoreRefresh(t, p) PROVE ServiceTypeOK' /\ [Next]_vars
      BY <2>2, RefreshSteps
    <2>3. ASSUME StoreStamp(t) PROVE ServiceTypeOK' /\ [Next]_vars
      BY <2>3, StampSteps
    <2>4. ASSUME StoreCommit(t) PROVE ServiceTypeOK' /\ [Next]_vars
      BY <2>4, CommitSteps
    <2>5. ASSUME DeleteMark(t) PROVE ServiceTypeOK' /\ [Next]_vars
      BY <2>5, MarkSteps
    <2>6. ASSUME UpdateReplace(t) PROVE ServiceTypeOK' /\ [Next]_vars
      BY <2>6, ReplaceSteps
    <2> QED
      BY <1>1, <2>1, <2>2, <2>3, <2>4, <2>5, <2>6 DEF Handler, QuietStep
  <1>2. CASE Upkeep
    BY <1>2, UpkeepSteps
  <1>3. CASE UNCHANGED allVars
    BY <1>3 DEF allVars, serviceVars, vars, ServiceTypeOK
  <1> QED
    BY <1>1, <1>2, <1>3 DEF ServiceNext

\* The handlers and the calls of the store they are in stay in step, for any
\* number of threads of the RPC server (kadservice.cpp:399-449).
THEOREM ServiceTypeCorrect == ServiceSpec => [](TypeOK /\ ServiceTypeOK)
  <1>1. ServiceInit => TypeOK /\ ServiceTypeOK
    BY ServiceInitType, TypeInit
  <1>2. TypeOK /\ ServiceTypeOK /\ [ServiceNext]_allVars => (TypeOK /\ ServiceTypeOK)'
    BY ServiceStep, TypeNext
  <1> QED
    BY <1>1, <1>2, PTL DEF ServiceSpec

\* Every handler uses the store by its operations only, so that whatever holds
\* of a DataStore under arbitrary callers holds of the one in a node.
THEOREM ServiceUsesStore == ServiceSpec => Spec
  <1>1. ServiceInit => Init
    BY ServiceInitType
  <1>2. TypeOK /\ ServiceTypeOK /\ [ServiceNext]_allVars => [Next]_vars
    BY ServiceStep
  <1> QED
    BY <1>1, <1>2, ServiceTypeCorrect, PTL DEF ServiceSpec, Spec

\* In particular no sequence of requests, however their calls of the store
\* interleave, brings a deleted value back under a lease that ends no later than
\* the one that was deleted (kadservice.cpp:399-449, datastore.cpp:53-55).
THEOREM ServiceNoReplay == ClockFits => (ServiceSpec => NoReplay)
  BY ServiceUsesStore, NoReplayHolds


-----------------------------------------------------------------------------
(* What a handler leaves alone, and what it is told.                       *)

\* A handler inside StoreItem is storing what its request says.
Linked ==
    \A t \in RpcThreads :
       calls[t].op = "StoreItem" =>
          calls[t].pair = rpc[t].pair /\ calls[t].tuple.hashable = rpc[t].hashable

LinkInv == TypeOK /\ ServiceTypeOK /\ Linked

\* A step of thread t leaves the other handlers, and their StoreItem, as they are.
OthersKept(t) ==
    \A u \in Threads \ {t} :
       rpc'[u] = rpc[u] /\ (calls'[u].op = "StoreItem" => calls'[u] = calls[u])

LEMMA ReturnKeepsStores ==
    ASSUME TypeOK, NEW t \in Threads, NEW S, NEW renamed, Return(t, S, renamed),
           NEW r, ServiceTypeOK, rpc' = [rpc EXCEPT ![t] = r]
    PROVE  OthersKept(t)
  BY ReturnBounded DEF OthersKept, ServiceTypeOK

LEMMA StillKeepsStores ==
    ASSUME ServiceTypeOK, NEW t \in Threads, calls' = calls,
           NEW r, rpc' = [rpc EXCEPT ![t] = r]
    PROVE  OthersKept(t)
  BY DEF OthersKept, ServiceTypeOK

LEMMA LinkedKept ==
    ASSUME Linked, NEW t \in RpcThreads, OthersKept(t), calls'[t].op # "StoreItem"
    PROVE  Linked'
  BY RpcThreadsAreThreads DEF Linked, OthersKept

\* What a handler that ends with this step must have been told.
ToldRight(t) ==
    LET p == rpc[t].pair
    IN  IF answer'.result = "Failure"
        THEN datastore' = datastore \/ (rpc[t].op # "Store" /\ ~rpc[t].sender)
        ELSE CASE rpc[t].op = "Store" -> datastore'[p].status = "NOT_DELETED"
               [] rpc[t].op = "Delete" -> Tombstone(datastore'[p])
               [] rpc[t].op = "Update" ->
                     /\ datastore'[<<p[1], rpc[t].new>>].status = "NOT_DELETED"
                     /\ p[2] # rpc[t].new => ~Present(datastore'[p])

Told(t) == rpc[t] # NoCall /\ rpc'[t] = NoCall => ToldRight(t)

\* What this module shows of every step of a handler.
Good(t) == OthersKept(t) /\ Linked' /\ Told(t)

LEMMA QuietGood ==
    ASSUME LinkInv, NEW t \in RpcThreads, QuietStep(t)
    PROVE  Good(t)
  <1>0. t \in Threads
    BY RpcThreadsAreThreads
  <1>1. UNCHANGED vars
    BY QuietSteps DEF LinkInv
  <1>2. ASSUME NEW r, rpc' = [rpc EXCEPT ![t] = r], IsIdle(t)
        PROVE  OthersKept(t) /\ Linked'
    <2>1. OthersKept(t)
      BY <1>0, <1>1, <1>2, StillKeepsStores DEF vars, LinkInv
    <2>2. calls'[t].op # "StoreItem"
      BY <1>1, <1>2 DEF vars, IsIdle
    <2> QED
      BY <2>1, <2>2, LinkedKept DEF LinkInv
  <1>3. IsIdle(t) /\ \E r : rpc' = [rpc EXCEPT ![t] = r]
    BY DEF QuietStep, NotJoined, BadRequest, Lookup, Downlist, Bootstrap, StoreDeleted,
           StorePublish, StoreMissing, StoreCheck, StoreNoTtl, DeleteLoad, UpdateLoad,
           Free, Checked, Reply, GoOn
  <1>4. rpc[t] = NoCall \/ StoreCheck(t) \/ StoreNoTtl(t)
    BY DEF QuietStep, NotJoined, BadRequest, Lookup, Downlist, Bootstrap, StoreDeleted,
           StorePublish, StoreMissing, DeleteLoad, UpdateLoad, Free
  <1>5. Told(t)
    <2>1. CASE rpc[t] = NoCall
      BY <2>1 DEF Told
    <2>2. CASE StoreCheck(t)
      <3>1. rpc'[t] = NoCall => answer'.result = "Failure"
        <4>1. rpc[t] \in Requests /\ rpc[t].op = "Store"
          BY <1>0, <2>2 DEF StoreCheck, LinkInv, ServiceTypeOK
        <4>2. CASE CanStore(rpc[t].pair)
          BY <1>0, <2>2, <4>2 DEF StoreCheck, Checked, GoOn, NoCall, LinkInv, ServiceTypeOK
        <4>3. CASE ~CanStore(rpc[t].pair)
          BY <2>2, <4>3 DEF StoreCheck, Checked, Reply
        <4> QED
          BY <4>2, <4>3
      <3> QED
        BY <1>1, <3>1 DEF Told, ToldRight, vars
    <2>3. CASE StoreNoTtl(t)
      BY <1>1, <2>3 DEF StoreNoTtl, Reply, Told, ToldRight, vars
    <2> QED
      BY <1>4, <2>1, <2>2, <2>3
  <1> QED
    BY <1>2, <1>3, <1>5 DEF Good

LEMMA RefreshGood ==
    ASSUME LinkInv, NEW t \in RpcThreads, NEW p \in Pairs, StoreRefresh(t, p)
    PROVE  Good(t)
  <1>0. t \in Threads
    BY RpcThreadsAreThreads
  <1>1. /\ Return(t, {}, InPlace) /\ rpc' = [rpc EXCEPT ![t] = NoCall] /\ rpc[t] = NoCall
    BY DEF StoreRefresh, RefreshItem, Reply, Free
  <1>2. calls'[t].op # "StoreItem"
    BY <1>0, <1>1, ReturnKeepsOthers, InPlaceType DEF LinkInv
  <1>3. OthersKept(t)
    BY <1>0, <1>1, ReturnKeepsStores DEF LinkInv
  <1> QED
    BY <1>1, <1>2, <1>3, LinkedKept DEF Good, Told, LinkInv

LEMMA StampGood ==
    ASSUME LinkInv, NEW t \in RpcThreads, StoreStamp(t)
    PROVE  Good(t)
  <1>0. t \in Threads
    BY RpcThreadsAreThreads
  <1> DEFINE request == [rpc[t] EXCEPT !.at = "commit"]
             call == [op |-> "StoreItem", pair |-> rpc[t].pair,
                      tuple |-> NewTuple(clock, rpc[t].ttl, rpc[t].hashable)]
  <1>1. rpc[t] \in Requests /\ rpc[t].op = "Store"
    BY <1>0 DEF StoreStamp, LinkInv, ServiceTypeOK
  <1>2. rpc' = [rpc EXCEPT ![t] = request] /\ calls' = [calls EXCEPT ![t] = call]
    BY DEF StoreStamp, StoreItemStamp, GoOn
  <1>3. /\ request.pair = rpc[t].pair /\ request.hashable = rpc[t].hashable
        /\ request.op = "Store"
    BY <1>1 DEF Requests
  <1>4. call.pair = rpc[t].pair /\ call.tuple.hashable = rpc[t].hashable
    BY DEF NewTuple
  <1> HIDE DEF request, call
  <1>5. /\ rpc'[t] = request /\ calls'[t] = call
        /\ \A u \in Threads \ {t} : rpc'[u] = rpc[u] /\ calls'[u] = calls[u]
    BY <1>0, <1>2 DEF LinkInv, TypeOK, ServiceTypeOK
  <1>6. OthersKept(t)
    BY <1>5 DEF OthersKept
  <1>7. Linked'
    BY <1>3, <1>4, <1>5, RpcThreadsAreThreads DEF Linked, LinkInv
  <1>8. Told(t)
    BY <1>3, <1>5 DEF Told, NoCall
  <1> QED
    BY <1>6, <1>7, <1>8 DEF Good

LEMMA CommitGood ==
    ASSUME LinkInv, NEW t \in RpcThreads, StoreCommit(t)
    PROVE  /\ Good(t)
           /\ \/ datastore' = datastore /\ updated' = updated
              \/ /\ datastore' = [datastore EXCEPT ![rpc[t].pair] = calls[t].tuple]
                 /\ updated' = updated \ {rpc[t].pair}
           /\ rpc'[t] = NoCall
  <1>0. t \in Threads
    BY RpcThreadsAreThreads
  <1> DEFINE p == rpc[t].pair
             r == calls[t].tuple
  <1>1. /\ calls[t].op = "StoreItem"
        /\ calls[t] \in [op : {"StoreItem"}, pair : Pairs,
                         tuple : {q \in Tuple : q.status = "NOT_DELETED"}]
    BY <1>0 DEF StoreCommit, StoreItemCommit, LinkInv, TypeOK, Calls
  <1>2. p \in Pairs /\ r \in Tuple /\ r.status = "NOT_DELETED" /\ calls[t].pair = p
    BY <1>1 DEF LinkInv, Linked
  <1>3. /\ rpc[t].op = "Store" /\ rpc' = [rpc EXCEPT ![t] = NoCall]
    BY DEF StoreCommit, Reply
  <1>4. CASE Present(datastore[p]) => MayReplace(datastore[p], r)
    <2>1. /\ datastore' = [datastore EXCEPT ![p] = r]
          /\ Return(t, {}, InPlace)
          /\ updated' = updated \ {p}
          /\ answer'.result = "Success"
      BY <1>2, <1>4 DEF StoreCommit, StoreItemCommit, Put, Becomes, Reply
    <2>2. calls'[t].op # "StoreItem"
      BY <1>0, <2>1, ReturnKeepsOthers, InPlaceType DEF LinkInv
    <2>3. OthersKept(t)
      BY <1>0, <1>3, <2>1, ReturnKeepsStores DEF LinkInv
    <2>4. datastore'[p].status = "NOT_DELETED"
      BY <1>2, <2>1 DEF LinkInv, TypeOK
    <2>5. Told(t)
      BY <1>3, <2>1, <2>4 DEF Told, ToldRight
    <2> QED
      BY <1>0, <1>3, <2>1, <2>2, <2>3, <2>5, LinkedKept DEF Good, LinkInv, ServiceTypeOK
  <1>5. CASE ~(Present(datastore[p]) => MayReplace(datastore[p], r))
    <2>1. /\ datastore' = datastore /\ calls' = [calls EXCEPT ![t] = Idle]
          /\ updated' = updated /\ answer'.result = "Failure"
      BY <1>2, <1>5 DEF StoreCommit, StoreItemCommit, Reply
    <2>2. OthersKept(t) /\ calls'[t].op # "StoreItem"
      BY <1>0, <1>3, <2>1 DEF OthersKept, Idle, LinkInv, TypeOK, ServiceTypeOK
    <2>3. Told(t)
      BY <2>1 DEF Told, ToldRight
    <2> QED
      BY <1>0, <1>3, <2>1, <2>2, <2>3, LinkedKept DEF Good, LinkInv, ServiceTypeOK
  <1> QED
    BY <1>4, <1>5

LEMMA MarkGood ==
    ASSUME LinkInv, NEW t \in RpcThreads, DeleteMark(t)
    PROVE  Good(t)
  <1>0. t \in Threads
    BY RpcThreadsAreThreads
  <1> DEFINE p == rpc[t].pair
             r == datastore[p]
  <1>1. rpc[t] \in Requests /\ rpc[t].op = "Delete" /\ IsIdle(t)
    BY <1>0 DEF DeleteMark, LinkInv, ServiceTypeOK
  <1>2. p \in Pairs /\ rpc[t].sender \in BOOLEAN
    BY <1>1 DEF Requests
  <1>3. rpc' = [rpc EXCEPT ![t] = NoCall]
    BY DEF DeleteMark, ReplyToSender, Reply
  <1>4. CASE UNCHANGED vars
    <2>1. \/ answer'.result = "Failure"
          \/ Tombstone(r)
          \/ MarkForDeletion(t, p, rpc[t].req)
      BY DEF DeleteMark, Reply
    <2>2. Tombstone(r) \/ answer'.result = "Failure"
      <3>1. ASSUME MarkForDeletion(t, p, rpc[t].req) PROVE FALSE
        <4>1. /\ datastore' = [datastore EXCEPT ![p] =
                    [datastore[p] EXCEPT !.status = "MARKED_FOR_DELETION", !.delReq = rpc[t].req]]
              /\ r.status = "NOT_DELETED"
          BY <3>1 DEF MarkForDeletion, Put, Becomes
        <4>2. datastore'[p].status = "MARKED_FOR_DELETION"
          BY <1>2, <4>1 DEF LinkInv, TypeOK, Tuple
        <4> QED
          BY <1>4, <4>1, <4>2 DEF vars
      <3> QED
        BY <2>1, <3>1
    <2>3. Told(t)
      BY <1>1, <1>4, <2>2 DEF Told, ToldRight, vars
    <2>4. OthersKept(t) /\ calls'[t].op # "StoreItem"
      BY <1>0, <1>1, <1>3, <1>4, StillKeepsStores DEF vars, LinkInv, IsIdle
    <2> QED
      BY <2>3, <2>4, LinkedKept DEF Good, LinkInv
  <1>5. CASE MarkForDeletion(t, p, rpc[t].req)
    <2>1. /\ datastore' = [datastore EXCEPT ![p] =
                [datastore[p] EXCEPT !.status = "MARKED_FOR_DELETION", !.delReq = rpc[t].req]]
          /\ Return(t, {}, InPlace)
          /\ r.status = "NOT_DELETED"
      BY <1>5 DEF MarkForDeletion, Put, Becomes
    <2>2. datastore'[p].status = "MARKED_FOR_DELETION"
      BY <1>2, <2>1 DEF LinkInv, TypeOK, Tuple
    <2>3. answer'.result = "Failure" => ~rpc[t].sender
      <3>1. ~Tombstone(r) /\ Present(r)
        BY <2>1 DEF Tombstone, Tombstones, Present
      <3> QED
        BY <1>2, <3>1 DEF DeleteMark, ReplyToSender, Reply
    <2>4. Told(t)
      BY <1>1, <2>2, <2>3 DEF Told, ToldRight, Tombstone, Tombstones
    <2>5. OthersKept(t) /\ calls'[t].op # "StoreItem"
      BY <1>0, <1>3, <2>1, ReturnKeepsStores, ReturnKeepsOthers, InPlaceType DEF LinkInv
    <2> QED
      BY <2>4, <2>5, LinkedKept DEF Good, LinkInv
  <1> QED
    BY <1>4, <1>5 DEF DeleteMark

\* UpdateItem puts the new value where there was none, or in its own place.
LEMMA ReplaceGood ==
    ASSUME LinkInv, NEW t \in RpcThreads, UpdateReplace(t)
    PROVE  /\ Good(t)
           /\ \/ datastore' = datastore /\ updated' = updated
              \/ LET p == rpc[t].pair
                     q == <<rpc[t].pair[1], rpc[t].new>>
                 IN  /\ datastore[p].status = "NOT_DELETED"
                     /\ p = q \/ ~Present(datastore[q])
                     /\ \A x \in Pairs \ {p, q} : datastore'[x] = datastore[x]
                     /\ p # q => ~Present(datastore'[p])
                     /\ p \in Pairs /\ q \in Pairs
                     /\ updated' = (updated \ {p}) \cup {q}
  <1>0. t \in Threads
    BY RpcThreadsAreThreads
  <1> DEFINE p == rpc[t].pair
             k == p[1]
             q == <<k, rpc[t].new>>
  <1>1. rpc[t] \in Requests /\ rpc[t].op = "Update" /\ IsIdle(t)
    BY <1>0 DEF UpdateReplace, LinkInv, ServiceTypeOK
  <1>2. /\ p \in Pairs /\ rpc[t].sender \in BOOLEAN /\ rpc[t].new \in Values
        /\ rpc[t].ttl \in Ttls
    BY <1>1 DEF Requests
  <1>3. p = <<k, p[2]>> /\ q \in Pairs /\ (p = q <=> p[2] = rpc[t].new)
    BY <1>2 DEF Pairs
  <1>4. rpc' = [rpc EXCEPT ![t] = NoCall]
    BY DEF UpdateReplace, ReplyToSender, Reply
  <1>5. CASE UpdateRefused(t) /\ UNCHANGED <<vars, updated>> /\ answer'.result = "Failure"
    <2>1. Told(t)
      BY <1>5 DEF Told, ToldRight, vars
    <2>2. OthersKept(t) /\ calls'[t].op # "StoreItem"
      BY <1>0, <1>1, <1>4, <1>5, StillKeepsStores DEF vars, LinkInv, IsIdle
    <2> QED
      BY <1>5, <2>1, <2>2, LinkedKept DEF Good, LinkInv, vars
  <1>6. CASE /\ UpdateItemOf(t) /\ ReplyToSender(t, "Update")
             /\ updated' = (updated \ {p}) \cup {q}
    <2>1. PICK h : h \in BOOLEAN /\ UpdateItem(t, k, p[2], rpc[t].new, rpc[t].ttl, h)
      BY <1>6 DEF UpdateItemOf
    <2> DEFINE r == [NewTuple(clock, rpc[t].ttl, h) EXCEPT !.expire = U32(clock + rpc[t].ttl)]
    <2>2. /\ datastore' = [datastore EXCEPT ![p] = Absent, ![q] = r]
          /\ \E renamed : Return(t, {}, renamed) /\ renamed = [InPlace EXCEPT ![p] = q]
          /\ datastore[p].status = "NOT_DELETED"
          /\ p = q \/ ~Present(datastore[q])
      BY <1>3, <2>1 DEF UpdateItem, Becomes
    <2>3. r.status = "NOT_DELETED" /\ ~Present(Absent)
      BY DEF NewTuple, Present, Absent
    <2> HIDE DEF r
    <2>4. /\ datastore'[q].status = "NOT_DELETED"
          /\ p # q => ~Present(datastore'[p])
          /\ \A x \in Pairs \ {p, q} : datastore'[x] = datastore[x]
      BY <1>2, <1>3, <2>2, <2>3 DEF LinkInv, TypeOK
    <2>5. answer'.result = "Failure" => ~rpc[t].sender
      BY <1>2, <1>6 DEF ReplyToSender, Reply
    <2>6. Told(t)
      BY <1>1, <1>3, <2>4, <2>5 DEF Told, ToldRight
    <2>7. [InPlace EXCEPT ![p] = q] \in [Pairs -> Pairs]
      BY <1>2, <1>3, InPlaceType
    <2>8. OthersKept(t) /\ calls'[t].op # "StoreItem"
      BY <1>0, <1>4, <2>2, <2>7, ReturnKeepsStores, ReturnKeepsOthers DEF LinkInv
    <2> QED
      BY <1>2, <1>3, <1>6, <2>2, <2>4, <2>6, <2>8, LinkedKept DEF Good, LinkInv
  <1> QED
    BY <1>5, <1>6 DEF UpdateReplace, Reply

LEMMA UpkeepKeepsLinks ==
    ASSUME LinkInv, Upkeep
    PROVE  Linked' /\ rpc' = rpc
  <1>0. rpc' = rpc
    BY DEF Upkeep
  <1>1. ASSUME NEW t \in Threads \ RpcThreads, Maintenance(t)
        PROVE  Linked'
    <2>1. PICK S : Return(t, S, InPlace)
      BY <1>1 DEF Maintenance, RefreshItem, MarkAsDeleted, DeleteExpiredValues
    <2>2. \A u \in Threads : calls'[u].op = "StoreItem" => calls'[u] = calls[u]
      BY <1>1, <2>1, ReturnBounded DEF LinkInv
    <2> QED
      BY <1>0, <2>2, RpcThreadsAreThreads DEF Linked, LinkInv
  <1>2. ASSUME calls' = calls
        PROVE  Linked'
    BY <1>0, <1>2 DEF Linked, LinkInv
  <1> QED
    BY <1>0, <1>1, <1>2 DEF Upkeep, Tick, vars

LEMMA HandlersGood ==
    ASSUME LinkInv, NEW t \in RpcThreads, Handler(t)
    PROVE  Good(t)
  <1>1. ASSUME NEW p \in Pairs, StoreRefresh(t, p) PROVE Good(t)
    BY <1>1, RefreshGood
  <1> QED
    BY <1>1, QuietGood, StampGood, CommitGood, MarkGood, ReplaceGood DEF Handler, QuietStep

LEMMA LinkNext ==
    ASSUME LinkInv, [ServiceNext]_allVars
    PROVE  LinkInv' /\ \A t \in RpcThreads : Told(t)
  <1>0. (TypeOK /\ ServiceTypeOK)'
    BY ServiceStep, TypeNext DEF LinkInv
  <1>1. ASSUME NEW t \in RpcThreads, Handler(t)
        PROVE  Linked' /\ \A u \in RpcThreads : Told(u)
    <2>1. Good(t)
      BY <1>1, HandlersGood
    <2>2. \A u \in RpcThreads \ {t} : rpc'[u] = rpc[u]
      BY <2>1, RpcThreadsAreThreads DEF Good, OthersKept
    <2> QED
      BY <2>1, <2>2 DEF Good, Told
  <1>2. CASE Upkeep
    BY <1>0, <1>2, UpkeepKeepsLinks DEF Told, LinkInv
  <1>3. CASE UNCHANGED allVars
    BY <1>0, <1>3 DEF allVars, serviceVars, vars, Linked, LinkInv, Told
  <1> QED
    BY <1>0, <1>1, <1>2, <1>3 DEF ServiceNext, LinkInv

LEMMA LinkInit == ServiceInit => LinkInv
  <1> SUFFICES ASSUME ServiceInit PROVE LinkInv
    OBVIOUS
  <1>1. \A t \in RpcThreads : calls[t].op = "idle"
    BY RpcThreadsAreThreads DEF ServiceInit, Init, Idle
  <1> QED
    BY <1>1, ServiceInitType, TypeInit DEF LinkInv, Linked

\* Whatever other handlers and the maintenance do between a handler's calls of
\* the store, its answer is true of the store at the moment it is given
\* (kadservice.cpp:224-264, 279-337, 399-449).
THEOREM AnswersAreTrue == ServiceSpec => AnswersTrue
  <1>1. LinkInv /\ [ServiceNext]_allVars => LinkInv'
    BY LinkNext
  <1>2. LinkInv /\ [ServiceNext]_allVars =>
          [\A t \in RpcThreads :
             rpc[t] # NoCall /\ rpc'[t] = NoCall =>
                LET p == rpc[t].pair
                IN  IF answer'.result = "Failure"
                    THEN datastore' = datastore \/ (rpc[t].op # "Store" /\ ~rpc[t].sender)
                    ELSE CASE rpc[t].op = "Store" -> datastore'[p].status = "NOT_DELETED"
                           [] rpc[t].op = "Delete" -> Tombstone(datastore'[p])
                           [] rpc[t].op = "Update" ->
                                 /\ datastore'[<<p[1], rpc[t].new>>].status = "NOT_DELETED"
                                 /\ p[2] # rpc[t].new => ~Present(datastore'[p])]_allVars
    BY LinkNext DEF Told, ToldRight
  <1> QED
    BY <1>1, <1>2, LinkInit, PTL DEF ServiceSpec, AnswersTrue


-----------------------------------------------------------------------------
(* One request at a time.                                                  *)

\* The server handles one request at a time; the maintenance goes on beside it.
OneHandler == \A t, u \in RpcThreads : t = u

\* What the check of a Store has found, and no maintenance undoes: no other
\* value is under the key if this one is hashable, and no hashable one if it is
\* not, but for those an Update has put there.
Fits(r) ==
    \A q \in Attr(r.pair[1]) \ {r.pair} :
       ~r.hashable /\ (datastore[q].hashable => q \in updated)

\* What a refresh has found: the value is missing, or its deletion has no request.
Missing(p) ==
    LET d == datastore[p] IN ~Present(d) \/ (Tombstone(d) /\ d.delReq = "none")

\* The inductive invariant.
AloneInv ==
    /\ LinkInv
    /\ HashedValueAlone
    /\ \A t \in RpcThreads :
          rpc[t].op = "Store" =>
             /\ rpc[t].at # "check" => Fits(rpc[t])
             /\ rpc[t].at = "check" \/ ~rpc[t].publish => Missing(rpc[t].pair)

\* The container holds no tuple it did not hold, and each is as hashable as it
\* was; what is missing stays missing.
Thinner ==
    \A q \in Pairs :
       /\ Present(datastore'[q]) =>
             Present(datastore[q]) /\ datastore'[q].hashable = datastore[q].hashable
       /\ Missing(q) => Missing(q)'

LEMMA ThinnerKeeps ==
    ASSUME HashedValueAlone, Thinner, updated' = updated
    PROVE  /\ HashedValueAlone'
           /\ \A r : Fits(r) => Fits(r)'
           /\ \A p \in Pairs : Missing(p) => Missing(p)'
  <1>1. \A k : Attr(k)' \subseteq Attr(k)
    BY DEF Attr, Thinner
  <1>2. HashedValueAlone'
    <2> SUFFICES ASSUME NEW p \in Pairs \ updated, Present(datastore'[p]),
                        datastore'[p].hashable
                 PROVE  Attr(p[1])' = {p}
      BY DEF HashedValueAlone
    <2>1. Attr(p[1]) = {p}
      BY DEF Thinner, HashedValueAlone
    <2>2. p \in Attr(p[1])'
      BY DEF Attr
    <2> QED
      BY <1>1, <2>1, <2>2
  <1>3. ASSUME NEW r, Fits(r) PROVE Fits(r)'
    <2>1. \A q \in Attr(r.pair[1])' : q \in Pairs /\ datastore'[q].hashable = datastore[q].hashable
      BY DEF Attr, Thinner
    <2> QED
      BY <1>1, <1>3, <2>1 DEF Fits
  <1> QED
    BY <1>2, <1>3 DEF Thinner

\* Of one pair only the time of the refresh or the status of a value that is
\* not missing changes, or pairs vanish.
LEMMA ThinnerByUpkeep ==
    ASSUME TypeOK,
           \/ datastore' = datastore
           \/ \E t \in Threads : Maintenance(t)
           \/ \E t \in Threads, p \in Pairs, req \in DelReqs : MarkForDeletion(t, p, req)
    PROVE  Thinner
  <1> USE DEF Present, Tombstone, Tombstones, Missing
  <1>0. datastore \in [Pairs -> Tuple]
    BY DEF TypeOK
  <1>1. CASE datastore' = datastore
    BY <1>1 DEF Thinner
  \* A tuple that is not missing, replaced by one as hashable.
  <1>a. ASSUME NEW p \in Pairs, NEW r, datastore' = [datastore EXCEPT ![p] = r],
               r.hashable = datastore[p].hashable, datastore[p].status # "ABSENT",
               Missing(p) => (r.status \in Tombstones /\ r.delReq = "none")
        PROVE  Thinner
    <2>1. datastore'[p] = r /\ \A q \in Pairs \ {p} : datastore'[q] = datastore[q]
      BY <1>0, <1>a
    <2>2. Missing(p) => Missing(p)'
      BY <1>a, <2>1
    <2>3. \A q \in Pairs \ {p} : Missing(q) => Missing(q)'
      BY <2>1
    <2> QED
      BY <1>a, <2>1, <2>2, <2>3 DEF Thinner
  <1>2. ASSUME NEW t \in Threads, NEW p \in Pairs, RefreshItem(t, p)
        PROVE  Thinner
    <2> DEFINE r == [datastore[p] EXCEPT !.refreshed = clock]
    <2>1. datastore' = [datastore EXCEPT ![p] = r] /\ datastore[p].status = "NOT_DELETED"
      BY <1>2 DEF RefreshItem, Put, Becomes
    <2>2. r.hashable = datastore[p].hashable
      BY <1>0 DEF Tuple
    <2>3. ~Missing(p)
      BY <2>1
    <2> HIDE DEF r
    <2> QED
      BY <1>a, <2>1, <2>2, <2>3
  <1>3. ASSUME NEW t \in Threads, NEW p \in Pairs, MarkAsDeleted(t, p)
        PROVE  Thinner
    <2> DEFINE r == [datastore[p] EXCEPT !.status = "DELETED"]
    <2>1. datastore' = [datastore EXCEPT ![p] = r] /\ datastore[p].status = "MARKED_FOR_DELETION"
      BY <1>3 DEF MarkAsDeleted, Put, Becomes
    <2>2. /\ r.hashable = datastore[p].hashable /\ r.status = "DELETED"
          /\ r.delReq = datastore[p].delReq
      BY <1>0 DEF Tuple
    <2>3. Missing(p) => datastore[p].delReq = "none"
      BY <2>1
    <2> HIDE DEF r
    <2> QED
      BY <1>a, <2>1, <2>2, <2>3
  <1>4. ASSUME NEW t \in Threads, DeleteExpiredValues(t)
        PROVE  Thinner
    <2>1. \A q \in Pairs : datastore'[q] = datastore[q] \/ datastore'[q] = Absent
      BY <1>4 DEF DeleteExpiredValues, Becomes, Erase
    <2>2. Absent.status = "ABSENT"
      BY DEF Absent
    <2> QED
      BY <2>1, <2>2 DEF Thinner
  <1>5. ASSUME NEW t \in Threads, NEW p \in Pairs, NEW req \in DelReqs,
               MarkForDeletion(t, p, req)
        PROVE  Thinner
    <2> DEFINE r == [datastore[p] EXCEPT !.status = "MARKED_FOR_DELETION", !.delReq = req]
    <2>1. datastore' = [datastore EXCEPT ![p] = r] /\ datastore[p].status = "NOT_DELETED"
      BY <1>5 DEF MarkForDeletion, Put, Becomes
    <2>2. r.hashable = datastore[p].hashable
      BY <1>0 DEF Tuple
    <2>3. ~Missing(p)
      BY <2>1
    <2> HIDE DEF r
    <2> QED
      BY <1>a, <2>1, <2>2, <2>3
  <1> QED
    BY <1>1, <1>2, <1>3, <1>4, <1>5 DEF Maintenance

\* The check of a Store establishes Fits.
LEMMA CheckFits ==
    ASSUME HashedValueAlone, NEW p \in Pairs, CanStore(p),
           NEW r, r.pair = p, r.hashable = HashableOf(p)
    PROVE  Fits(r)
  <1> SUFFICES ASSUME NEW q \in Attr(p[1]), q # p
               PROVE  ~HashableOf(p) /\ (datastore[q].hashable => q \in updated)
    BY DEF Fits
  <1>1. q \in Pairs /\ q[1] = p[1] /\ Present(datastore[q])
    BY DEF Attr
  <1>2. ~HashableOf(p)
    BY DEF HashableOf, CanStore
  <1>3. ASSUME datastore[q].hashable, q \notin updated PROVE FALSE
    <2>1. Attr(q[1]) = {q}
      BY <1>1, <1>3 DEF HashedValueAlone
    <2> QED
      BY <1>1, <1>3, <2>1 DEF CanStore
  <1> QED
    BY <1>2, <1>3

\* A request that goes on to the check or past it, or one that ends.
RequestInv(r) ==
    r.op = "Store" =>
       /\ r.at # "check" => Fits(r)
       /\ r.at = "check" \/ ~r.publish => Missing(r.pair)

LEMMA RequestKept ==
    ASSUME ServiceTypeOK, HashedValueAlone, Thinner, updated' = updated,
           NEW r \in Requests, RequestInv(r)
    PROVE  RequestInv(r)'
  <1>1. r.op = "Store" => r.pair \in Pairs
    BY DEF Requests
  <1> QED
    BY <1>1, ThinnerKeeps DEF RequestInv

\* With one handler, the invariant needs only the request of the thread that
\* moves.
LEMMA AloneStep ==
    ASSUME OneHandler, LinkInv', HashedValueAlone',
           NEW t \in RpcThreads, RequestInv(rpc[t])'
    PROVE  AloneInv'
  BY DEF OneHandler, AloneInv, RequestInv

LEMMA QuietAlone ==
    ASSUME OneHandler, AloneInv, LinkInv', NEW t \in RpcThreads, QuietStep(t)
    PROVE  AloneInv'
  <1>0. t \in Threads /\ rpc[t] \in Requests /\ RequestInv(rpc[t])
    BY RpcThreadsAreThreads DEF AloneInv, LinkInv, ServiceTypeOK, RequestInv
  <1>1. UNCHANGED vars /\ updated' = updated
    BY QuietSteps DEF AloneInv, LinkInv, QuietStep, NotJoined, BadRequest, Lookup, Downlist,
           Bootstrap, StoreDeleted, StorePublish, StoreMissing, StoreCheck, StoreNoTtl,
           DeleteLoad, UpdateLoad
  <1>2. HashedValueAlone'
    BY <1>1 DEF vars, AloneInv, HashedValueAlone, Attr
  \* The step leaves the store alone, so a request is as right after it as before.
  <1>3. ASSUME NEW r, rpc' = [rpc EXCEPT ![t] = r], RequestInv(r)
        PROVE  AloneInv'
    <2>1. RequestInv(r)'
      BY <1>1, <1>3 DEF vars, RequestInv, Fits, Missing, Attr
    <2>2. rpc'[t] = r
      BY <1>0, <1>3 DEF AloneInv, LinkInv, ServiceTypeOK
    <2>3. RequestInv(rpc[t])'
      BY <2>1, <2>2 DEF RequestInv, Fits, Missing, Attr
    <2> QED
      BY <1>2, <2>3, AloneStep
  <1>4. RequestInv(NoCall)
    BY DEF NoCall, RequestInv
  <1>5. ASSUME NEW p \in Pairs, NEW ttl, NEW publish, Checked(t, p, ttl, publish),
               ~publish => Missing(p)
        PROVE  AloneInv'
    <2> DEFINE r == [op |-> "Store", at |-> "stamp", pair |-> p, ttl |-> ttl,
                     publish |-> publish, hashable |-> HashableOf(p)]
    <2>1. CASE CanStore(p)
      <3>1. RequestInv(r)
        BY <1>5, <2>1, CheckFits DEF RequestInv, AloneInv
      <3>2. rpc' = [rpc EXCEPT ![t] = r]
        BY <1>5, <2>1 DEF Checked, GoOn
      <3> HIDE DEF r
      <3> QED
        BY <1>3, <3>1, <3>2
    <2>2. CASE ~CanStore(p)
      BY <1>3, <1>4, <1>5, <2>2 DEF Checked, Reply
    <2> QED
      BY <2>1, <2>2
  <1>6. ASSUME NEW p \in Pairs, NEW ttl, StorePublish(t, p, ttl) PROVE AloneInv'
    BY <1>5, <1>6 DEF StorePublish
  <1>7. CASE StoreCheck(t)
    <2>1. rpc[t].op = "Store" /\ rpc[t].pair \in Pairs
      BY <1>0, <1>7 DEF StoreCheck, Requests
    <2>2. Checked(t, rpc[t].pair, rpc[t].ttl, FALSE)
      BY <1>7 DEF StoreCheck
    <2>3. Missing(rpc[t].pair)
      BY <1>0, <1>7 DEF StoreCheck, RequestInv
    <2> QED
      BY <1>5, <2>1, <2>2, <2>3
  <1>8. ASSUME NEW p \in Pairs, NEW ttl, StoreMissing(t, p, ttl) PROVE AloneInv'
    <2> DEFINE r == [op |-> "Store", at |-> "check", pair |-> p, ttl |-> ttl,
                     publish |-> FALSE, hashable |-> FALSE]
    <2>1. RequestInv(r)
      BY <1>8 DEF RequestInv, StoreMissing, Missing
    <2>2. rpc' = [rpc EXCEPT ![t] = r]
      BY <1>8 DEF StoreMissing, GoOn
    <2> HIDE DEF r
    <2> QED
      BY <1>3, <2>1, <2>2
  <1>9. ASSUME NEW p, NEW req, NEW sender, DeleteLoad(t, p, req, sender) PROVE AloneInv'
    <2> DEFINE r == [op |-> "Delete", pair |-> p, req |-> req, sender |-> sender]
    <2>1. RequestInv(r)
      BY DEF RequestInv
    <2>2. rpc' = [rpc EXCEPT ![t] = NoCall] \/ rpc' = [rpc EXCEPT ![t] = r]
      BY <1>9 DEF DeleteLoad, GoOn, Reply
    <2> HIDE DEF r
    <2> QED
      BY <1>3, <1>4, <2>1, <2>2
  <1>10. ASSUME NEW p, NEW new, NEW ttl, NEW sender, UpdateLoad(t, p, new, ttl, sender)
         PROVE  AloneInv'
    <2> DEFINE r == [op |-> "Update", pair |-> p, new |-> new, ttl |-> ttl, sender |-> sender]
    <2>1. RequestInv(r)
      BY DEF RequestInv
    <2>2. rpc' = [rpc EXCEPT ![t] = NoCall] \/ rpc' = [rpc EXCEPT ![t] = r]
      BY <1>10 DEF UpdateLoad, GoOn, Reply
    <2> HIDE DEF r
    <2> QED
      BY <1>3, <1>4, <2>1, <2>2
  <1>11. \/ rpc' = [rpc EXCEPT ![t] = NoCall]
         \/ \E p \in Pairs, ttl \in Ttls : StorePublish(t, p, ttl) \/ StoreMissing(t, p, ttl)
         \/ StoreCheck(t)
         \/ \E p \in Pairs, req \in DelReqs, sender \in BOOLEAN : DeleteLoad(t, p, req, sender)
         \/ \E p \in Pairs, new \in Values, ttl \in Ttls, sender \in BOOLEAN :
               UpdateLoad(t, p, new, ttl, sender)
    BY DEF QuietStep, NotJoined, BadRequest, Lookup, Downlist, Bootstrap, StoreDeleted,
           StoreNoTtl, Reply
  <1> QED
    BY <1>3, <1>4, <1>6, <1>7, <1>8, <1>9, <1>10, <1>11

\* StoreItem puts its tuple where the check has found that it fits.
LEMMA CommitAlone ==
    ASSUME OneHandler, AloneInv, LinkInv', NEW t \in RpcThreads, StoreCommit(t)
    PROVE  AloneInv'
  <1> DEFINE p == rpc[t].pair
             r == calls[t].tuple
  <1>0. t \in Threads
    BY RpcThreadsAreThreads
  <1>1. /\ rpc[t].op = "Store" /\ rpc[t].at = "commit"
        /\ calls[t].op = "StoreItem"
        /\ rpc[t] \in Requests
    BY <1>0 DEF StoreCommit, StoreItemCommit, AloneInv, LinkInv, ServiceTypeOK
  <1>2. p \in Pairs /\ r.hashable = rpc[t].hashable /\ Fits(rpc[t])
    BY <1>1 DEF Requests, AloneInv, LinkInv, Linked
  <1>3. /\ \/ datastore' = datastore /\ updated' = updated
           \/ datastore' = [datastore EXCEPT ![p] = r] /\ updated' = updated \ {p}
        /\ rpc'[t] = NoCall
    BY CommitGood DEF AloneInv
  <1>4. RequestInv(rpc[t])'
    BY <1>3 DEF RequestInv, NoCall
  <1>5. CASE datastore' = datastore /\ updated' = updated
    BY <1>4, <1>5, AloneStep DEF AloneInv, HashedValueAlone, Attr
  <1>6. CASE datastore' = [datastore EXCEPT ![p] = r] /\ updated' = updated \ {p}
    <2>1. datastore'[p] = r /\ \A q \in Pairs \ {p} : datastore'[q] = datastore[q]
      BY <1>2, <1>6 DEF AloneInv, LinkInv, TypeOK
    <2>2. \A k : Attr(k)' \subseteq Attr(k) \cup {p}
      BY <2>1 DEF Attr
    <2>3. ASSUME NEW q \in Pairs \ updated', Present(datastore'[q]), datastore'[q].hashable
          PROVE  Attr(q[1])' = {q}
      <3>1. q \in Attr(q[1])'
        BY <2>3 DEF Attr
      <3>2. CASE q = p
        <4>1. rpc[t].hashable
          BY <1>2, <2>1, <2>3, <3>2
        <4>2. Attr(p[1]) \subseteq {p}
          BY <1>2, <4>1 DEF Fits
        <4> QED
          BY <2>2, <3>1, <3>2, <4>2
      <3>3. CASE q # p
        <4>1. q \notin updated /\ Present(datastore[q]) /\ datastore[q].hashable
          BY <1>6, <2>1, <2>3, <3>3
        <4>2. Attr(q[1]) = {q}
          BY <2>3, <4>1 DEF AloneInv, HashedValueAlone
        <4>3. p[1] # q[1]
          BY <1>2, <3>3, <4>1, <4>2 DEF Fits
        <4>4. p \notin Attr(q[1])'
          BY <4>3 DEF Attr
        <4> QED
          BY <2>2, <3>1, <4>2, <4>4
      <3> QED
        BY <3>2, <3>3
    <2>4. HashedValueAlone'
      BY <2>3 DEF HashedValueAlone, Attr
    <2> QED
      BY <1>4, <2>4, AloneStep
  <1> QED
    BY <1>3, <1>5, <1>6

\* UpdateItem finds the old value under the key, so that no hashable one but
\* that is alone there.
LEMMA ReplaceAlone ==
    ASSUME OneHandler, AloneInv, LinkInv', NEW t \in RpcThreads, UpdateReplace(t)
    PROVE  AloneInv'
  <1> DEFINE p == rpc[t].pair
             q == <<rpc[t].pair[1], rpc[t].new>>
  <1>0. t \in Threads
    BY RpcThreadsAreThreads
  <1>1. rpc'[t] = NoCall
    BY <1>0 DEF UpdateReplace, ReplyToSender, Reply, AloneInv, LinkInv, ServiceTypeOK
  <1>2. RequestInv(rpc[t])'
    BY <1>1 DEF RequestInv, NoCall
  <1>3. \/ datastore' = datastore /\ updated' = updated
        \/ /\ datastore[p].status = "NOT_DELETED"
           /\ \A x \in Pairs \ {p, q} : datastore'[x] = datastore[x]
           /\ p # q => ~Present(datastore'[p])
           /\ p \in Pairs /\ q \in Pairs
           /\ updated' = (updated \ {p}) \cup {q}
    BY ReplaceGood DEF AloneInv
  <1>4. CASE datastore' = datastore /\ updated' = updated
    BY <1>2, <1>4, AloneStep DEF AloneInv, HashedValueAlone, Attr
  <1>5. CASE /\ datastore[p].status = "NOT_DELETED"
             /\ \A x \in Pairs \ {p, q} : datastore'[x] = datastore[x]
             /\ p # q => ~Present(datastore'[p])
             /\ p \in Pairs /\ q \in Pairs
             /\ updated' = (updated \ {p}) \cup {q}
    <2>1. ASSUME NEW x \in Pairs \ updated', Present(datastore'[x]), datastore'[x].hashable
          PROVE  Attr(x[1])' = {x}
      <3>1. x # p /\ x # q
        BY <1>5, <2>1
      <3>2. x \notin updated /\ datastore'[x] = datastore[x]
        BY <1>5, <2>1, <3>1
      <3>3. Attr(x[1]) = {x}
        BY <2>1, <3>2 DEF AloneInv, HashedValueAlone
      <3>4. p[1] # x[1]
        <4>1. Present(datastore[p])
          BY <1>5 DEF Present
        <4> QED
          BY <1>5, <3>1, <3>3, <4>1 DEF Attr
      <3>5. q[1] # x[1]
        BY <3>4
      <3>6. \A y \in Attr(x[1])' : y = x
        <4> TAKE y \in Attr(x[1])'
        <4>1. y \in Pairs /\ y[1] = x[1] /\ Present(datastore'[y])
          BY DEF Attr
        <4>2. y # p /\ y # q
          BY <3>4, <3>5, <4>1
        <4>3. datastore'[y] = datastore[y]
          BY <1>5, <4>1, <4>2
        <4>4. y \in Attr(x[1])
          BY <4>1, <4>3 DEF Attr
        <4> QED
          BY <3>3, <4>4
      <3>7. x \in Attr(x[1])'
        BY <2>1 DEF Attr
      <3> QED
        BY <3>6, <3>7
    <2>2. HashedValueAlone'
      BY <2>1 DEF HashedValueAlone, Attr
    <2> QED
      BY <1>2, <2>2, AloneStep
  <1> QED
    BY <1>3, <1>4, <1>5


LEMMA AloneNext ==
    ASSUME OneHandler, AloneInv, [ServiceNext]_allVars
    PROVE  AloneInv'
  <1>0. /\ LinkInv' /\ TypeOK /\ ServiceTypeOK
        /\ RpcThreads \subseteq Threads
        /\ \A t \in RpcThreads : rpc[t] \in Requests /\ RequestInv(rpc[t])
    BY LinkNext, RpcThreadsAreThreads DEF AloneInv, LinkInv, ServiceTypeOK, RequestInv
  \* A step that thins the container.
  <1>a. ASSUME NEW t \in RpcThreads, Thinner, updated' = updated,
               NEW r \in Requests, RequestInv(r), rpc'[t] = r
        PROVE  AloneInv'
    <2>1. RequestInv(r)'
      BY <1>0, <1>a, RequestKept DEF AloneInv
    <2>2. RequestInv(rpc[t])'
      BY <1>a, <2>1 DEF RequestInv, Fits, Missing, Attr
    <2> QED
      BY <1>0, <1>a, <2>2, ThinnerKeeps, AloneStep DEF AloneInv
  <1>b. NoCall \in Requests /\ RequestInv(NoCall)
    BY DEF NoCall, Requests, RequestInv
  <1>1. ASSUME NEW t \in RpcThreads, Handler(t)
        PROVE  AloneInv'
    <2>0. t \in Threads
      BY <1>0
    <2>1. ASSUME QuietStep(t) PROVE AloneInv'
      BY <1>0, <2>1, QuietAlone
    <2>2. ASSUME NEW p \in Pairs, StoreRefresh(t, p) PROVE AloneInv'
      <3>1. Thinner
        BY <1>0, <2>0, <2>2, ThinnerByUpkeep DEF StoreRefresh, Maintenance
      <3>2. updated' = updated /\ rpc'[t] = NoCall
        BY <1>0, <2>0, <2>2 DEF StoreRefresh, Reply, ServiceTypeOK
      <3> QED
        BY <1>a, <1>b, <3>1, <3>2
    <2>3. ASSUME StoreStamp(t) PROVE AloneInv'
      <3> DEFINE r == [rpc[t] EXCEPT !.at = "commit"]
      <3>1. /\ datastore' = datastore /\ updated' = updated
            /\ rpc' = [rpc EXCEPT ![t] = r] /\ rpc[t].op = "Store" /\ rpc[t].at = "stamp"
        BY <2>3 DEF StoreStamp, StoreItemStamp, GoOn
      <3>2. /\ r.pair = rpc[t].pair /\ r.hashable = rpc[t].hashable
            /\ r.publish = rpc[t].publish /\ r.op = "Store" /\ r.at = "commit"
        BY <1>0, <3>1 DEF Requests
      <3> HIDE DEF r
      <3>3. rpc'[t] = r
        BY <1>0, <2>0, <3>1 DEF ServiceTypeOK
      <3>4. RequestInv(rpc[t])'
        BY <1>0, <3>1, <3>2, <3>3 DEF RequestInv, Fits, Missing, Attr
      <3>5. HashedValueAlone'
        BY <3>1 DEF AloneInv, HashedValueAlone, Attr
      <3> QED
        BY <1>0, <3>4, <3>5, AloneStep
    <2>4. ASSUME StoreCommit(t) PROVE AloneInv'
      BY <1>0, <2>4, CommitAlone
    <2>5. ASSUME DeleteMark(t) PROVE AloneInv'
      <3>1. \/ UNCHANGED vars
            \/ MarkForDeletion(t, rpc[t].pair, rpc[t].req)
        BY <2>5 DEF DeleteMark
      <3>2. rpc[t].pair \in Pairs /\ rpc[t].req \in DelReqs
        BY <1>0, <2>5 DEF DeleteMark, Requests
      <3>3. Thinner
        BY <1>0, <2>0, <3>1, <3>2, ThinnerByUpkeep DEF vars
      <3>4. updated' = updated /\ rpc'[t] = NoCall
        BY <1>0, <2>0, <2>5 DEF DeleteMark, ReplyToSender, Reply, ServiceTypeOK
      <3> QED
        BY <1>a, <1>b, <3>3, <3>4
    <2>6. ASSUME UpdateReplace(t) PROVE AloneInv'
      BY <1>0, <2>6, ReplaceAlone
    <2> QED
      BY <1>1, <2>1, <2>2, <2>3, <2>4, <2>5, <2>6 DEF Handler, QuietStep
  <1>2. ASSUME Upkeep \/ UNCHANGED allVars
        PROVE  AloneInv'
    <2>1. Thinner
      <3>1. \/ datastore' = datastore
            \/ \E t \in Threads : Maintenance(t)
        BY <1>2 DEF Upkeep, Tick, vars, allVars
      <3> QED
        BY <1>0, <3>1, ThinnerByUpkeep
    <2>2. updated' = updated /\ rpc' = rpc
      BY <1>2 DEF Upkeep, allVars, serviceVars
    <2>3. CASE RpcThreads = {}
      BY <1>0, <2>1, <2>2, <2>3, ThinnerKeeps DEF AloneInv
    <2>4. ASSUME NEW t \in RpcThreads
          PROVE  AloneInv'
      BY <1>0, <1>a, <2>1, <2>2
    <2> QED
      BY <2>3, <2>4
  <1> QED
    BY <1>1, <1>2 DEF ServiceNext

LEMMA AloneInit == ServiceInit => AloneInv
  <1> SUFFICES ASSUME ServiceInit PROVE AloneInv
    OBVIOUS
  <1>1. \A p \in Pairs : ~Present(datastore[p])
    BY DEF ServiceInit, Init, Absent, Present
  <1>2. \A t \in RpcThreads : rpc[t].op = "none"
    BY RpcThreadsAreThreads DEF ServiceInit, NoCall
  <1> QED
    BY <1>1, <1>2, LinkInit DEF AloneInv, HashedValueAlone

\* As long as one request is handled at a time, a value stored because it
\* hashes to its key is alone under that key, for any number of keys and values
\* and whatever the maintenance does meanwhile (kadservice.cpp:399-469).
THEOREM HashedValueIsAlone == OneHandler => (ServiceSpec => []HashedValueAlone)
  <1> SUFFICES ASSUME OneHandler PROVE ServiceSpec => []HashedValueAlone
    OBVIOUS
  <1>1. AloneInv /\ [ServiceNext]_allVars => AloneInv'
    BY AloneNext
  <1>2. AloneInv => HashedValueAlone
    BY DEF AloneInv
  <1> QED
    BY <1>1, <1>2, AloneInit, PTL DEF ServiceSpec

-----------------------------------------------------------------------------
(* Deletions.                                                              *)

\* A value that comes back over a deletion with a request was published.
Published(p) ==
    /\ Tombstone(datastore[p]) /\ datastore[p].delReq # "none"
    /\ datastore'[p].status = "NOT_DELETED"
    => \E t \in RpcThreads : /\ rpc[t].op = "Store" /\ rpc[t].pair = p
                             /\ rpc[t].publish /\ rpc'[t] = NoCall

LEMMA PublishedNext ==
    ASSUME AloneInv, [ServiceNext]_allVars, NEW p \in Pairs
    PROVE  Published(p)
  <1> USE DEF Tombstone, Tombstones, Present
  <1>0. /\ TypeOK /\ ServiceTypeOK /\ RpcThreads \subseteq Threads
        /\ datastore \in [Pairs -> Tuple]
    BY RpcThreadsAreThreads DEF AloneInv, LinkInv, TypeOK
  \* A pair that is not made a live value.
  <1>a. ASSUME \/ datastore'[p] = datastore[p]
               \/ datastore'[p].status # "NOT_DELETED"
               \/ datastore[p].status \in {"NOT_DELETED", "ABSENT"}
        PROVE  Published(p)
    BY <1>a DEF Published
  <1>b. ASSUME NEW q \in Pairs, NEW r, datastore' = [datastore EXCEPT ![q] = r],
               \/ r.status # "NOT_DELETED"
               \/ datastore[q].status = "NOT_DELETED"
        PROVE  Published(p)
    BY <1>0, <1>a, <1>b
  <1>1. ASSUME NEW t \in Threads, NEW q \in Pairs, RefreshItem(t, q)
        PROVE  Published(p)
    BY <1>1, <1>b DEF RefreshItem, Put, Becomes
  <1>2. ASSUME NEW t \in Threads, NEW q \in Pairs, MarkAsDeleted(t, q)
        PROVE  Published(p)
    <2>1. /\ datastore' = [datastore EXCEPT ![q] = [datastore[q] EXCEPT !.status = "DELETED"]]
          /\ [datastore[q] EXCEPT !.status = "DELETED"].status = "DELETED"
      BY <1>0, <1>2 DEF MarkAsDeleted, Put, Becomes, Tuple
    <2> QED
      BY <1>b, <2>1
  <1>3. ASSUME NEW t \in Threads, DeleteExpiredValues(t)
        PROVE  Published(p)
    <2>1. datastore'[p] = datastore[p] \/ datastore'[p] = Absent
      BY <1>3 DEF DeleteExpiredValues, Becomes, Erase
    <2> QED
      BY <1>a, <2>1 DEF Absent
  <1>4. ASSUME NEW t \in RpcThreads, StoreCommit(t)
        PROVE  Published(p)
    <2> DEFINE q == rpc[t].pair
    <2>1. /\ rpc[t].op = "Store" /\ rpc[t] \in Requests
          /\ rpc'[t] = NoCall
          /\ \/ datastore' = datastore
             \/ datastore' = [datastore EXCEPT ![q] = calls[t].tuple]
      BY <1>0, <1>4, CommitGood DEF StoreCommit, ServiceTypeOK, AloneInv
    <2>2. q \in Pairs /\ rpc[t].publish \in BOOLEAN
      BY <2>1 DEF Requests
    <2>3. CASE p # q \/ datastore' = datastore
      BY <1>0, <1>a, <2>1, <2>2, <2>3
    <2>4. CASE p = q /\ rpc[t].publish
      BY <2>1, <2>4 DEF Published
    <2>5. CASE p = q /\ ~rpc[t].publish
      BY <2>1, <2>5 DEF Published, AloneInv, Missing
    <2> QED
      BY <2>2, <2>3, <2>4, <2>5
  <1>5. ASSUME NEW t \in RpcThreads, DeleteMark(t)
        PROVE  Published(p)
    <2>1. rpc[t].pair \in Pairs
      BY <1>0, <1>5 DEF DeleteMark, ServiceTypeOK, Requests
    <2>2. CASE UNCHANGED vars
      BY <1>a, <2>2 DEF vars
    <2>3. CASE MarkForDeletion(t, rpc[t].pair, rpc[t].req)
      BY <1>b, <2>1, <2>3 DEF MarkForDeletion, Put, Becomes
    <2> QED
      BY <1>5, <2>2, <2>3 DEF DeleteMark
  <1>6. ASSUME NEW t \in RpcThreads, UpdateReplace(t)
        PROVE  Published(p)
    <2> DEFINE o == rpc[t].pair
               q == <<rpc[t].pair[1], rpc[t].new>>
    <2>1. \/ datastore' = datastore
          \/ /\ datastore[o].status = "NOT_DELETED"
             /\ o = q \/ ~Present(datastore[q])
             /\ \A x \in Pairs \ {o, q} : datastore'[x] = datastore[x]
      BY <1>6, ReplaceGood DEF AloneInv
    <2>2. CASE p = o \/ p = q
      BY <1>a, <2>1, <2>2
    <2>3. CASE p # o /\ p # q
      BY <1>a, <2>1, <2>3
    <2> QED
      BY <2>2, <2>3
  <1>7. ASSUME UNCHANGED vars \/ datastore' = datastore
        PROVE  Published(p)
    BY <1>7, <1>a DEF vars
  <1>8. ASSUME NEW t \in RpcThreads, Handler(t)
        PROVE  Published(p)
    <2>1. ASSUME QuietStep(t) PROVE Published(p)
      BY <1>0, <1>7, <2>1, QuietSteps
    <2>2. ASSUME NEW q \in Pairs, StoreRefresh(t, q) PROVE Published(p)
      BY <1>0, <1>1, <2>2 DEF StoreRefresh
    <2>3. ASSUME StoreStamp(t) PROVE Published(p)
      BY <1>7, <2>3 DEF StoreStamp, StoreItemStamp
    <2> QED
      BY <1>4, <1>5, <1>6, <1>8, <2>1, <2>2, <2>3 DEF Handler, QuietStep
  <1>9. ASSUME Upkeep \/ UNCHANGED allVars
        PROVE  Published(p)
    BY <1>1, <1>2, <1>3, <1>7, <1>9 DEF Upkeep, Maintenance, Tick, allVars
  <1> QED
    BY <1>8, <1>9 DEF ServiceNext

\* With one request at a time, nothing brings a deleted value back under a lease
\* no longer than the deleted one, and nothing but a publication past a deletion
\* that carries a request (kadservice.cpp:279, 318, 425-430).
THEOREM NoRevivalHolds == ClockFits /\ OneHandler => (ServiceSpec => NoRevival)
  <1> SUFFICES ASSUME ClockFits, OneHandler PROVE ServiceSpec => NoRevival
    OBVIOUS
  <1>1. AloneInv /\ [ServiceNext]_allVars => AloneInv'
    BY AloneNext
  <1>2. AloneInv /\ [ServiceNext]_allVars =>
          [\A p \in Pairs :
             /\ Tombstone(datastore[p]) /\ datastore[p].delReq # "none"
             /\ datastore'[p].status = "NOT_DELETED"
             => \E t \in RpcThreads : /\ rpc[t].op = "Store" /\ rpc[t].pair = p
                                      /\ rpc[t].publish /\ rpc'[t] = NoCall]_allVars
    BY PublishedNext DEF Published
  <1>3. ServiceSpec => NoReplay
    BY ServiceNoReplay
  <1> QED
    BY <1>1, <1>2, <1>3, AloneInit, PTL DEF ServiceSpec, NoRevival, DeletionStands
=============================================================================
