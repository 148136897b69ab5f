----------------------------- MODULE DataStore -----------------------------
(***************************************************************************)
(* The value store of a Kademlia node: class kad::DataStore                *)
(* (src/src/kademlia/datastore.cpp and .h).                                *)
(*                                                                         *)
(* A boost::multi_index container of tuples, unique in (key, value), is    *)
(* shared by the threads that call the store.  A call holds mutex_ while   *)
(* it works on the container, and is one step here, with two exceptions    *)
(* in the code: StoreItem reads the clock and builds its tuple before it   *)
(* locks, and DeleteItem looks its tuple up before it locks.  Each of the  *)
(* two is a pair of steps, between which other threads run.                *)
(*                                                                         *)
(* A key or a value that is the empty string is refused by StoreItem and   *)
(* is no member of Keys or Values.                                         *)
(***************************************************************************)
EXTENDS Integers

CONSTANTS
    Threads,      \* the threads that call the store
    Removers,     \* those of them that call an operation that erases tuples
    Keys,         \* key_
    Values,       \* value_
    Ttls,         \* the time_to_live arguments (int32_t, may be negative)
    Hashables,    \* the hashable arguments
    DelReqs,      \* the ser_del_request arguments; "none" is the empty string
    RefreshAge,   \* t_refresh_
    Half,         \* 2^31: the times are uint32_t, their differences int32_t
    StartClock,   \* the time at which the node starts
    MaxClock      \* bound on the clock

Modulus == 2 * Half

ASSUME StoreAssumption ==
    /\ Removers \subseteq Threads
    /\ Half \in Nat \ {0}
    /\ Ttls \subseteq -Half .. Half - 1
    /\ Hashables \subseteq BOOLEAN
    /\ "none" \in DelReqs
    /\ RefreshAge \in 0 .. Modulus - 1
    /\ StartClock \in Nat \ {0} /\ MaxClock \in StartClock .. Modulus - 1

\* Ttls of a small instance: a lease for ever, and one that runs out within few seconds.
ShortTtls == {-1, 2}

VARIABLES
    clock,        \* time(NULL), in seconds
    datastore,    \* the container: what it holds for each (key, value)
    calls,        \* per thread: the call it is in the middle of
    corrupt,      \* an iterator to an erased tuple has been used
    revoked       \* history: where the lease ended that was last deleted

vars == <<clock, datastore, calls, corrupt, revoked>>

Pairs == Keys \X Values
Times == 0 .. Modulus - 1

-----------------------------------------------------------------------------
(* Times and tuples.                                                       *)

\* Faulty: a sum that does not wrap.
U32NoWrap(x) == x

\* A sum of a uint32_t and an int32_t, as a uint32_t.
U32(x) == IF x < 0 THEN x + Modulus ELSE IF x >= Modulus THEN x - Modulus ELSE x

\* Faulty: the difference taken as unsigned.
RemainingUnsigned(expire, now) == U32(expire - now)

\* int32_t ttl_remaining = expire_time_ - now
Remaining(expire, now) ==
    LET d == U32(expire - now) IN IF d < Half THEN d ELSE d - Modulus

Tombstones == {"MARKED_FOR_DELETION", "DELETED"}

Tuple == [status    : {"ABSENT", "NOT_DELETED"} \cup Tombstones,
          refreshed : Times, expire : Times, ttl : Ttls \cup {0},
          hashable  : BOOLEAN, delReq : DelReqs]

Absent == [status |-> "ABSENT", refreshed |-> 0, expire |-> 0, ttl |-> 0,
           hashable |-> FALSE, delReq |-> "none"]

\* The six-argument constructor of key_value_tuple, as StoreItem calls it.
NewTuple(stamp, ttl, hashable) ==
    [status |-> "NOT_DELETED", refreshed |-> stamp,
     expire |-> IF ttl < 0 THEN 0 ELSE U32(stamp + ttl),
     ttl |-> ttl, hashable |-> hashable, delReq |-> "none"]

Present(r) == r.status # "ABSENT"
Tombstone(r) == r.status \in Tombstones

\* The values LoadItem returns for a key are those whose tuple passes this.
Loadable(r, now) ==
    /\ r.status = "NOT_DELETED"
    /\ Remaining(r.expire, now) > 0 \/ r.ttl = -1

LoadItem(key) == {v \in Values : Loadable(datastore[<<key, v>>], clock)}

\* ValuesToRefresh lists what was not refreshed for t_refresh_ seconds and is
\* loadable, and every tombstone of that age.
ValuesToRefresh ==
    {p \in Pairs : /\ Present(datastore[p])
                   /\ datastore[p].refreshed <= U32(clock - RefreshAge)
                   /\ Loadable(datastore[p], clock) \/ Tombstone(datastore[p])}

\* Faulty: the whole time to live, not what is left of it.
RefreshTtlWhole(r) == r.ttl

\* The time to live ValuesToRefresh hands on with a live value.
RefreshTtl(r) == IF r.ttl = -1 THEN -1 ELSE Remaining(r.expire, clock)

-----------------------------------------------------------------------------
(* Iterators and history.                                                  *)

Idle == [op |-> "idle"]
Calls == [op : {"idle"}]
         \cup [op : {"StoreItem"}, pair : Pairs,
               tuple : {r \in Tuple : r.status = "NOT_DELETED"}]
         \cup [op : {"DeleteItem"}, pair : Pairs, at : {"node", "end", "dangling"}]

IsIdle(t) == calls[t].op = "idle" /\ ~corrupt

\* The calls once thread t has changed the container, erasing the tuples
\* `erased` and giving the tuple of each p the key renamed[p].  The container
\* keeps the nodes it does not erase, so an iterator DeleteItem holds follows
\* a replaced tuple and dangles after an erased one.  A lookup that overlapped
\* the change raced with it and may have missed its tuple.
Return(t, erased, renamed) ==
    LET Finding == {u \in Threads \ {t} : calls[u].op = "DeleteItem"}
        Seen(c) == IF c.at # "node" THEN c
                   ELSE IF c.pair \in erased THEN [c EXCEPT !.at = "dangling"]
                   ELSE [c EXCEPT !.pair = renamed[c.pair]]
    IN  \E raced \in SUBSET Finding :
           calls' = [u \in Threads |->
                        IF u = t THEN Idle
                        ELSE IF u \in raced THEN [calls[u] EXCEPT !.at = "end"]
                        ELSE IF u \in Finding THEN Seen(calls[u])
                        ELSE calls[u]]

InPlace == [p \in Pairs |-> p]

\* A tombstone stands until its expire_time_; that of a value stored with
\* ttl -1 stands for ever.
NoLease == -1
Forever == Modulus
LeaseEnd(r) == IF r.ttl = -1 /\ r.expire = 0 THEN Forever ELSE r.expire

\* The container becomes ds.  revoked[p] is where the lease ended that the last
\* tombstone of p deleted, until p is loadable again or its tombstone is
\* removed by an operation that names it (forgiven).
Becomes(ds, forgiven) ==
    /\ datastore' = ds
    /\ revoked' = [p \in Pairs |->
                     IF p \in forgiven THEN NoLease
                     ELSE IF Tombstone(ds[p]) THEN LeaseEnd(ds[p])
                     ELSE IF Loadable(ds[p], clock) THEN NoLease
                     ELSE revoked[p]]

Put(p, r) == Becomes([datastore EXCEPT ![p] = r], {})
Erase(S) == [p \in Pairs |-> IF p \in S THEN Absent ELSE datastore[p]]

-----------------------------------------------------------------------------
(* The operations.                                                         *)

\* StoreItem up to its lock: the time stamp and the tuple are made here.
StoreItemStamp(t, p, ttl, hashable) ==
    /\ IsIdle(t)
    /\ ttl # 0
    /\ calls' = [calls EXCEPT ![t] =
                   [op |-> "StoreItem", pair |-> p,
                    tuple |-> NewTuple(clock, ttl, hashable)]]
    /\ UNCHANGED <<clock, datastore, corrupt, revoked>>

\* Faulty: an equally long lease supersedes a tombstone.
MayReplaceEqual(old, new) ==
    \/ old.status = "NOT_DELETED"
    \/ new.ttl = -1
    \/ old.expire <= new.expire /\ old.ttl # -1

\* What the tuple already there must be for StoreItem to replace it.
MayReplace(old, new) ==
    \/ old.status = "NOT_DELETED"
    \/ new.ttl = -1
    \/ old.expire < new.expire /\ old.ttl # -1

\* StoreItem under its lock.
StoreItemCommit(t) ==
    LET p == calls[t].pair
        r == calls[t].tuple
    IN  /\ calls[t].op = "StoreItem" /\ ~corrupt
        /\ IF Present(datastore[p]) => MayReplace(datastore[p], r)
           THEN Put(p, r) /\ Return(t, {}, InPlace)
           ELSE /\ calls' = [calls EXCEPT ![t] = Idle]
                /\ UNCHANGED <<datastore, revoked>>
        /\ UNCHANGED <<clock, corrupt>>

\* DeleteItem before its lock: datastore_.find.
DeleteItemFind(t, p) ==
    /\ IsIdle(t)
    /\ t \in Removers
    /\ calls' = [calls EXCEPT ![t] =
                   [op |-> "DeleteItem", pair |-> p,
                    at |-> IF Present(datastore[p]) THEN "node" ELSE "end"]]
    /\ UNCHANGED <<clock, datastore, corrupt, revoked>>

\* DeleteItem under its lock: erase(it), which is undefined when the tuple has
\* been erased meanwhile.
DeleteItemErase(t) ==
    LET c == calls[t]
    IN  /\ c.op = "DeleteItem" /\ ~corrupt
        /\ CASE c.at = "end" ->
                  /\ calls' = [calls EXCEPT ![t] = Idle]
                  /\ UNCHANGED <<datastore, corrupt, revoked>>
             [] c.at = "node" ->
                  /\ Becomes(Erase({c.pair}), {c.pair})
                  /\ Return(t, {c.pair}, InPlace)
                  /\ UNCHANGED corrupt
             [] c.at = "dangling" ->
                  /\ corrupt' = TRUE
                  /\ calls' = [calls EXCEPT ![t] = Idle]
                  /\ UNCHANGED <<datastore, revoked>>
        /\ UNCHANGED clock

DeleteKey(t, k) ==
    LET S == {p \in Pairs : p[1] = k /\ Present(datastore[p])}
    IN  /\ IsIdle(t) /\ t \in Removers
        /\ S # {}
        /\ Becomes(Erase(S), S)
        /\ Return(t, S, InPlace)
        /\ UNCHANGED <<clock, corrupt>>

\* The tuples between upper_bound(0) and lower_bound(now) of the expiry index.
Lapsed == {p \in Pairs : /\ Present(datastore[p])
                         /\ 0 < datastore[p].expire
                         /\ datastore[p].expire < clock}

DeleteExpiredValues(t) ==
    /\ IsIdle(t) /\ t \in Removers
    /\ Lapsed # {}
    /\ Becomes(Erase(Lapsed), {})
    /\ Return(t, Lapsed, InPlace)
    /\ UNCHANGED <<clock, corrupt>>

Clear(t) ==
    /\ IsIdle(t) /\ t \in Removers
    /\ Becomes([p \in Pairs |-> Absent], Pairs)
    /\ Return(t, Pairs, InPlace)
    /\ UNCHANGED <<clock, corrupt>>

\* Faulty: the tuple is erased and inserted again instead of replaced.
RefreshItemByErase(t, p) ==
    /\ IsIdle(t)
    /\ datastore[p].status = "NOT_DELETED"
    /\ Put(p, [datastore[p] EXCEPT !.refreshed = clock])
    /\ Return(t, {p}, InPlace)
    /\ UNCHANGED <<clock, corrupt>>

\* Faulty: expire_time_ is left as the three-argument constructor sets it.
RefreshItemNoLease(t, p) ==
    /\ IsIdle(t)
    /\ datastore[p].status = "NOT_DELETED"
    /\ Put(p, [datastore[p] EXCEPT !.refreshed = clock, !.expire = 0])
    /\ Return(t, {}, InPlace)
    /\ UNCHANGED <<clock, corrupt>>

\* RefreshItem: the lease stays, only the time of the last refresh moves.
RefreshItem(t, p) ==
    /\ IsIdle(t)
    /\ datastore[p].status = "NOT_DELETED"
    /\ Put(p, [datastore[p] EXCEPT !.refreshed = clock])
    /\ Return(t, {}, InPlace)
    /\ UNCHANGED <<clock, corrupt>>

\* Faulty: a tombstone is marked again.
MarkForDeletionAgain(t, p, req) ==
    /\ IsIdle(t)
    /\ Present(datastore[p])
    /\ Put(p, [datastore[p] EXCEPT !.status = "MARKED_FOR_DELETION",
                                   !.delReq = req])
    /\ Return(t, {}, InPlace)
    /\ UNCHANGED <<clock, corrupt>>

MarkForDeletion(t, p, req) ==
    /\ IsIdle(t)
    /\ datastore[p].status = "NOT_DELETED"
    /\ Put(p, [datastore[p] EXCEPT !.status = "MARKED_FOR_DELETION",
                                   !.delReq = req])
    /\ Return(t, {}, InPlace)
    /\ UNCHANGED <<clock, corrupt>>

MarkAsDeleted(t, p) ==
    /\ IsIdle(t)
    /\ datastore[p].status = "MARKED_FOR_DELETION"
    /\ Put(p, [datastore[p] EXCEPT !.status = "DELETED"])
    /\ Return(t, {}, InPlace)
    /\ UNCHANGED <<clock, corrupt>>

\* UpdateItem: replace() refuses a tuple whose key another tuple has.
UpdateItem(t, k, old, new, ttl, hashable) ==
    /\ IsIdle(t)
    /\ datastore[<<k, old>>].status = "NOT_DELETED"
    /\ old = new \/ ~Present(datastore[<<k, new>>])
    /\ Becomes([datastore EXCEPT
                  ![<<k, old>>] = Absent,
                  ![<<k, new>>] = [NewTuple(clock, ttl, hashable) EXCEPT
                                     !.expire = U32(clock + ttl)]], {})
    /\ Return(t, {}, [InPlace EXCEPT ![<<k, old>>] = <<k, new>>])
    /\ UNCHANGED <<clock, corrupt>>

Tick ==
    /\ clock < MaxClock
    /\ clock' = clock + 1
    /\ UNCHANGED <<datastore, calls, corrupt, revoked>>

-----------------------------------------------------------------------------
Init ==
    /\ clock = StartClock
    /\ datastore = [p \in Pairs |-> Absent]
    /\ calls = [t \in Threads |-> Idle]
    /\ corrupt = FALSE
    /\ revoked = [p \in Pairs |-> NoLease]

\* The calls that a client of the store makes to change what it holds.
ClientCall(t) ==
    \/ \E p \in Pairs, ttl \in Ttls, h \in Hashables : StoreItemStamp(t, p, ttl, h)
    \/ StoreItemCommit(t)
    \/ \E p \in Pairs : DeleteItemFind(t, p)
    \/ DeleteItemErase(t)
    \/ \E k \in Keys : DeleteKey(t, k)
    \/ Clear(t)
    \/ \E p \in Pairs, req \in DelReqs : MarkForDeletion(t, p, req)
    \/ \E k \in Keys, old, new \in Values, ttl \in Ttls, h \in Hashables :
          UpdateItem(t, k, old, new, ttl, h)

\* The calls that only keep the store in order.
Maintenance(t) ==
    \/ \E p \in Pairs : RefreshItem(t, p)
    \/ \E p \in Pairs : MarkAsDeleted(t, p)
    \/ DeleteExpiredValues(t)

Next ==
    \/ \E t \in Threads : ClientCall(t) \/ Maintenance(t)
    \/ Tick

Spec == Init /\ [][Next]_vars

-----------------------------------------------------------------------------
(* Properties.                                                             *)

\* Every variable stays in its type.
TypeOK ==
    /\ clock \in StartClock .. MaxClock
    /\ datastore \in [Pairs -> Tuple]
    /\ calls \in [Threads -> Calls]
    /\ corrupt \in BOOLEAN
    /\ revoked \in [Pairs -> -1 .. Modulus]

\* DeleteItem finds its tuple before it locks (datastore.cpp:87-91).  As long as
\* one thread does all the erasing, its iterator designates a tuple of the
\* container when it erases, whatever other threads have stored, refreshed,
\* marked or renamed since the lookup.
DeleteItemSafe ==
    /\ ~corrupt
    /\ \A t \in Threads :
          calls[t].op = "DeleteItem" =>
              /\ calls[t].at # "dangling"
              /\ calls[t].at = "node" => Present(datastore[calls[t].pair])

\* LoadItem returns a value only while a lease runs that somebody gave it: for
\* ever, or to a time ahead that is no farther than the longest time to live.
LeaseRuns ==
    \A p \in Pairs :
        LET r == datastore[p]
        IN  Loadable(r, clock) /\ r.ttl # -1
                => r.ttl > 0 /\ clock < r.expire /\ r.expire <= clock + r.ttl

\* What ValuesToRefresh hands to another node for republication ends there
\* when it ends here: a refresh cycle prolongs no lease.
RepublishKeepsLease ==
    \A p \in ValuesToRefresh :
        LET r == datastore[p]
        IN  r.status = "NOT_DELETED" /\ r.ttl # -1
                => RefreshTtl(r) > 0 /\ NewTuple(clock, RefreshTtl(r), r.hashable).expire = r.expire

\* A value that was marked for deletion is not loadable again under a lease
\* that ends no later than the one deleted: neither by replaying an older
\* publication over the tombstone, nor with a time stamp taken before the
\* tombstone was purged, nor by an update.  (Only ttl -1 gets past.)
NoReplay ==
    [][\A p \in Pairs :
          revoked[p] # NoLease /\ Loadable(datastore'[p], clock')
              => \/ datastore'[p].ttl = -1
                 \/ datastore'[p].expire > revoked[p]]_vars

\* While a tombstone stands its delete request is the first one that was made,
\* and a finished deletion is not reopened (datastore.cpp:220-222, 238).
FirstDeleteWins ==
    [][\A p \in Pairs :
          Tombstone(datastore[p]) /\ Tombstone(datastore'[p])
              => /\ datastore'[p].delReq = datastore[p].delReq
                 /\ datastore[p].status = "DELETED" => datastore'[p].status = "DELETED"]_vars

\* What is left of a lease is what a republication hands on, and while a
\* tombstone stands its delete request is the first (datastore.cpp:184-205,
\* 220-222, 238).
LeasesKept == [](TypeOK /\ RepublishKeepsLease) /\ FirstDeleteWins

\* UpdateItem gives a value of ttl -1 an expire_time_ in the past, so that
\* DeleteExpiredValues erases what LoadItem takes for everlasting.
UpdatedForever(r) == r.ttl = -1 /\ r.expire # 0

\* Refreshing, finishing a deletion and purging change nothing that LoadItem
\* returns, but for the values UpdatedForever.
MaintenanceInvisible ==
    [][(\E t \in Threads : Maintenance(t)) =>
          \A p \in Pairs : \/ Loadable(datastore'[p], clock) <=> Loadable(datastore[p], clock)
                           \/ UpdatedForever(datastore[p])]_vars
=============================================================================
