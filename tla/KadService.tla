----------------------------- MODULE KadService -----------------------------
(***************************************************************************)
(* The RPC handlers of a Kademlia node: class kad::KadService              *)
(* (src/src/kademlia/kadservice.cpp), over the DataStore it shares with    *)
(* the maintenance of the node.                                            *)
(*                                                                         *)
(* A handler calls the store several times and holds no lock in between:   *)
(* what it does up to and including one call of the store is one step, and *)
(* StoreItem, which reads the clock before it locks, is two.  The routing  *)
(* table is behind callbacks; of it only matters whether the sender of the *)
(* request is added.                                                       *)
(***************************************************************************)
EXTENDS DataStore

CONSTANTS
    RpcThreads,   \* the threads of the RPC server; the other ones maintain
    Hash(_),      \* crypto::Hash: the key a value hashes to
    Verified      \* the new values whose signature is right (AsymCheckSig)

VARIABLES
    node_joined,  \* node_joined_
    rpc,          \* per thread: the request it is handling
    answer,       \* the answer given in this very step
    updated       \* history: the tuples that an Update has put there

serviceVars == <<node_joined, rpc, answer, updated>>
allVars == <<vars, serviceVars>>

ASSUME ServiceAssumption ==
    /\ RpcThreads \subseteq Threads \ Removers
    /\ Verified \subseteq Values
    /\ BOOLEAN \subseteq Hashables

NoCall == [op |-> "none"]
NoAnswer == [op |-> "none", result |-> "none", added |-> FALSE]

Ops == {"Ping", "FindValue", "FindNode", "Store", "Downlist", "Bootstrap", "Delete", "Update"}

\* The requests whose handlers call the store more than once.
Requests ==
    [op : {"none"}]
    \cup [op : {"Store"}, at : {"check", "stamp", "commit"}, pair : Pairs, ttl : Ttls,
          publish : BOOLEAN, hashable : BOOLEAN]
    \cup [op : {"Delete"}, pair : Pairs, req : DelReqs, sender : BOOLEAN]
    \cup [op : {"Update"}, pair : Pairs, new : Values, ttl : Ttls, sender : BOOLEAN]

\* _return.result ("unset" when the handler sets none), and whether
\* add_contact_ was called for the sender.
Replies == {NoAnswer} \cup [op : Ops, result : {"unset", "Success", "Failure"}, added : BOOLEAN]

Reply(t, op, result, added) ==
    /\ rpc' = [rpc EXCEPT ![t] = NoCall]
    /\ answer' = [op |-> op, result |-> result, added |-> added]

\* The handler has made one call of the store and has another to make.
GoOn(t, request) == rpc' = [rpc EXCEPT ![t] = request] /\ answer' = NoAnswer

Free(t) == rpc[t] = NoCall /\ IsIdle(t)

-----------------------------------------------------------------------------
(* The handlers that leave the store alone.                                *)

\* Every handler refuses until the node has joined.
NotJoined(t, op) ==
    /\ Free(t) /\ ~node_joined
    /\ Reply(t, op, "Failure", FALSE)
    /\ UNCHANGED <<vars, node_joined, updated>>

\* These look at the request and its sender before they do anything else.
BadRequest(t, op) ==
    /\ Free(t) /\ node_joined
    /\ op \in {"Ping", "FindValue", "FindNode", "Store", "Downlist"}
    /\ Reply(t, op, "Failure", FALSE)
    /\ UNCHANGED <<vars, node_joined, updated>>

\* Ping, FindNode, and FindValue, which becomes a FindNode when it finds none.
Lookup(t, op) ==
    /\ Free(t) /\ node_joined
    /\ op \in {"Ping", "FindNode", "FindValue"}
    /\ Reply(t, op, "Success", TRUE)
    /\ UNCHANGED <<vars, node_joined, updated>>

\* A downlist without a valid contact is answered with no result.
Downlist(t, valid) ==
    /\ Free(t) /\ node_joined
    /\ Reply(t, "Downlist", IF valid THEN "Success" ELSE "unset", TRUE)
    /\ UNCHANGED <<vars, node_joined, updated>>

Bootstrap(t, client) ==
    /\ Free(t) /\ node_joined
    /\ Reply(t, "Bootstrap", IF client THEN "Success" ELSE "unset", FALSE)
    /\ UNCHANGED <<vars, node_joined, updated>>

-----------------------------------------------------------------------------
(* Store.                                                                  *)

\* LoadKeyAppendableAttr: what is there under the key, tombstones included.
Attr(k) == {p \in Pairs : p[1] = k /\ Present(datastore[p])}

\* Faulty: the hashable value may be joined by others.
CanStoreAny(p) == TRUE

\* CanStoreSignedValueHashable: a key that holds one hashable value is taken.
CanStore(p) ==
    \A q \in Attr(p[1]) :
        Attr(p[1]) = {q} /\ datastore[q].hashable => q = p

\* What it returns through its third argument.
HashableOf(p) ==
    IF Attr(p[1]) = {} THEN Hash(p[2]) = p[1]
    ELSE \E q \in Attr(p[1]) : Attr(p[1]) = {q} /\ datastore[q].hashable

Checked(t, p, ttl, publish) ==
    IF CanStore(p)
    THEN GoOn(t, [op |-> "Store", at |-> "stamp", pair |-> p, ttl |-> ttl,
                  publish |-> publish, hashable |-> HashableOf(p)])
    ELSE Reply(t, "Store", "Failure", FALSE)

StorePublish(t, p, ttl) ==
    /\ Free(t) /\ node_joined
    /\ Checked(t, p, ttl, TRUE)
    /\ UNCHANGED <<vars, node_joined, updated>>

\* publish is false: the value is refreshed if it is there ...
StoreRefresh(t, p) ==
    /\ Free(t) /\ node_joined
    /\ RefreshItem(t, p)
    /\ Reply(t, "Store", "Success", TRUE)
    /\ UNCHANGED <<node_joined, updated>>

\* ... refused if it has been deleted by a request ...
StoreDeleted(t, p) ==
    /\ Free(t) /\ node_joined
    /\ Tombstone(datastore[p]) /\ datastore[p].delReq # "none"
    /\ Reply(t, "Store", "Failure", FALSE)
    /\ UNCHANGED <<vars, node_joined, updated>>

\* Faulty: a refresh that finds a tombstone stores the value again.
StoreMissingOrDeleted(t, p, ttl) ==
    /\ Free(t) /\ node_joined
    /\ datastore[p].status # "NOT_DELETED"
    /\ GoOn(t, [op |-> "Store", at |-> "check", pair |-> p, ttl |-> ttl,
                publish |-> FALSE, hashable |-> FALSE])
    /\ UNCHANGED <<vars, node_joined, updated>>

\* ... and stored otherwise.
StoreMissing(t, p, ttl) ==
    /\ Free(t) /\ node_joined
    /\ ~Present(datastore[p]) \/ (Tombstone(datastore[p]) /\ datastore[p].delReq = "none")
    /\ GoOn(t, [op |-> "Store", at |-> "check", pair |-> p, ttl |-> ttl,
                publish |-> FALSE, hashable |-> FALSE])
    /\ UNCHANGED <<vars, node_joined, updated>>

StoreCheck(t) ==
    /\ rpc[t].op = "Store" /\ rpc[t].at = "check" /\ IsIdle(t)
    /\ Checked(t, rpc[t].pair, rpc[t].ttl, FALSE)
    /\ UNCHANGED <<vars, node_joined, updated>>

\* StoreItem refuses a time to live of 0.
StoreNoTtl(t) ==
    /\ rpc[t].op = "Store" /\ rpc[t].at = "stamp" /\ IsIdle(t)
    /\ rpc[t].ttl = 0
    /\ Reply(t, "Store", "Failure", FALSE)
    /\ UNCHANGED <<vars, node_joined, updated>>

\* Faulty: the handler forgets that it is inside StoreItem.
StoreStampAgain(t) ==
    /\ rpc[t].op = "Store" /\ rpc[t].at = "stamp"
    /\ StoreItemStamp(t, rpc[t].pair, rpc[t].ttl, rpc[t].hashable)
    /\ GoOn(t, rpc[t])
    /\ UNCHANGED <<node_joined, updated>>

StoreStamp(t) ==
    /\ rpc[t].op = "Store" /\ rpc[t].at = "stamp"
    /\ StoreItemStamp(t, rpc[t].pair, rpc[t].ttl, rpc[t].hashable)
    /\ GoOn(t, [rpc[t] EXCEPT !.at = "commit"])
    /\ UNCHANGED <<node_joined, updated>>

StoreCommit(t) ==
    LET p  == rpc[t].pair
        ok == Present(datastore[p]) => MayReplace(datastore[p], calls[t].tuple)
    IN  /\ rpc[t].op = "Store" /\ rpc[t].at = "commit"
        /\ StoreItemCommit(t)
        /\ Reply(t, "Store", IF ok THEN "Success" ELSE "Failure", ok)
        /\ updated' = IF ok THEN updated \ {p} ELSE updated
        /\ UNCHANGED node_joined

-----------------------------------------------------------------------------
(* Delete and Update.                                                      *)

\* Delete goes on if it finds anything at all under the key.
DeleteLoad(t, p, req, sender) ==
    /\ Free(t) /\ node_joined
    /\ IF LoadItem(p[1]) = {}
       THEN Reply(t, "Delete", "Failure", FALSE)
       ELSE GoOn(t, [op |-> "Delete", pair |-> p, req |-> req, sender |-> sender])
    /\ UNCHANGED <<vars, node_joined, updated>>

\* GetSender comes after the store has been changed.
ReplyToSender(t, op) ==
    Reply(t, op, IF rpc[t].sender THEN "Success" ELSE "Failure", rpc[t].sender)

\* Faulty: the result of MarkForDeletion is not looked at.
DeleteMarkUnchecked(t) ==
    /\ rpc[t].op = "Delete" /\ IsIdle(t)
    /\ \/ MarkForDeletion(t, rpc[t].pair, rpc[t].req)
       \/ datastore[rpc[t].pair].status # "NOT_DELETED" /\ UNCHANGED vars
    /\ ReplyToSender(t, "Delete")
    /\ UNCHANGED <<node_joined, updated>>

DeleteMark(t) ==
    /\ rpc[t].op = "Delete" /\ IsIdle(t)
    /\ LET r == datastore[rpc[t].pair]
       IN  \/ MarkForDeletion(t, rpc[t].pair, rpc[t].req) /\ ReplyToSender(t, "Delete")
           \/ Tombstone(r) /\ ReplyToSender(t, "Delete") /\ UNCHANGED vars
           \/ ~Present(r) /\ Reply(t, "Delete", "Failure", FALSE) /\ UNCHANGED vars
    /\ UNCHANGED <<node_joined, updated>>

\* The old value must be loadable and the new one carry a valid signature.
UpdateLoad(t, p, new, ttl, sender) ==
    /\ Free(t) /\ node_joined
    /\ IF p[2] \in LoadItem(p[1]) /\ new \in Verified
       THEN GoOn(t, [op |-> "Update", pair |-> p, new |-> new, ttl |-> ttl,
                     sender |-> sender])
       ELSE Reply(t, "Update", "Failure", FALSE)
    /\ UNCHANGED <<vars, node_joined, updated>>

UpdateItemOf(t) ==
    LET k == rpc[t].pair[1]
    IN  UpdateItem(t, k, rpc[t].pair[2], rpc[t].new, rpc[t].ttl, Hash(rpc[t].new) = k)

\* UpdateItem returns false.
UpdateRefused(t) ==
    LET k == rpc[t].pair[1]
    IN  \/ datastore[rpc[t].pair].status # "NOT_DELETED"
        \/ rpc[t].pair[2] # rpc[t].new /\ Present(datastore[<<k, rpc[t].new>>])

\* Faulty: the result of UpdateItem is not looked at.
UpdateReplaceUnchecked(t) ==
    /\ rpc[t].op = "Update" /\ IsIdle(t)
    /\ \/ UpdateItemOf(t)
       \/ UpdateRefused(t) /\ UNCHANGED vars
    /\ ReplyToSender(t, "Update")
    /\ UNCHANGED <<node_joined, updated>>

UpdateReplace(t) ==
    /\ rpc[t].op = "Update" /\ IsIdle(t)
    /\ \/ /\ UpdateItemOf(t)
          /\ ReplyToSender(t, "Update")
          /\ updated' = (updated \ {rpc[t].pair}) \cup {<<rpc[t].pair[1], rpc[t].new>>}
       \/ /\ UpdateRefused(t)
          /\ Reply(t, "Update", "Failure", FALSE)
          /\ UNCHANGED <<vars, updated>>
    /\ UNCHANGED node_joined

-----------------------------------------------------------------------------
Handler(t) ==
    \/ \E op \in Ops : NotJoined(t, op) \/ BadRequest(t, op) \/ Lookup(t, op)
    \/ \E valid \in BOOLEAN : Downlist(t, valid) \/ Bootstrap(t, valid)
    \/ \E p \in Pairs : StoreRefresh(t, p) \/ StoreDeleted(t, p)
    \/ \E p \in Pairs, ttl \in Ttls : StorePublish(t, p, ttl) \/ StoreMissing(t, p, ttl)
    \/ StoreCheck(t) \/ StoreNoTtl(t) \/ StoreStamp(t) \/ StoreCommit(t)
    \/ \E p \in Pairs, req \in DelReqs, sender \in BOOLEAN : DeleteLoad(t, p, req, sender)
    \/ DeleteMark(t)
    \/ \E p \in Pairs, new \in Values, ttl \in Ttls, sender \in BOOLEAN :
          UpdateLoad(t, p, new, ttl, sender)
    \/ UpdateReplace(t)

\* The node refreshes, finishes deletions and purges; it joins and leaves.
Upkeep ==
    /\ \/ /\ \E t \in Threads \ RpcThreads : Maintenance(t)
          /\ UNCHANGED node_joined
       \/ Tick /\ UNCHANGED node_joined
       \/ node_joined' = ~node_joined /\ UNCHANGED vars
    /\ answer' = NoAnswer
    /\ UNCHANGED <<rpc, updated>>

ServiceInit ==
    /\ Init
    /\ node_joined = FALSE
    /\ rpc = [t \in Threads |-> NoCall]
    /\ answer = NoAnswer
    /\ updated = {}

ServiceNext == (\E t \in RpcThreads : Handler(t)) \/ Upkeep

ServiceSpec == ServiceInit /\ [][ServiceNext]_allVars

-----------------------------------------------------------------------------
(* Properties.                                                             *)

\* Every variable of the service stays in its type, and a thread is inside
\* StoreItem exactly when its handler is.
ServiceTypeOK ==
    /\ node_joined \in BOOLEAN
    /\ rpc \in [Threads -> Requests]
    /\ answer \in Replies
    /\ updated \subseteq Pairs
    /\ \A t \in RpcThreads :
          calls[t].op = "StoreItem" <=> rpc[t].op = "Store" /\ rpc[t].at = "commit"

\* A value that was stored because it hashes to its key is the only one under
\* that key, tombstones included, so that nothing else can be found under the
\* hash of a content (kadservice.cpp:451-469), however publications, refreshes,
\* deletions, updates and purges follow one another.  An Update is the
\* exception: it does not look at the other values.  It takes that one request
\* is handled at a time, because the check and the StoreItem it allows are two
\* calls of the store.
HashedValueAlone ==
    \A p \in Pairs \ updated :
        Present(datastore[p]) /\ datastore[p].hashable => Attr(p[1]) = {p}

\* Only a publication puts a value back over a tombstone that carries a delete
\* request: not a refresh that found the value missing before
\* (kadservice.cpp:425-430), nor an update that found the value loadable before
\* the deletion (kadservice.cpp:279, 318).  It takes that one request is handled
\* at a time: between a refresh that finds the value missing and its StoreItem,
\* another handler can publish the value and a third delete it.
DeletionStands ==
    [][\A p \in Pairs :
          /\ Tombstone(datastore[p]) /\ datastore[p].delReq # "none"
          /\ datastore'[p].status = "NOT_DELETED"
          => \E t \in RpcThreads : /\ rpc[t].op = "Store" /\ rpc[t].pair = p
                                   /\ rpc[t].publish /\ rpc'[t] = NoCall]_allVars

\* A deleted lease does not come back, and where the deletion carried a request
\* only a publication gets past it (kadservice.cpp:279, 318, 425-430;
\* datastore.cpp:40-49).
NoRevival == NoReplay /\ DeletionStands

\* What a request is told is what the store holds when it is told.  Success: the
\* value of a Store is there, that of a Delete is deleted, and an Update has put
\* its new value in the place of the old one.  Failure: the store is as it was,
\* except for a Delete or an Update whose sender turns out not to be valid after
\* the store has been changed (kadservice.cpp:251-264, 318-337).
AnswersTrue ==
    [][\A t \in RpcThreads :
          rpc[t] # NoCall /\ rpc'[t] = NoCall =>
             LET p == rpc[t].pair
             IN  IF answer'.result = "Failure"
                 THEN datastore' = datastore \/ (rpc[t].op # "Store" /\ ~rpc[t].sender)
                 ELSE CASE rpc[t].op = "Store" -> datastore'[p].status = "NOT_DELETED"
                        [] rpc[t].op = "Delete" -> Tombstone(datastore'[p])
                        [] rpc[t].op = "Update" ->
                              /\ datastore'[<<p[1], rpc[t].new>>].status = "NOT_DELETED"
                              /\ p[2] # rpc[t].new => ~Present(datastore'[p])]_allVars
=============================================================================
