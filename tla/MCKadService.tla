---------------------------- MODULE MCKadService ----------------------------
(***************************************************************************)
(* Small instances of KadService for TLC.  In a behaviour of part "one"    *)
(* one handler runs at a time, with all requests; in one of part "two" two *)
(* of them run at once, with the requests that the second value and the    *)
(* delete requests have no part in.                                        *)
(***************************************************************************)
EXTENDS KadService

CONSTANTS t1, t2, t3, k1, v1, v2

\* The key is the hash of the first value; the other hashes to no key.
HashIsKey(v) == IF v = v1 THEN k1 ELSE v

VARIABLE part

MCInit == part \in {"one", "two"} /\ ServiceInit

\* What a handler that goes on was asked for.
Asked(r) ==
    LET values == IF part = "one" THEN {v1, v2} ELSE {v1}
        ttls == IF part = "one" THEN {0, 1} ELSE {1, 2}
    IN  r.op # "none" =>
            /\ r.pair[2] \in values
            /\ r.op = "Delete" => part = "one" \/ r.req = "none"
            /\ r.op \in {"Store", "Update"} => r.ttl \in ttls
            /\ r.op = "Update" => r.new \in values

MCNext ==
    /\ UNCHANGED part
    /\ \/ \E t \in IF part = "one" THEN {t1} ELSE {t1, t2} : Handler(t) /\ Asked(rpc'[t])
       \/ Upkeep

MCSpec == MCInit /\ [][MCNext]_<<part, allVars>>
=============================================================================
