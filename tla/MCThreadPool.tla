---------------------------- MODULE MCThreadPool ----------------------------
(***************************************************************************)
(* Small instances of ThreadPool for TLC: a pool that two threads call,    *)
(* and one that is called by one thread, as main does.  One of the two     *)
(* moves in a behaviour, Parts says which may.                             *)
(***************************************************************************)
EXTENDS ThreadPool, TLC

CONSTANTS
    Parts,
    w1, w2, c1, c2, j1, j2, j3,                      \* the pool with two callers
    u1, u2, d1, k1, k2                               \* the pool with one caller

VARIABLES
    part,
    wpc1, job1, end1, delHeld1, asleep1, idle1, cpc1, arg1, thr1, idleWait1, locked1, freed1,
    destroyed1, submitted1, ran1, synced1

singleVars == <<wpc1, job1, end1, delHeld1, asleep1, idle1, cpc1, arg1, thr1, idleWait1, locked1,
                freed1, destroyed1, submitted1, ran1, synced1>>
allVars == <<part, vars, singleVars>>

\* The pool of one caller, with a job of the caller's and one that the pool deletes.
Single == INSTANCE ThreadPool WITH
    Workers <- {u1, u2}, Callers <- {d1}, SyncAllers <- {d1}, Jobs <- {k1, k2}, DelJobs <- {k2},
    wpc <- wpc1, job <- job1, end <- end1, delHeld <- delHeld1, asleep <- asleep1,
    idle <- idle1, cpc <- cpc1, arg <- arg1, thr <- thr1, idleWait <- idleWait1,
    locked <- locked1, freed <- freed1, destroyed <- destroyed1, submitted <- submitted1,
    ran <- ran1, synced <- synced1

\* Workers are interchangeable, and so are two callers and the jobs that the pool does not
\* delete.  The pool of one caller, which the liveness property is about, has no symmetry.
Symmetry == Permutations({w1, w2}) \cup Permutations({c1, c2}) \cup Permutations({j1, j2})

MCInit ==
    /\ part \in Parts
    /\ Init /\ Single!Init

OnlyCallers == UNCHANGED <<part, singleVars>>
OnlySingle == UNCHANGED <<part, vars>>

MCNext ==
    \/ part = "callers" /\ Next /\ OnlyCallers
    \/ part = "single" /\ Single!Next /\ OnlySingle

\* The fairness of ThreadPool, for the pool of one caller.
SingleFairness ==
    /\ \A u \in {u1, u2} : WF_allVars(part = "single" /\ Single!Worker(u) /\ OnlySingle)
    /\ WF_allVars(part = "single" /\ Single!InCall(d1) /\ OnlySingle)

MCSpec == MCInit /\ [][MCNext]_allVars /\ SingleFairness

\* The fairness of ThreadPool, for the pool of two callers.
CallersSpec ==
    /\ MCInit /\ [][MCNext]_allVars
    /\ \A w \in Workers : WF_allVars(part = "callers" /\ Worker(w) /\ OnlyCallers)
    /\ \A c \in Callers : WF_allVars(part = "callers" /\ InCall(c) /\ OnlyCallers)
-----------------------------------------------------------------------------
\* A pool with one caller gets round to all that JobPool promises, serves every
\* call, and its threads end (TThreadPool.cpp:37-256).
EverythingEnds ==
    /\ Single!Promise!Safety
    /\ part = "single" => Single!Promise!Fairness /\ Single!CallsReturn /\ Single!ThreadsEnd
=============================================================================
