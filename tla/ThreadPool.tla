----------------------------- MODULE ThreadPool -----------------------------
(***************************************************************************)
(* The thread pool: TThreadPool and its workers TPoolThr                   *)
(* (src/src/common/TThreadPool.cpp, src/include/common/TThreadPool.hh).    *)
(*                                                                         *)
(* A worker announces itself in the list of idle threads, sleeps on its    *)
(* own condition variable until it is given a job, executes it and         *)
(* announces itself again.  A caller takes a worker from the list, locks   *)
(* the mutex inside the job and gives the job to the worker, which unlocks *)
(* the mutex once the job has run; sync waits for that mutex.  All callers *)
(* of get_idle and sync_all sleep on one condition variable, which         *)
(* append_idle signals once.                                               *)
(*                                                                         *)
(* A critical section of _idle_cond or of a worker's _work_cond that does  *)
(* not wait is one step; a thread that waits has left it and is in         *)
(* idleWait or in asleep until it is signalled, or wakes for no reason.    *)
(* What a job does is one step.                                            *)
(***************************************************************************)
EXTENDS Naturals, Sequences, FiniteSets

CONSTANTS
    Workers,      \* the _max_parallel threads of the pool
    Callers,      \* the threads that call the pool
    SyncAllers,   \* those of them that call sync_all
    Jobs,         \* the TJob objects
    DelJobs,      \* those of them that are run with del = true
    NoJob,        \* NULL, as a TJob *
    NoWorker,     \* NULL, as a TPoolThr *
    MaxRuns       \* bound on the times each job is run

ASSUME PoolAssumption ==
    /\ IsFiniteSet(Workers) /\ Workers # {}
    /\ SyncAllers \subseteq Callers
    /\ DelJobs \subseteq Jobs
    /\ NoJob \notin Jobs /\ NoWorker \notin Workers
    /\ MaxRuns \in Nat

VARIABLES
    wpc,          \* where each worker is in TPoolThr::run
    job,          \* _job
    end,          \* the workers whose _end is set
    delHeld,      \* the workers whose _del_mutex is locked
    asleep,       \* the workers that wait on their _work_cond
    idle,         \* _idle_threads
    cpc,          \* where each caller is
    arg,          \* the job its call is about
    thr,          \* the worker get_idle has returned to it
    idleWait,     \* the callers that wait on _idle_cond
    locked,       \* the jobs whose _sync_mutex is locked
    freed,        \* the workers that have been deleted
    destroyed,    \* the jobs that have been destroyed
    submitted,    \* history: how often each job was passed to run
    ran,          \* history: how often it was executed
    synced        \* history: the jobs whose runs a caller has waited for

workerVars == <<wpc, job, end, delHeld, asleep>>
callerVars == <<cpc, arg, thr>>
history == <<submitted, ran, synced>>
vars == <<wpc, job, end, delHeld, asleep, idle, cpc, arg, thr, idleWait,
          locked, freed, destroyed, submitted, ran, synced>>

InIdle(w) == \E i \in DOMAIN idle : idle[i] = w

\* signal() on _idle_cond: one of those that wait goes on.
SignalIdle ==
    \/ idleWait = {} /\ UNCHANGED idleWait
    \/ \E c \in idleWait : idleWait' = idleWait \ {c}

-----------------------------------------------------------------------------
(* TPoolThr::run, the thread of worker w.                                  *)

WAt(w, here, there) == wpc[w] = here /\ wpc' = [wpc EXCEPT ![w] = there]

\* _del_mutex.lock()
WStart(w) ==
    /\ WAt(w, "start", "loop")
    /\ w \notin delHeld
    /\ delHeld' = delHeld \cup {w}
    /\ UNCHANGED <<job, end, asleep, idle, idleWait, callerVars, locked, freed,
                   destroyed, history>>

\* while ( ! _end )
WLoop(w) ==
    /\ WAt(w, "loop", IF w \in end THEN "leave" ELSE "append")
    /\ UNCHANGED <<job, end, delHeld, asleep, idle, idleWait, callerVars, locked,
                   freed, destroyed, history>>

\* Faulty: append_idle without the signal.
WAppendNoSignal(w) ==
    /\ WAt(w, "append", "await")
    /\ IF InIdle(w) THEN UNCHANGED idle ELSE idle' = Append(idle, w)
    /\ UNCHANGED <<job, end, delHeld, asleep, idleWait, callerVars, locked, freed,
                   destroyed, history>>

\* append_idle
WAppend(w) ==
    /\ WAt(w, "append", "await")
    /\ IF InIdle(w)
       THEN UNCHANGED <<idle, idleWait>>
       ELSE idle' = Append(idle, w) /\ SignalIdle
    /\ UNCHANGED <<job, end, delHeld, asleep, callerVars, locked, freed,
                   destroyed, history>>

\* while (( _job == NULL ) && ! _end ) _work_cond.wait()
WAwait(w) ==
    /\ wpc[w] = "await" /\ w \notin asleep
    /\ IF job[w] = NoJob /\ w \notin end
       THEN asleep' = asleep \cup {w} /\ UNCHANGED wpc
       ELSE WAt(w, "await", "test") /\ UNCHANGED asleep
    /\ UNCHANGED <<job, end, delHeld, idle, idleWait, callerVars, locked, freed,
                   destroyed, history>>

\* Faulty: the mutex is unlocked before the job is run.
WTestUnlocks(w) ==
    /\ WAt(w, "test", IF job[w] # NoJob THEN "run" ELSE "loop")
    /\ locked' = locked \ {job[w]}
    /\ UNCHANGED <<job, end, delHeld, asleep, idle, idleWait, callerVars,
                   freed, destroyed, history>>

\* if ( _job != NULL )
WTest(w) ==
    /\ WAt(w, "test", IF job[w] # NoJob THEN "run" ELSE "loop")
    /\ UNCHANGED <<job, end, delHeld, asleep, idle, idleWait, callerVars, locked,
                   freed, destroyed, history>>

\* _job->run( _data_ptr )
WRun(w) ==
    /\ WAt(w, "run", "unlock")
    /\ ran' = [ran EXCEPT ![job[w]] = @ + 1]
    /\ UNCHANGED <<job, end, delHeld, asleep, idle, idleWait, callerVars, locked,
                   freed, destroyed, submitted, synced>>

\* _job->unlock()
WUnlock(w) ==
    /\ WAt(w, "unlock", "delete")
    /\ locked' = locked \ {job[w]}
    /\ UNCHANGED <<job, end, delHeld, asleep, idle, idleWait, callerVars, freed,
                   destroyed, history>>

\* if ( _del_job ) delete _job
WDelete(w) ==
    /\ WAt(w, "delete", "clear")
    /\ destroyed' = destroyed \cup ({job[w]} \cap DelJobs)
    /\ UNCHANGED <<job, end, delHeld, asleep, idle, idleWait, callerVars, locked,
                   freed, history>>

\* Faulty: _job keeps its value.
WClearMissing(w) ==
    /\ WAt(w, "clear", "loop")
    /\ UNCHANGED <<job, end, delHeld, asleep, idle, idleWait, callerVars, locked,
                   freed, destroyed, history>>

\* _job = NULL
WClear(w) ==
    /\ WAt(w, "clear", "loop")
    /\ job' = [job EXCEPT ![w] = NoJob]
    /\ UNCHANGED <<end, delHeld, asleep, idle, idleWait, callerVars, locked,
                   freed, destroyed, history>>

\* _del_mutex.unlock()
WLeave(w) ==
    /\ WAt(w, "leave", "reset")
    /\ delHeld' = delHeld \ {w}
    /\ UNCHANGED <<job, end, asleep, idle, idleWait, callerVars, locked, freed,
                   destroyed, history>>

\* reset_running(), in _run_thread; the thread ends.
WReset(w) ==
    /\ WAt(w, "reset", "gone")
    /\ UNCHANGED <<job, end, delHeld, asleep, idle, idleWait, callerVars, locked,
                   freed, destroyed, history>>

Worker(w) ==
    \/ WStart(w) \/ WLoop(w) \/ WAppend(w) \/ WAwait(w) \/ WTest(w) \/ WRun(w)
    \/ WUnlock(w) \/ WDelete(w) \/ WClear(w) \/ WLeave(w) \/ WReset(w)

-----------------------------------------------------------------------------
(* The calls of caller c.                                                  *)

CAt(c, here, there) == cpc[c] = here /\ cpc' = [cpc EXCEPT ![c] = there]

\* No caller has begun to delete the pool (tp_done).
Open == \A d \in Callers : cpc[d] \notin {"drain", "quit", "reap", "closed"}

\* The job is there, and it has not been handed over for good.
Usable(j) == j \notin destroyed /\ (j \in DelJobs => submitted[j] = 0)

\* A job is handed over for good (del = true) when nobody waits for it.
MayRun(j) == Usable(j) /\ (j \in DelJobs => \A d \in Callers : arg[d] # j)

\* run( j ), up to get_idle
CRun(c, j) ==
    /\ CAt(c, "out", "get")
    /\ Open /\ MayRun(j)
    /\ submitted[j] < MaxRuns
    /\ arg' = [arg EXCEPT ![c] = j]
    /\ submitted' = [submitted EXCEPT ![j] = @ + 1]
    /\ synced' = synced \ {j}
    /\ UNCHANGED <<workerVars, idle, idleWait, thr, locked, freed, destroyed, ran>>

\* Faulty: get_idle goes on when it wakes, without a look at the list.
CGetIdleUnchecked(c) ==
    /\ CAt(c, "get", "lock")
    /\ thr' = [thr EXCEPT ![c] = IF idle = <<>> THEN NoWorker ELSE Head(idle)]
    /\ idle' = IF idle = <<>> THEN idle ELSE Tail(idle)
    /\ UNCHANGED <<workerVars, idleWait, arg, locked, freed, destroyed, history>>

\* Faulty: the worker is not taken out of the list.
CGetIdlePeek(c) ==
    /\ cpc[c] = "get" /\ c \notin idleWait
    /\ IF idle = <<>>
       THEN idleWait' = idleWait \cup {c} /\ UNCHANGED <<thr, cpc>>
       ELSE /\ thr' = [thr EXCEPT ![c] = Head(idle)]
            /\ CAt(c, "get", "lock")
            /\ UNCHANGED idleWait
    /\ UNCHANGED <<workerVars, idle, arg, locked, freed, destroyed, history>>

\* get_idle
CGetIdle(c) ==
    /\ cpc[c] = "get" /\ c \notin idleWait
    /\ IF idle = <<>>
       THEN idleWait' = idleWait \cup {c} /\ UNCHANGED <<idle, thr, cpc>>
       ELSE /\ thr' = [thr EXCEPT ![c] = Head(idle)]
            /\ idle' = Tail(idle)
            /\ CAt(c, "get", "lock")
            /\ UNCHANGED idleWait
    /\ UNCHANGED <<workerVars, arg, locked, freed, destroyed, history>>

\* Faulty: run does not lock the job.
CLockMissing(c) ==
    /\ CAt(c, "lock", "give")
    /\ arg[c] \notin locked
    /\ UNCHANGED <<workerVars, idle, idleWait, arg, thr, locked, freed, destroyed, history>>

\* job->lock()
CLock(c) ==
    /\ CAt(c, "lock", "give")
    /\ arg[c] \notin locked
    /\ locked' = locked \cup {arg[c]}
    /\ UNCHANGED <<workerVars, idle, idleWait, arg, thr, freed, destroyed, history>>

\* thr->run_job
CGive(c) ==
    /\ CAt(c, "give", "out")
    /\ job' = [job EXCEPT ![thr[c]] = arg[c]]
    /\ asleep' = asleep \ {thr[c]}
    /\ arg' = [arg EXCEPT ![c] = NoJob]
    /\ thr' = [thr EXCEPT ![c] = NoWorker]
    /\ UNCHANGED <<wpc, end, delHeld, idle, idleWait, locked, freed, destroyed, history>>

\* sync( j ): lock() and, once it is locked, unlock()
CSync(c, j) ==
    /\ CAt(c, "out", "sync")
    /\ Open /\ Usable(j)
    /\ arg' = [arg EXCEPT ![c] = j]
    /\ UNCHANGED <<workerVars, idle, idleWait, thr, locked, freed, destroyed, history>>

CSyncReturn(c) ==
    /\ CAt(c, "sync", "out")
    /\ arg[c] \notin locked
    /\ arg' = [arg EXCEPT ![c] = NoJob]
    /\ synced' = IF \E d \in Callers : cpc[d] \in {"get", "lock"} /\ arg[d] = arg[c]
                 THEN synced ELSE synced \cup {arg[c]}
    /\ UNCHANGED <<workerVars, idle, idleWait, thr, locked, freed, destroyed,
                   submitted, ran>>

\* The destructor of a job object, such as Client's at the end of its scope:
\* somebody has waited for it and nobody is about to use it.
CDestroy(c, j) ==
    /\ cpc[c] = "out"
    /\ j \in synced \ destroyed
    /\ \A d \in Callers : arg[d] # j
    /\ destroyed' = destroyed \cup {j}
    /\ UNCHANGED <<workerVars, idle, idleWait, callerVars, locked, freed, history>>

\* sync_all, and the same as the first part of the pool's destructor
CSyncAll(c) ==
    /\ CAt(c, "out", "all")
    /\ c \in SyncAllers /\ Open
    /\ UNCHANGED <<workerVars, idle, idleWait, arg, thr, locked, freed, destroyed, history>>

\* Faulty: off by one.
CAllOffByOne(c) ==
    /\ cpc[c] \in {"all", "drain"} /\ c \notin idleWait
    /\ IF Len(idle) + 1 < Cardinality(Workers)
       THEN idleWait' = idleWait \cup {c} /\ UNCHANGED cpc
       ELSE /\ cpc' = [cpc EXCEPT ![c] = IF cpc[c] = "all" THEN "out" ELSE "quit"]
            /\ UNCHANGED idleWait
    /\ UNCHANGED <<workerVars, idle, arg, thr, locked, freed, destroyed, history>>

\* The loop of sync_all.
CAll(c) ==
    /\ cpc[c] \in {"all", "drain"} /\ c \notin idleWait
    /\ IF Len(idle) < Cardinality(Workers)
       THEN idleWait' = idleWait \cup {c} /\ UNCHANGED cpc
       ELSE /\ cpc' = [cpc EXCEPT ![c] = IF cpc[c] = "all" THEN "out" ELSE "quit"]
            /\ UNCHANGED idleWait
    /\ UNCHANGED <<workerVars, idle, arg, thr, locked, freed, destroyed, history>>

\* tp_done, when no other caller is in the pool: ~TThreadPool
CDone(c) ==
    /\ \A d \in Callers : cpc[d] = "out"
    /\ CAt(c, "out", "drain")
    /\ UNCHANGED <<workerVars, idle, idleWait, arg, thr, locked, freed, destroyed, history>>

\* Faulty: quit does not signal the worker.
CQuitNoSignal(c) ==
    /\ cpc[c] = "quit"
    /\ \/ \E w \in Workers \ end :
             /\ end' = end \cup {w}
             /\ job' = [job EXCEPT ![w] = NoJob]
             /\ UNCHANGED cpc
       \/ end = Workers /\ CAt(c, "quit", "reap") /\ UNCHANGED <<end, job>>
    /\ UNCHANGED <<wpc, delHeld, asleep, idle, idleWait, arg, thr, locked, freed,
                   destroyed, history>>

\* _threads[i]->quit()
CQuit(c) ==
    /\ cpc[c] = "quit"
    /\ \/ \E w \in Workers \ end :
             /\ end' = end \cup {w}
             /\ job' = [job EXCEPT ![w] = NoJob]
             /\ asleep' = asleep \ {w}
             /\ UNCHANGED cpc
       \/ end = Workers /\ CAt(c, "quit", "reap") /\ UNCHANGED <<end, job, asleep>>
    /\ UNCHANGED <<wpc, delHeld, idle, idleWait, arg, thr, locked, freed, destroyed, history>>

\* Faulty: a thread is deleted without its _del_mutex.
CReapUnlocked(c) ==
    /\ cpc[c] = "reap"
    /\ \/ \E w \in Workers \ freed : freed' = freed \cup {w} /\ UNCHANGED cpc
       \/ freed = Workers /\ CAt(c, "reap", "closed") /\ UNCHANGED freed
    /\ UNCHANGED <<wpc, job, end, delHeld, asleep, idle, idleWait, arg, thr, locked,
                   destroyed, history>>

\* _threads[i]->del_mutex().lock(); delete _threads[i]
CReap(c) ==
    /\ cpc[c] = "reap"
    /\ \/ \E w \in Workers \ freed :
             /\ w \notin delHeld
             /\ delHeld' = delHeld \cup {w}
             /\ freed' = freed \cup {w}
             /\ UNCHANGED cpc
       \/ freed = Workers /\ CAt(c, "reap", "closed") /\ UNCHANGED <<delHeld, freed>>
    /\ UNCHANGED <<wpc, job, end, asleep, idle, idleWait, arg, thr, locked,
                   destroyed, history>>

\* The steps of a call that has begun.
InCall(c) ==
    \/ CGetIdle(c) \/ CLock(c) \/ CGive(c) \/ CSyncReturn(c) \/ CAll(c)
    \/ CQuit(c) \/ CReap(c)

BeginCall(c) ==
    \/ \E j \in Jobs : CRun(c, j) \/ CSync(c, j) \/ CDestroy(c, j)
    \/ CSyncAll(c) \/ CDone(c)

\* pthread_cond_wait may return without a signal.
SpuriousWakeup ==
    /\ \/ \E w \in asleep : asleep' = asleep \ {w} /\ UNCHANGED idleWait
       \/ \E c \in idleWait : idleWait' = idleWait \ {c} /\ UNCHANGED asleep
    /\ UNCHANGED <<wpc, job, end, delHeld, idle, callerVars, locked, freed,
                   destroyed, history>>

\* The pool is deleted and its threads have ended.
Finished ==
    /\ \E c \in Callers : cpc[c] = "closed"
    /\ \A w \in Workers : wpc[w] = "gone"
    /\ UNCHANGED vars

-----------------------------------------------------------------------------
Init ==
    /\ wpc = [w \in Workers |-> "start"]
    /\ job = [w \in Workers |-> NoJob]
    /\ end = {}
    /\ delHeld = {}
    /\ asleep = {}
    /\ idle = <<>>
    /\ cpc = [c \in Callers |-> "out"]
    /\ arg = [c \in Callers |-> NoJob]
    /\ thr = [c \in Callers |-> NoWorker]
    /\ idleWait = {}
    /\ locked = {}
    /\ freed = {}
    /\ destroyed = {}
    /\ submitted = [j \in Jobs |-> 0]
    /\ ran = [j \in Jobs |-> 0]
    /\ synced = {}

Next ==
    \/ \E w \in Workers : Worker(w)
    \/ \E c \in Callers : InCall(c) \/ BeginCall(c)
    \/ SpuriousWakeup
    \/ Finished

\* Every thread of the process is scheduled, and jobs end.
Fairness ==
    /\ \A w \in Workers : WF_vars(Worker(w))
    /\ \A c \in Callers : WF_vars(InCall(c))

Spec == Init /\ [][Next]_vars /\ Fairness

-----------------------------------------------------------------------------
(* Properties.                                                             *)

\* Every variable stays in its type.
TypeOK ==
    /\ wpc \in [Workers -> {"start", "loop", "append", "await", "test", "run", "unlock",
                            "delete", "clear", "leave", "reset", "gone"}]
    /\ job \in [Workers -> Jobs \cup {NoJob}]
    /\ end \subseteq Workers /\ delHeld \subseteq Workers
    /\ asleep \subseteq Workers /\ freed \subseteq Workers
    /\ idle \in Seq(Workers)
    /\ cpc \in [Callers -> {"out", "get", "lock", "give", "sync", "all", "drain", "quit",
                            "reap", "closed"}]
    /\ arg \in [Callers -> Jobs \cup {NoJob}]
    /\ thr \in [Callers -> Workers \cup {NoWorker}]
    /\ \A c \in Callers : cpc[c] \in {"lock", "give"} => thr[c] \in Workers /\ arg[c] \in Jobs
    /\ idleWait \subseteq Callers
    /\ locked \subseteq Jobs /\ destroyed \subseteq Jobs /\ synced \subseteq Jobs
    /\ submitted \in [Jobs -> Nat] /\ ran \in [Jobs -> Nat]

\* The callers that have taken worker w from the list and not yet given it
\* their job.
Holders(w) == {c \in Callers : cpc[c] \in {"lock", "give"} /\ thr[c] = w}

\* A worker is in the list of idle threads, once, or in the hands of one
\* caller, or at work: run_job never overwrites a job that is still pending,
\* and get_idle gives no worker to two callers (TThreadPool.cpp:72-82, 211-256).
OneOwner ==
    /\ \A i, k \in DOMAIN idle : idle[i] = idle[k] => i = k
    /\ \A w \in Workers : \A c, d \in Holders(w) : c = d
    /\ \A w \in Workers : InIdle(w) => Holders(w) = {} /\ job[w] = NoJob
    /\ \A w \in Workers : Holders(w) # {} => job[w] = NoJob

\* When sync returns the job has been executed as often as it was passed to
\* run: the mutex is locked before run returns and unlocked after the job's
\* own run, so there is no moment at which sync could slip through.
SyncMeansDone == \A j \in synced : ran[j] = submitted[j]

\* What threads can do to one another leaves sync right (TThreadPool.cpp:172-189, 228-256).
SyncIsRight == TypeOK /\ SyncMeansDone

\* When sync_all returns, no worker has a job, whoever gave it
\* (TThreadPool.cpp:191-208), and so no thread is executing when the
\* destructor tells the threads to end.
SyncAllMeansQuiet ==
    [][\A c \in Callers :
          cpc[c] \in {"all", "drain"} /\ cpc'[c] # cpc[c]
              => \A w \in Workers : job[w] = NoJob]_vars

\* A job that is executed, unlocked, waited for or about to be given to a
\* worker has not been destroyed, none is destroyed while it is locked (the
\* message in TThreadPool.hh:42-46), and the pool deletes none a second time.
JobsAlive ==
    /\ \A w \in Workers : wpc[w] \in {"run", "unlock"} => job[w] \notin destroyed
    /\ \A w \in Workers : wpc[w] = "delete" /\ job[w] \in DelJobs => job[w] \notin destroyed
    /\ \A c \in Callers : cpc[c] \in {"get", "lock", "give", "sync"} => arg[c] \notin destroyed
    /\ destroyed \cap locked = {}

\* A thread that the destructor has deleted has left its loop.  All it still
\* does is reset_running, on the deleted object ("not really safe !",
\* TThreadPool.cpp:145; TThread.cpp:21-22).
DeletedHasLeft == \A w \in freed : wpc[w] \in {"reset", "gone"}

\* Jobs and threads are not used after they are destroyed (TThreadPool.hh:42-46;
\* TThreadPool.cpp:136-153).
NothingFreedIsUsed == JobsAlive /\ DeletedHasLeft

\* The promise of JobPool, of this pool.
TheRuns(j) == {c \in Callers : cpc[c] \in {"get", "lock"} /\ arg[c] = j}
Promise == INSTANCE JobPool WITH
    Capacity <- Cardinality(Workers),
    waiting <- [j \in Jobs |-> Cardinality(TheRuns(j))],
    stage <- [j \in Jobs |->
                IF j \notin locked THEN "free"
                ELSE IF \E w \in Workers : wpc[w] = "unlock" /\ job[w] = j THEN "executed"
                ELSE "taken"]

\* Whoever uses it, the pool executes what it is given, one run of a job at a
\* time, each once, and never more of them than it has threads
\* (TThreadPool.hh:63-74; TThreadPool.cpp:156-178).
KeepsPromise == Promise!Safety

\* Every call returns: run, sync, sync_all and the destructor.
CallsReturn ==
    \A c \in Callers : cpc[c] # "out" ~> cpc[c] \in {"out", "closed"}

\* The threads end after the destructor.
ThreadsEnd ==
    (\E c \in Callers : cpc[c] = "drain") ~> (\A w \in Workers : wpc[w] = "gone")

\* get_idle returns an idle thread from the pool once there is one.
GetIdleReturns ==
    \A c \in Callers : cpc[c] = "get" /\ idle # <<>> ~> cpc[c] # "get" \/ idle = <<>>
=============================================================================
