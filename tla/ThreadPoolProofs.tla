-------------------------- MODULE ThreadPoolProofs --------------------------
(* Theorems about ThreadPool, for every number of threads and jobs.        *)
EXTENDS ThreadPool, FiniteSetTheorems, TLAPS

-----------------------------------------------------------------------------
(* The list of idle threads.                                               *)

In(w, s) == \E i \in DOMAIN s : s[i] = w
Injective(s) == \A i, k \in DOMAIN s : s[i] = s[k] => i = k

\* append_idle adds one worker to the list.
LEMMA AppendMembers ==
    ASSUME NEW s \in Seq(Workers), NEW w \in Workers, ~In(w, s), Injective(s)
    PROVE  /\ Append(s, w) \in Seq(Workers)
           /\ Injective(Append(s, w))
           /\ \A v : In(v, Append(s, w)) <=> In(v, s) \/ v = w
  <1> DEFINE a == Append(s, w)
  <1>1. /\ a \in Seq(Workers)
        /\ Len(s) \in Nat /\ Len(a) = Len(s) + 1
        /\ DOMAIN s = 1 .. Len(s) /\ DOMAIN a = 1 .. Len(s) + 1
        /\ \A i \in 1 .. Len(s) : a[i] = s[i]
        /\ a[Len(s) + 1] = w
    OBVIOUS
  <1>2. DOMAIN a = DOMAIN s \cup {Len(s) + 1}
    BY <1>1
  <1> HIDE DEF a
  <1>3. \A v : In(v, a) <=> In(v, s) \/ v = w
    BY <1>1, <1>2 DEF In
  <1>4. Injective(a)
    BY <1>1, <1>2 DEF In, Injective
  <1> QED
    BY <1>1, <1>3, <1>4 DEF a

\* behead takes the first worker out of the list, and no other.
LEMMA TailMembers ==
    ASSUME NEW s \in Seq(Workers), s # <<>>, Injective(s)
    PROVE  /\ Head(s) \in Workers /\ In(Head(s), s)
           /\ Tail(s) \in Seq(Workers)
           /\ Injective(Tail(s))
           /\ \A v : In(v, Tail(s)) <=> In(v, s) /\ v # Head(s)
  <1> DEFINE t == Tail(s)
  <1>1. /\ t \in Seq(Workers)
        /\ Len(s) \in Nat \ {0} /\ DOMAIN s = 1 .. Len(s)
        /\ DOMAIN t = 1 .. Len(s) - 1
        /\ \A i \in 1 .. Len(s) - 1 : t[i] = s[i + 1]
        /\ Head(s) = s[1] /\ 1 \in DOMAIN s
    OBVIOUS
  <1>2. Head(s) \in Workers /\ In(Head(s), s)
    BY <1>1 DEF In
  <1> HIDE DEF t
  <1>3. Injective(t)
    BY <1>1 DEF Injective
  <1>4. ASSUME NEW v, In(v, t)
        PROVE  In(v, s) /\ v # Head(s)
    <2>1. PICK i \in DOMAIN t : t[i] = v
      BY <1>4 DEF In
    <2>2. i + 1 \in DOMAIN s /\ s[i + 1] = v /\ i + 1 # 1
      BY <1>1, <2>1
    <2> QED
      BY <1>1, <2>2 DEF In, Injective
  <1>5. ASSUME NEW v, In(v, s), v # Head(s)
        PROVE  In(v, t)
    <2>1. PICK i \in DOMAIN s : s[i] = v
      BY <1>5 DEF In
    <2>2. i - 1 \in DOMAIN t /\ t[i - 1] = v
      BY <1>1, <1>5, <2>1
    <2> QED
      BY <2>2 DEF In
  <1> QED
    BY <1>1, <1>2, <1>3, <1>4, <1>5 DEF t

\* The pigeonhole argument of sync_all: a list as long as there are workers
\* names every one of them.
LEMMA LongListIsFull ==
    ASSUME NEW s \in Seq(Workers), Injective(s), ~(Len(s) < Cardinality(Workers))
    PROVE  \A w \in Workers : In(w, s)
  <1>1. Len(s) \in Nat /\ DOMAIN s = 1 .. Len(s) /\ s \in [1 .. Len(s) -> Workers]
    OBVIOUS
  <1>2. s \in Injection(1 .. Len(s), Workers)
    BY <1>1 DEF Injective, Injection, IsInjective
  <1>3. Cardinality(1 .. Len(s)) = Len(s)
    BY <1>1, FS_Interval
  <1>4. Cardinality(Workers) \in Nat
    BY PoolAssumption, FS_CardinalityType
  <1>5. /\ Cardinality(1 .. Len(s)) <= Cardinality(Workers)
        /\ Cardinality(1 .. Len(s)) = Cardinality(Workers)
             <=> s \in Surjection(1 .. Len(s), Workers)
    BY <1>2, PoolAssumption, FS_Injection
  <1>6. s \in Surjection(1 .. Len(s), Workers)
    BY <1>1, <1>3, <1>4, <1>5
  <1> QED
    BY <1>1, <1>6 DEF Surjection, In

LEMMA InIdleMeans == \A w : InIdle(w) <=> In(w, idle)
  BY DEF InIdle, In

-----------------------------------------------------------------------------
(* Type correctness.                                                       *)

\* A caller in the middle of run or sync knows its job.
ArgKnown == \A c \in Callers : cpc[c] \in {"get", "lock", "give", "sync"} => arg[c] \in Jobs

Typed == TypeOK /\ ArgKnown

LEMMA TypeInit == Init => Typed
  BY PoolAssumption DEF Init, Typed, TypeOK, ArgKnown

LEMMA SignalType ==
    ASSUME idleWait \subseteq Callers, SignalIdle
    PROVE  idleWait' \subseteq Callers
  BY DEF SignalIdle

LEMMA TypeWorker ==
    ASSUME Typed, NEW w \in Workers, Worker(w)
    PROVE  Typed'
  <1> USE DEF Typed, TypeOK, ArgKnown, WAt, callerVars, history
  <1>1. CASE WStart(w)
    BY <1>1 DEF WStart
  <1>2. CASE WLoop(w)
    BY <1>2 DEF WLoop
  <1>3. CASE WAppend(w)
    <2>1. idle' \in Seq(Workers)
      <3> HIDE DEF Typed, TypeOK
      <3>1. idle \in Seq(Workers)
        BY DEF Typed, TypeOK
      <3>2. Append(idle, w) \in Seq(Workers)
        BY <3>1
      <3> QED
        BY <1>3, <3>1, <3>2 DEF WAppend
    <2>2. idleWait' \subseteq Callers
      BY <1>3, SignalType DEF WAppend
    <2> QED
      BY <1>3, <2>1, <2>2 DEF WAppend
  <1>4. CASE WAwait(w)
    BY <1>4 DEF WAwait
  <1>5. CASE WTest(w)
    BY <1>5 DEF WTest
  <1>6. CASE WRun(w)
    <2>1. ran' \in [Jobs -> Nat]
      <3> HIDE DEF Typed, TypeOK
      <3>1. ran \in [Jobs -> Nat] /\ ran' = [ran EXCEPT ![job[w]] = ran[job[w]] + 1]
        BY <1>6 DEF WRun, Typed, TypeOK
      <3>2. \A j \in Jobs : ran[j] \in Nat /\ ran[j] + 1 \in Nat
        BY <3>1
      <3>3. ASSUME NEW j \in Jobs PROVE ran'[j] \in Nat
        BY <3>1, <3>2
      <3> QED
        BY <3>1, <3>3
    <2> QED
      BY <1>6, <2>1 DEF WRun
  <1>7. CASE WUnlock(w)
    BY <1>7 DEF WUnlock
  <1>8. CASE WDelete(w)
    BY <1>8, PoolAssumption DEF WDelete
  <1>9. CASE WClear(w)
    BY <1>9 DEF WClear
  <1>10. CASE WLeave(w)
    BY <1>10 DEF WLeave
  <1>11. CASE WReset(w)
    BY <1>11 DEF WReset
  <1> QED
    BY <1>1, <1>2, <1>3, <1>4, <1>5, <1>6, <1>7, <1>8, <1>9, <1>10, <1>11 DEF Worker

LEMMA TypeCall ==
    ASSUME Typed, NEW c \in Callers, InCall(c)
    PROVE  Typed'
  <1> USE DEF Typed, TypeOK, ArgKnown, CAt, workerVars, history
  <1>1. CASE CGetIdle(c)
    <2>1. ASSUME idle # <<>>
          PROVE  Head(idle) \in Workers /\ Tail(idle) \in Seq(Workers)
      BY <2>1
    <2> QED
      BY <1>1, <2>1 DEF CGetIdle
  <1>2. CASE CLock(c)
    BY <1>2 DEF CLock
  <1>3. CASE CGive(c)
    BY <1>3 DEF CGive
  <1>4. CASE CSyncReturn(c)
    BY <1>4 DEF CSyncReturn
  <1>5. CASE CAll(c)
    BY <1>5 DEF CAll
  <1>6. CASE CQuit(c)
    BY <1>6 DEF CQuit
  <1>7. CASE CReap(c)
    BY <1>7 DEF CReap
  <1> QED
    BY <1>1, <1>2, <1>3, <1>4, <1>5, <1>6, <1>7 DEF InCall

LEMMA TypeBegin ==
    ASSUME Typed, NEW c \in Callers, BeginCall(c)
    PROVE  Typed'
  <1> USE DEF Typed, TypeOK, ArgKnown, CAt, workerVars, callerVars, history
  <1>1. ASSUME NEW j \in Jobs, CRun(c, j)
        PROVE  Typed'
    BY <1>1 DEF CRun
  <1>2. ASSUME NEW j \in Jobs, CSync(c, j)
        PROVE  Typed'
    BY <1>2 DEF CSync
  <1>3. ASSUME NEW j \in Jobs, CDestroy(c, j)
        PROVE  Typed'
    BY <1>3 DEF CDestroy
  <1>4. CASE CSyncAll(c)
    BY <1>4 DEF CSyncAll
  <1>5. CASE CDone(c)
    BY <1>5 DEF CDone
  <1> QED
    BY <1>1, <1>2, <1>3, <1>4, <1>5 DEF BeginCall

LEMMA TypeNext == Typed /\ [Next]_vars => Typed'
  <1> SUFFICES ASSUME Typed, [Next]_vars PROVE Typed'
    OBVIOUS
  <1>1. CASE SpuriousWakeup
    BY <1>1 DEF SpuriousWakeup, Typed, TypeOK, ArgKnown, callerVars, history
  <1>2. CASE UNCHANGED vars
    BY <1>2 DEF vars, Typed, TypeOK, ArgKnown
  <1> QED
    BY <1>1, <1>2, TypeWorker, TypeCall, TypeBegin DEF Next, Finished

\* Whatever the numbers of workers, callers and jobs, every reachable state of
\* the pool is typed; a caller that locks or hands over a job has a worker.
THEOREM TypeCorrect == Spec => []TypeOK
  <1>1. Spec => []Typed
    BY TypeInit, TypeNext, PTL DEF Spec
  <1> QED
    BY <1>1, PTL DEF Typed

-----------------------------------------------------------------------------
(* Who has a worker.                                                       *)

Places == {"out", "get", "lock", "give", "sync", "all", "drain", "quit", "reap", "closed"}
Closing == {c \in Callers : cpc[c] \in {"drain", "quit", "reap", "closed"}}
Quitting == {c \in Callers : cpc[c] \in {"quit", "reap", "closed"}}

(***************************************************************************)
(* What OneOwner rests on.  A worker appends itself only while nobody else *)
(* knows of it; it is not in the list while it works; it looks for a job   *)
(* and finds none only after it was told to end; and it is told to end     *)
(* when the pool is being closed, all workers are in the list and nobody   *)
(* else is in a call.                                                      *)
(***************************************************************************)
Untouched(w) == Holders(w) = {} /\ job[w] = NoJob
Fresh == \A w \in Workers : wpc[w] \in {"start", "append"} => ~InIdle(w) /\ Untouched(w)
Looping == \A w \in Workers :
    wpc[w] = "loop" => Untouched(w) /\ (InIdle(w) => w \in end)
Working == \A w \in Workers :
    wpc[w] \in {"run", "unlock", "delete", "clear"} => ~InIdle(w) /\ Holders(w) = {} /\ job[w] # NoJob
Told == \A w \in Workers :
    /\ wpc[w] = "test" => job[w] # NoJob \/ w \in end
    /\ w \in end => Quitting # {}
Alone == \A c \in Closing : \A d \in Callers \ {c} : cpc[d] = "out"
Quiet == Quitting # {} => \A w \in Workers : InIdle(w)

Ownership == Fresh /\ Looping /\ Working /\ Told /\ Alone /\ Quiet /\ OneOwner

LEMMA OwnershipInit == Init => Ownership
  BY PoolAssumption
  DEF Init, Ownership, Fresh, Looping, Working, Told, Alone, Quiet, OneOwner, Untouched,
      Holders, InIdle, Closing, Quitting

\* Steps that leave the list, the jobs and the callers' hands alone, and take
\* the worker to a place it is fit for.
LEMMA OwnershipWorker ==
    ASSUME Typed, Ownership, NEW w \in Workers, Worker(w)
    PROVE  Ownership'
  <1> USE DEF Ownership, WAt, callerVars, history
  <1> DEFINE Still == UNCHANGED <<idle, job, end, cpc, thr>>
  <1>1. ASSUME UNCHANGED <<cpc, thr>>
        PROVE  /\ \A v : Holders(v)' = Holders(v)
               /\ Closing' = Closing /\ Quitting' = Quitting /\ Alone'
    BY <1>1 DEF Holders, Closing, Quitting, Alone
  <1>2. ASSUME Still
        PROVE  /\ \A v : InIdle(v)' = InIdle(v) /\ Untouched(v)' = Untouched(v)
               /\ OneOwner' /\ Quiet'
    <2>1. \A v : InIdle(v)' = InIdle(v)
      BY <1>2 DEF InIdle
    <2> QED
      BY <1>1, <1>2, <2>1 DEF Untouched, OneOwner, Quiet
  <1>3. ASSUME w \in end
        PROVE  Holders(w) = {}
    <2>1. PICK c \in Quitting : TRUE
      BY <1>3 DEF Told
    <2> QED
      BY <2>1 DEF Holders, Quitting, Closing, Alone
  <1> USE DEF Typed, TypeOK, Fresh, Looping, Working, Told
  <1>4. CASE WStart(w)
    BY <1>4, <1>1, <1>2 DEF WStart
  <1>5. CASE WLoop(w)
    BY <1>5, <1>1, <1>2 DEF WLoop
  <1>6. CASE WAppend(w)
    <2> HIDE DEF Typed, TypeOK
    <2>0. idle \in Seq(Workers)
      BY DEF Typed, TypeOK
    <2>1. ~InIdle(w) /\ Untouched(w) /\ wpc[w] = "append"
      BY <1>6 DEF WAppend
    <2>2. /\ idle' = Append(idle, w)
          /\ UNCHANGED <<job, end, cpc, thr>>
          /\ wpc' = [wpc EXCEPT ![w] = "await"]
      BY <1>6, <2>1 DEF WAppend
    <2>3. Injective(idle')
      <3>1. Injective(idle) /\ ~In(w, idle)
        BY <2>1, InIdleMeans DEF OneOwner, Injective
      <3> QED
        BY <2>0, <2>2, <3>1, AppendMembers
    <2>4. \A v : InIdle(v)' <=> InIdle(v) \/ v = w
      <3>1. Injective(idle) /\ ~In(w, idle)
        BY <2>1, InIdleMeans DEF OneOwner, Injective
      <3>2. \A v : In(v, idle') <=> In(v, idle) \/ v = w
        BY <2>0, <2>2, <3>1, AppendMembers
      <3> QED
        BY <3>2 DEF InIdle, In
    <2>5. \A v : Untouched(v)' = Untouched(v)
      BY <1>1, <2>2 DEF Untouched
    <2>6. OneOwner'
      BY <1>1, <2>1, <2>2, <2>3, <2>4 DEF OneOwner, Injective, Untouched
    <2>7. Quiet'
      BY <1>1, <2>2, <2>4 DEF Quiet
    <2>8. \A v \in Workers : wpc'[v] = IF v = w THEN "await" ELSE wpc[v]
      BY <2>2 DEF Typed, TypeOK
    <2>9. Fresh' /\ Working' /\ Told'
      BY <1>1, <2>1, <2>2, <2>4, <2>5, <2>8
    <2>10. Looping'
      BY <1>1, <2>1, <2>2, <2>4, <2>5, <2>8
    <2> QED
      BY <1>1, <2>2, <2>6, <2>7, <2>9, <2>10
  <1>7. CASE WAwait(w)
    BY <1>7, <1>1, <1>2 DEF WAwait
  <1>8. CASE WTest(w)
    BY <1>8, <1>1, <1>2, <1>3 DEF WTest, OneOwner, Untouched
  <1>9. CASE WRun(w)
    BY <1>9, <1>1, <1>2 DEF WRun
  <1>10. CASE WUnlock(w)
    BY <1>10, <1>1, <1>2 DEF WUnlock
  <1>11. CASE WDelete(w)
    BY <1>11, <1>1, <1>2 DEF WDelete
  <1>12. CASE WClear(w)
    <2>1. \A v \in Workers : /\ job'[v] = IF v = w THEN NoJob ELSE job[v]
                             /\ wpc'[v] = IF v = w THEN "loop" ELSE wpc[v]
      BY <1>12 DEF WClear
    <2>2. /\ UNCHANGED <<idle, end, cpc, thr>>
          /\ ~InIdle(w) /\ Holders(w) = {}
      BY <1>12 DEF WClear
    <2>3. \A v : InIdle(v)' = InIdle(v)
      BY <2>2 DEF InIdle
    <2>4. OneOwner' /\ Quiet'
      BY <1>1, <2>1, <2>2, <2>3 DEF OneOwner, Quiet
    <2>5. Fresh' /\ Looping'
      BY <1>1, <2>1, <2>2, <2>3 DEF Untouched
    <2>6. Working'
      BY <1>1, <2>1, <2>2, <2>3
    <2>7. Told'
      <3>1. end' = end /\ Quitting' = Quitting
        BY <1>1, <2>2
      <3>2. ASSUME NEW v \in Workers
            PROVE  /\ wpc'[v] = "test" => job'[v] # NoJob \/ v \in end
                   /\ v \in end => Quitting # {}
        <4>1. CASE v = w
          BY <2>1, <4>1 DEF Told
        <4>2. CASE v # w
          BY <2>1, <4>2 DEF Told
        <4> QED
          BY <4>1, <4>2
      <3> QED
        BY <3>1, <3>2 DEF Told
    <2> QED
      BY <1>1, <2>2, <2>4, <2>5, <2>6, <2>7
  <1>13. CASE WLeave(w)
    BY <1>13, <1>1, <1>2 DEF WLeave
  <1>14. CASE WReset(w)
    BY <1>14, <1>1, <1>2 DEF WReset
  <1> QED
    BY <1>4, <1>5, <1>6, <1>7, <1>8, <1>9, <1>10, <1>11, <1>12, <1>13, <1>14 DEF Worker

LEMMA OwnershipCall ==
    ASSUME Typed, Ownership, NEW c \in Callers, InCall(c)
    PROVE  Ownership'
  <1> USE DEF Ownership, CAt, workerVars, history
  <1> DEFINE Still == /\ idle' = idle /\ job' = job /\ end' = end /\ wpc' = wpc
  <1>1. cpc \in [Callers -> Places] /\ thr \in [Callers -> Workers \cup {NoWorker}]
    BY DEF Typed, TypeOK, Places
  <1>2. ASSUME idle' = idle
        PROVE  \A v : InIdle(v)' = InIdle(v)
    BY <1>2 DEF InIdle
  <1>3. ASSUME Still, \A v \in Workers : Holders(v)' = Holders(v),
               Closing' = Closing, Quitting' = Quitting, Alone'
        PROVE  Ownership'
    <2>1. \A v : InIdle(v)' = InIdle(v)
      BY <1>2, <1>3
    <2>2. \A v \in Workers : Untouched(v)' = Untouched(v)
      BY <1>3 DEF Untouched
    <2>3. OneOwner'
      BY <1>3, <2>1 DEF OneOwner
    <2> QED
      BY <1>3, <2>1, <2>2, <2>3 DEF Fresh, Looping, Working, Told, Quiet
  <1>4. ASSUME cpc[c] \notin {"out", "drain", "quit", "reap", "closed"}
        PROVE  Closing = {} /\ Quitting = {} /\ \A v \in Workers : v \notin end
    <2>1. Closing = {}
      BY <1>4 DEF Closing, Alone
    <2>2. Quitting = {}
      BY <2>1 DEF Closing, Quitting
    <2> QED
      BY <2>1, <2>2 DEF Told
  <1>5. CASE CGetIdle(c)
    <2>1. CASE idle = <<>>
      BY <1>3, <1>5, <2>1 DEF CGetIdle, Holders, Closing, Quitting, Alone
    <2> SUFFICES ASSUME idle # <<>> PROVE Ownership'
      BY <2>1
    <2> DEFINE w == Head(idle)
    <2>2. /\ cpc[c] = "get" /\ cpc' = [cpc EXCEPT ![c] = "lock"]
          /\ thr' = [thr EXCEPT ![c] = w]
          /\ idle' = Tail(idle)
          /\ UNCHANGED <<job, end, wpc>>
      BY <1>5 DEF CGetIdle
    <2>3. idle \in Seq(Workers) /\ Injective(idle)
      BY DEF Typed, TypeOK, OneOwner, Injective
    <2>4. w \in Workers /\ InIdle(w)
      BY <2>3, TailMembers, InIdleMeans
    <2>5. Injective(idle') /\ \A v : In(v, idle') <=> In(v, idle) /\ v # w
      BY <2>2, <2>3, TailMembers
    <2>6. \A v : InIdle(v)' <=> InIdle(v) /\ v # w
      BY <2>5 DEF InIdle, In
    <2> HIDE DEF w
    <2>7. Closing = {} /\ Quitting = {} /\ \A v \in Workers : v \notin end
      BY <1>4, <2>2
    <2>8. \A v \in Workers : Holders(v)' = IF v = w THEN {c} ELSE Holders(v)
      <3>1. Holders(w) = {}
        BY <2>4 DEF OneOwner
      <3> QED
        BY <1>1, <2>2, <2>4, <3>1 DEF Holders
    <2>9. Closing' = {} /\ Quitting' = {}
      BY <1>1, <2>2, <2>7 DEF Closing, Quitting
    <2>10. OneOwner'
      <3>1. job[w] = NoJob
        BY <2>4 DEF OneOwner
      <3> QED
        BY <2>2, <2>4, <2>5, <2>6, <2>8, <3>1 DEF OneOwner, Injective
    <2>11. wpc[w] \notin {"start", "append", "loop", "run", "unlock", "delete", "clear"}
      BY <2>4, <2>7 DEF Fresh, Looping, Working
    <2>12. \A v \in Workers : v # w => Untouched(v)' = Untouched(v)
      BY <2>2, <2>8 DEF Untouched
    <2>13. Fresh' /\ Looping' /\ Working'
      BY <2>2, <2>4, <2>6, <2>8, <2>11, <2>12 DEF Fresh, Looping, Working
    <2>14. Told' /\ Alone' /\ Quiet'
      BY <2>2, <2>7, <2>9 DEF Told, Alone, Quiet
    <2> QED
      BY <2>10, <2>13, <2>14
  <1>6. CASE CLock(c)
    BY <1>1, <1>3, <1>4, <1>6 DEF CLock, Holders, Closing, Quitting, Alone
  <1>7. CASE CGive(c)
    <2> DEFINE w == thr[c]
    <2>1. /\ cpc[c] = "give" /\ cpc' = [cpc EXCEPT ![c] = "out"]
          /\ thr' = [thr EXCEPT ![c] = NoWorker]
          /\ job' = [job EXCEPT ![w] = arg[c]]
          /\ UNCHANGED <<idle, end, wpc>>
      BY <1>7 DEF CGive
    <2>2. w \in Workers /\ arg[c] \in Jobs /\ job \in [Workers -> Jobs \cup {NoJob}]
      BY <2>1 DEF Typed, TypeOK
    <2>3. c \in Holders(w) /\ Holders(w) = {c} /\ ~InIdle(w)
      BY <2>1, <2>2 DEF Holders, OneOwner
    <2>4. \A v : InIdle(v)' = InIdle(v)
      BY <1>2, <2>1
    <2> HIDE DEF w
    <2>5. Closing = {} /\ Quitting = {} /\ \A v \in Workers : v \notin end
      BY <1>4, <2>1
    <2>6. \A v \in Workers : Holders(v)' = IF v = w THEN {} ELSE Holders(v)
      BY <1>1, <2>1, <2>3 DEF Holders
    <2>7. Closing' = {} /\ Quitting' = {}
      BY <1>1, <2>1, <2>5 DEF Closing, Quitting
    <2>8. \A v \in Workers : job'[v] = IF v = w THEN arg[c] ELSE job[v]
      BY <2>1, <2>2
    <2>9. arg[c] # NoJob
      BY <2>2, PoolAssumption
    <2>10. OneOwner'
      BY <2>1, <2>3, <2>4, <2>6, <2>8 DEF OneOwner
    <2>11. wpc[w] \notin {"start", "append", "loop", "run", "unlock", "delete", "clear"}
      BY <2>2, <2>3 DEF Fresh, Looping, Working, Untouched
    <2>12. \A v \in Workers : v # w => Untouched(v)' = Untouched(v)
      BY <2>6, <2>8 DEF Untouched
    <2>13. Fresh' /\ Looping' /\ Working'
      BY <2>1, <2>4, <2>6, <2>8, <2>11, <2>12 DEF Fresh, Looping, Working
    <2>14. Told' /\ Alone' /\ Quiet'
      BY <2>1, <2>5, <2>7, <2>8, <2>9 DEF Told, Alone, Quiet
    <2> QED
      BY <2>10, <2>13, <2>14
  <1>8. CASE CSyncReturn(c)
    BY <1>1, <1>3, <1>4, <1>8 DEF CSyncReturn, Holders, Closing, Quitting, Alone
  <1>9. CASE CAll(c)
    <2>1. CASE UNCHANGED cpc
      BY <1>3, <1>9, <2>1 DEF CAll, Holders, Closing, Quitting, Alone
    <2>2. CASE cpc[c] = "all" /\ cpc' = [cpc EXCEPT ![c] = "out"]
      BY <1>1, <1>3, <1>4, <1>9, <2>2 DEF CAll, Holders, Closing, Quitting, Alone
    <2>3. CASE cpc[c] = "drain" /\ cpc' = [cpc EXCEPT ![c] = "quit"]
      <3>1. /\ ~(Len(idle) < Cardinality(Workers))
            /\ UNCHANGED <<idle, job, end, wpc, thr>>
        <4>1. cpc'[c] = "quit" /\ cpc[c] = "drain"
          BY <1>1, <2>3
        <4>2. ~UNCHANGED cpc
          BY <4>1
        <4> QED
          BY <1>9, <4>2 DEF CAll
      <3>2. \A v \in Workers : InIdle(v)'
        <4>1. idle \in Seq(Workers) /\ Injective(idle)
          BY DEF Typed, TypeOK, OneOwner, Injective
        <4>2. \A v \in Workers : In(v, idle)
          BY <3>1, <4>1, LongListIsFull
        <4>3. \A v \in Workers : InIdle(v)
          BY <4>2, InIdleMeans
        <4> QED
          BY <1>2, <3>1, <4>3
      <3>3. \A v \in Workers : Holders(v)' = Holders(v) /\ InIdle(v)' = InIdle(v)
        BY <1>1, <1>2, <2>3, <3>1 DEF Holders
      <3>4. \A v \in Workers : Untouched(v)' = Untouched(v)
        BY <3>1, <3>3 DEF Untouched
      <3>5. OneOwner'
        BY <3>1, <3>3 DEF OneOwner
      <3>6. Alone' /\ c \in Quitting'
        BY <1>1, <2>3 DEF Alone, Closing, Quitting
      <3> QED
        BY <3>1, <3>2, <3>3, <3>4, <3>5, <3>6 DEF Fresh, Looping, Working, Told, Quiet
    <2> QED
      BY <1>9, <2>1, <2>2, <2>3 DEF CAll
  <1>10. CASE CQuit(c)
    <2>1. c \in Quitting /\ (\A v \in Workers : InIdle(v) /\ job[v] = NoJob)
      BY <1>10 DEF CQuit, Quitting, Quiet, OneOwner
    <2>2. \A v \in Workers : Holders(v)' = Holders(v)
      BY <1>1, <1>10 DEF CQuit, Holders
    <2>3. c \in Quitting' /\ Closing' = Closing /\ Alone'
      BY <1>1, <1>10, <2>1 DEF CQuit, Quitting, Closing, Alone
    <2>4. /\ UNCHANGED <<idle, wpc>> /\ end \subseteq end'
          /\ \A v \in Workers : job'[v] = NoJob
      BY <1>10, <2>1 DEF CQuit, Typed, TypeOK
    <2>5. \A v \in Workers : InIdle(v)' = InIdle(v) /\ Untouched(v)' = Untouched(v)
      BY <1>2, <2>1, <2>2, <2>4 DEF Untouched
    <2>6. OneOwner'
      BY <2>1, <2>2, <2>4, <2>5 DEF OneOwner
    <2>7. Told'
      BY <2>1, <2>3, <2>4 DEF Told
    <2> QED
      BY <2>1, <2>2, <2>3, <2>4, <2>5, <2>6, <2>7 DEF Fresh, Looping, Working, Quiet
  <1>11. CASE CReap(c)
    <2>1. Closing' = Closing /\ Quitting' = Quitting /\ Alone'
      BY <1>1, <1>11 DEF CReap, Closing, Quitting, Alone
    <2>2. Still /\ \A v \in Workers : Holders(v)' = Holders(v)
      BY <1>1, <1>11 DEF CReap, Holders
    <2> QED
      BY <1>3, <2>1, <2>2
  <1> QED
    BY <1>5, <1>6, <1>7, <1>8, <1>9, <1>10, <1>11 DEF InCall

LEMMA OwnershipBegin ==
    ASSUME Typed, Ownership, NEW c \in Callers, BeginCall(c)
    PROVE  Ownership'
  <1> USE DEF Ownership, CAt, workerVars, callerVars, history
  <1>1. /\ cpc[c] = "out"
        /\ UNCHANGED <<idle, job, end, wpc, thr>>
        /\ \/ UNCHANGED cpc
           \/ \E there \in {"get", "sync", "all"} : Open /\ cpc' = [cpc EXCEPT ![c] = there]
           \/ /\ \A d \in Callers : cpc[d] = "out"
              /\ cpc' = [cpc EXCEPT ![c] = "drain"]
    BY DEF BeginCall, CRun, CSync, CDestroy, CSyncAll, CDone
  <1>2. cpc \in [Callers -> Places]
    BY DEF Typed, TypeOK, Places
  <1>3. \A v \in Workers : Holders(v)' = Holders(v)
    BY <1>1, <1>2 DEF Holders
  <1>4. Quitting' = Quitting
    BY <1>1, <1>2 DEF Quitting
  <1>5. Alone'
    BY <1>1, <1>2 DEF Alone, Closing, Open
  <1>6. \A v : InIdle(v)' = InIdle(v)
    BY <1>1 DEF InIdle
  <1>7. \A v \in Workers : Untouched(v)' = Untouched(v)
    BY <1>1, <1>3 DEF Untouched
  <1>8. OneOwner'
    BY <1>1, <1>3, <1>6 DEF OneOwner
  <1> QED
    BY <1>1, <1>3, <1>4, <1>5, <1>6, <1>7, <1>8 DEF Fresh, Looping, Working, Told, Quiet

LEMMA OwnershipNext == Typed /\ Ownership /\ [Next]_vars => Ownership'
  <1> SUFFICES ASSUME Typed, Ownership, [Next]_vars PROVE Ownership'
    OBVIOUS
  <1>1. ASSUME UNCHANGED <<wpc, job, end, idle, cpc, thr>>
        PROVE  Ownership'
    BY <1>1 DEF Ownership, Fresh, Looping, Working, Told, Alone, Quiet, OneOwner, Untouched,
                Holders, InIdle, Closing, Quitting
  <1>2. CASE SpuriousWakeup
    BY <1>1, <1>2 DEF SpuriousWakeup, callerVars
  <1>3. CASE UNCHANGED vars
    BY <1>1, <1>3 DEF vars
  <1> QED
    BY <1>2, <1>3, OwnershipWorker, OwnershipCall, OwnershipBegin DEF Next, Finished

LEMMA TypedAndOwned == Spec => [](Typed /\ Ownership)
  BY TypeInit, TypeNext, OwnershipInit, OwnershipNext, PTL DEF Spec

\* No job is lost between threads: however the threads interleave, a worker is
\* in the list once, or in the hands of one caller, or at work.
THEOREM OneOwnerHolds == Spec => []OneOwner
  <1>1. Typed /\ Ownership => OneOwner
    BY DEF Ownership
  <1> QED
    BY <1>1, TypedAndOwned, PTL

\* Nobody executes anything when sync_all returns or the destructor goes on.
THEOREM SyncAllIsQuiet == Spec => SyncAllMeansQuiet
  <1>1. Typed /\ Ownership /\ [Next]_vars =>
            \A c \in Callers : cpc[c] \in {"all", "drain"} /\ cpc'[c] # cpc[c]
                => \A w \in Workers : job[w] = NoJob
    <2> SUFFICES ASSUME Typed, Ownership, [Next]_vars,
                        NEW c \in Callers, cpc[c] \in {"all", "drain"}, cpc'[c] # cpc[c]
                 PROVE  \A w \in Workers : job[w] = NoJob
      OBVIOUS
    <2>1. CAll(c)
      <3>1. cpc \in [Callers -> Places]
        BY DEF Typed, TypeOK, Places
      <3>2. ASSUME NEW w \in Workers PROVE ~Worker(w)
        BY DEF Worker, WStart, WLoop, WAppend, WAwait, WTest, WRun, WUnlock, WDelete,
               WClear, WLeave, WReset, callerVars
      <3>3. ASSUME NEW d \in Callers, InCall(d)
            PROVE  CAll(c)
        BY <3>1, <3>3 DEF InCall, CGetIdle, CLock, CGive, CSyncReturn, CAll, CQuit, CReap, CAt
      <3>4. ASSUME NEW d \in Callers PROVE ~BeginCall(d)
        BY <3>1 DEF BeginCall, CRun, CSync, CDestroy, CSyncAll, CDone, CAt, callerVars
      <3>5. ~SpuriousWakeup /\ ~Finished /\ ~UNCHANGED vars
        BY DEF SpuriousWakeup, Finished, vars, callerVars
      <3> QED
        BY <3>2, <3>3, <3>4, <3>5 DEF Next
    <2>2. ~(Len(idle) < Cardinality(Workers))
      BY <2>1 DEF CAll
    <2>3. idle \in Seq(Workers) /\ Injective(idle)
      BY DEF Typed, TypeOK, Ownership, OneOwner, Injective
    <2> QED
      BY <2>2, <2>3, LongListIsFull, InIdleMeans DEF Ownership, OneOwner
  <1> QED
    BY <1>1, TypedAndOwned, PTL DEF Spec, SyncAllMeansQuiet

-----------------------------------------------------------------------------
(* Who has a job.  A locked job is in the hands of one caller, which is    *)
(* about to give it away, or of one worker, until that worker unlocks it.  *)

HandedOver(c, j) == cpc[c] = "give" /\ arg[c] = j
Carries(w, j) == job[w] = j /\ wpc[w] \in {"await", "test", "run", "unlock"}

Occupied == \A w \in Workers :
    job[w] # NoJob => wpc[w] \in {"await", "test", "run", "unlock", "delete", "clear"}
Leaving == \A w \in Workers : wpc[w] \in {"leave", "reset", "gone"} => w \in end
GivenByOne == \A j \in Jobs : \A c \in Callers : HandedOver(c, j) =>
    /\ j \in locked
    /\ \A d \in Callers : HandedOver(d, j) => d = c
    /\ \A w \in Workers : ~Carries(w, j)
CarriedByOne == \A j \in Jobs : \A w \in Workers : Carries(w, j) =>
    /\ j \in locked
    /\ \A v \in Workers : Carries(v, j) => v = w
LockedForOne == \A j \in locked :
    (\E c \in Callers : HandedOver(c, j)) \/ (\E w \in Workers : Carries(w, j))

Mutex == GivenByOne /\ CarriedByOne /\ LockedForOne
Custody == Occupied /\ Leaving /\ Mutex

LEMMA CustodyInit == Init => Custody
  BY PoolAssumption
  DEF Init, Custody, Occupied, Leaving, Mutex, GivenByOne, CarriedByOne, LockedForOne,
      HandedOver, Carries

\* A step that moves no job from one hand to another.
LEMMA MutexFrame ==
    ASSUME Mutex, locked' = locked,
           \A c \in Callers, j \in Jobs : HandedOver(c, j)' = HandedOver(c, j),
           \A w \in Workers, j \in Jobs : Carries(w, j)' = Carries(w, j),
           locked \subseteq Jobs
    PROVE  Mutex'
  BY DEF Mutex, GivenByOne, CarriedByOne, LockedForOne

LEMMA CustodyWorker ==
    ASSUME Typed, Ownership, Custody, NEW w \in Workers, Worker(w)
    PROVE  Custody'
  <1> USE DEF Custody, WAt, callerVars, history
  <1>1. /\ wpc \in [Workers -> {"start", "loop", "append", "await", "test", "run", "unlock",
                                "delete", "clear", "leave", "reset", "gone"}]
        /\ job \in [Workers -> Jobs \cup {NoJob}] /\ locked \subseteq Jobs
        /\ cpc' = cpc /\ arg' = arg /\ end' = end
    BY DEF Typed, TypeOK, Worker, WStart, WLoop, WAppend, WAwait, WTest, WRun, WUnlock,
           WDelete, WClear, WLeave, WReset
  <1>2. \A c \in Callers, j \in Jobs : HandedOver(c, j)' = HandedOver(c, j)
    BY <1>1 DEF HandedOver
  <1>3. ASSUME locked' = locked, job' = job,
               wpc' = wpc \/ \E there \in {"loop", "append", "await", "test", "run", "unlock",
                                "delete", "clear", "leave", "reset", "gone"} :
                             /\ wpc' = [wpc EXCEPT ![w] = there]
                             /\ \A j \in Jobs : Carries(w, j)' = Carries(w, j)
        PROVE  Mutex'
    <2>1. \A v \in Workers, j \in Jobs : Carries(v, j)' = Carries(v, j)
      BY <1>1, <1>3 DEF Carries
    <2> QED
      BY <1>1, <1>2, <1>3, <2>1, MutexFrame
  <1>4. NoJob \notin Jobs
    BY PoolAssumption
  <1>5. CASE WStart(w)
    <2>1. job[w] = NoJob
      BY <1>5 DEF WStart, Ownership, Fresh, Untouched
    <2>2. Mutex'
      BY <1>1, <1>3, <1>4, <1>5, <2>1 DEF WStart, Carries
    <2> QED
      BY <1>1, <1>5, <2>1, <2>2 DEF WStart, Occupied, Leaving
  <1>6. CASE WLoop(w)
    <2>1. job[w] = NoJob
      BY <1>6 DEF WLoop, Ownership, Looping, Untouched
    <2>2. Mutex'
      BY <1>1, <1>3, <1>4, <1>6, <2>1 DEF WLoop, Carries
    <2> QED
      BY <1>1, <1>6, <2>1, <2>2 DEF WLoop, Occupied, Leaving
  <1>7. CASE WAppend(w)
    <2>1. job[w] = NoJob
      BY <1>7 DEF WAppend, Ownership, Fresh, Untouched
    <2>2. /\ wpc' = [wpc EXCEPT ![w] = "await"] /\ wpc[w] = "append"
          /\ locked' = locked /\ job' = job
      BY <1>7 DEF WAppend
    <2>3. Mutex'
      BY <1>1, <1>3, <1>4, <2>1, <2>2 DEF Carries
    <2> QED
      BY <1>1, <2>1, <2>2, <2>3 DEF Occupied, Leaving
  <1>8. CASE WAwait(w)
    <2>1. Mutex'
      BY <1>1, <1>3, <1>8 DEF WAwait, Carries
    <2> QED
      BY <1>1, <1>8, <2>1 DEF WAwait, Occupied, Leaving
  <1>9. CASE WTest(w)
    <2>1. Mutex'
      BY <1>1, <1>3, <1>4, <1>9 DEF WTest, Carries
    <2> QED
      BY <1>1, <1>9, <2>1 DEF WTest, Occupied, Leaving
  <1>10. CASE WRun(w)
    <2>1. Mutex'
      BY <1>1, <1>3, <1>10 DEF WRun, Carries
    <2> QED
      BY <1>1, <1>10, <2>1 DEF WRun, Occupied, Leaving
  <1>11. CASE WUnlock(w)
    <2>1. job[w] \in Jobs /\ Carries(w, job[w])
      BY <1>1, <1>11 DEF WUnlock, Carries, Ownership, Working
    <2>2. /\ wpc' = [wpc EXCEPT ![w] = "delete"] /\ locked' = locked \ {job[w]}
          /\ job' = job /\ wpc[w] = "unlock"
      BY <1>11 DEF WUnlock
    <2>3. \A v \in Workers, j \in Jobs : Carries(v, j)' <=> Carries(v, j) /\ v # w
      BY <1>1, <2>2 DEF Carries
    <2>4. \A v \in Workers : Carries(v, job[w]) => v = w
      BY <2>1 DEF Mutex, CarriedByOne
    <2>5. \A c \in Callers : ~HandedOver(c, job[w])
      BY <2>1 DEF Mutex, GivenByOne
    <2>6. \A j \in Jobs : Carries(w, j) => j = job[w]
      BY DEF Carries
    <2>7. GivenByOne'
      BY <1>2, <2>1, <2>2, <2>3, <2>5 DEF Mutex, GivenByOne
    <2>8. CarriedByOne'
      BY <2>1, <2>2, <2>3, <2>4 DEF Mutex, CarriedByOne
    <2>9. LockedForOne'
      BY <1>1, <1>2, <2>2, <2>3, <2>6 DEF Mutex, LockedForOne
    <2> QED
      BY <1>1, <2>2, <2>7, <2>8, <2>9 DEF Mutex, Occupied, Leaving
  <1>12. CASE WDelete(w)
    <2>1. Mutex'
      BY <1>1, <1>3, <1>12 DEF WDelete, Carries
    <2> QED
      BY <1>1, <1>12, <2>1 DEF WDelete, Occupied, Leaving
  <1>13. CASE WClear(w)
    <2>1. \A v \in Workers, j \in Jobs : Carries(v, j)' = Carries(v, j)
      BY <1>1, <1>4, <1>13 DEF WClear, Carries
    <2>2. Mutex'
      BY <1>1, <1>2, <1>13, <2>1, MutexFrame DEF WClear
    <2> QED
      BY <1>1, <1>13, <2>2 DEF WClear, Occupied, Leaving
  <1>14. CASE WLeave(w)
    <2>1. Mutex'
      BY <1>1, <1>3, <1>14 DEF WLeave, Carries
    <2> QED
      BY <1>1, <1>14, <2>1 DEF WLeave, Occupied, Leaving
  <1>15. CASE WReset(w)
    <2>1. Mutex'
      BY <1>1, <1>3, <1>15 DEF WReset, Carries
    <2> QED
      BY <1>1, <1>15, <2>1 DEF WReset, Occupied, Leaving
  <1> QED
    BY <1>5, <1>6, <1>7, <1>8, <1>9, <1>10, <1>11, <1>12, <1>13, <1>14, <1>15 DEF Worker

LEMMA CustodyCall ==
    ASSUME Typed, Ownership, Custody, NEW c \in Callers, InCall(c)
    PROVE  Custody'
  <1> USE DEF Custody, CAt, workerVars, history
  <1>1. /\ cpc \in [Callers -> Places] /\ arg \in [Callers -> Jobs \cup {NoJob}]
        /\ locked \subseteq Jobs /\ job \in [Workers -> Jobs \cup {NoJob}]
        /\ NoJob \notin Jobs
    BY PoolAssumption DEF Typed, TypeOK, Places
  <1>2. ASSUME UNCHANGED <<wpc, job, end, locked>>,
               \A d \in Callers, j \in Jobs : HandedOver(d, j)' = HandedOver(d, j)
        PROVE  Custody'
    <2>1. \A w \in Workers, j \in Jobs : Carries(w, j)' = Carries(w, j)
      BY <1>2 DEF Carries
    <2>2. Mutex'
      BY <1>1, <1>2, <2>1, MutexFrame
    <2> QED
      BY <1>2, <2>2 DEF Occupied, Leaving
  <1>3. CASE CGetIdle(c)
    BY <1>1, <1>2, <1>3 DEF CGetIdle, HandedOver
  <1>4. CASE CLock(c)
    <2> DEFINE k == arg[c]
    <2>1. /\ cpc[c] = "lock" /\ cpc' = [cpc EXCEPT ![c] = "give"]
          /\ k \in Jobs /\ k \notin locked /\ locked' = locked \cup {k}
          /\ UNCHANGED <<wpc, job, end, arg>>
      BY <1>4 DEF CLock, Typed, ArgKnown
    <2>2. \A d \in Callers, j \in Jobs :
              HandedOver(d, j)' <=> HandedOver(d, j) \/ (d = c /\ j = k)
      BY <1>1, <2>1 DEF HandedOver
    <2>3. \A w \in Workers, j \in Jobs : Carries(w, j)' = Carries(w, j)
      BY <2>1 DEF Carries
    <2>4. \A d \in Callers : ~HandedOver(d, k)
      BY <2>1 DEF Mutex, GivenByOne
    <2>5. \A w \in Workers : ~Carries(w, k)
      BY <2>1 DEF Mutex, CarriedByOne
    <2> HIDE DEF k
    <2>6. GivenByOne'
      BY <2>1, <2>2, <2>3, <2>4, <2>5 DEF Mutex, GivenByOne
    <2>7. CarriedByOne'
      BY <2>1, <2>3 DEF Mutex, CarriedByOne
    <2>8. LockedForOne'
      BY <1>1, <2>1, <2>2, <2>3 DEF Mutex, LockedForOne
    <2> QED
      BY <2>1, <2>6, <2>7, <2>8 DEF Mutex, Occupied, Leaving
  <1>5. CASE CGive(c)
    <2> DEFINE w == thr[c]
               k == arg[c]
    <2>1. /\ cpc[c] = "give" /\ cpc' = [cpc EXCEPT ![c] = "out"]
          /\ arg' = [arg EXCEPT ![c] = NoJob]
          /\ job' = [job EXCEPT ![w] = k]
          /\ UNCHANGED <<wpc, end, locked>>
      BY <1>5 DEF CGive
    <2>2. w \in Workers /\ k \in Jobs /\ c \in Holders(w)
      BY <2>1 DEF Typed, TypeOK, Holders
    <2>3. w \notin end
      <3>1. Closing = {}
        BY <2>1 DEF Closing, Ownership, Alone
      <3>2. Quitting = {}
        BY <3>1 DEF Closing, Quitting
      <3> QED
        BY <2>2, <3>2 DEF Ownership, Told
    <2>4. job[w] = NoJob /\ wpc[w] = "await"
      <3>1. job[w] = NoJob
        BY <2>2 DEF Ownership, OneOwner
      <3>2. wpc[w] \notin {"start", "append", "loop", "run", "unlock", "delete", "clear"}
        BY <2>2 DEF Ownership, Fresh, Looping, Working, Untouched
      <3>3. wpc[w] \notin {"test", "leave", "reset", "gone"}
        BY <2>2, <2>3, <3>1 DEF Ownership, Told, Leaving
      <3> QED
        BY <2>2, <3>1, <3>2, <3>3 DEF Typed, TypeOK
    <2> HIDE DEF w, k
    <2>5. \A d \in Callers, j \in Jobs : HandedOver(d, j)' <=> HandedOver(d, j) /\ d # c
      BY <1>1, <2>1 DEF HandedOver
    <2>6. \A v \in Workers, j \in Jobs :
              Carries(v, j)' <=> Carries(v, j) \/ (v = w /\ j = k)
      BY <1>1, <2>1, <2>2, <2>4 DEF Carries
    <2>7. HandedOver(c, k) /\ \A j \in Jobs : HandedOver(c, j) => j = k
      BY <2>1 DEF HandedOver, k
    <2>8. GivenByOne'
      BY <2>1, <2>2, <2>5, <2>6, <2>7 DEF Mutex, GivenByOne
    <2>9. CarriedByOne'
      BY <2>1, <2>2, <2>5, <2>6, <2>7 DEF Mutex, GivenByOne, CarriedByOne
    <2>10. LockedForOne'
      BY <1>1, <2>1, <2>2, <2>5, <2>6, <2>7 DEF Mutex, LockedForOne
    <2>11. Occupied' /\ Leaving'
      BY <1>1, <2>1, <2>2, <2>4 DEF Occupied, Leaving
    <2> QED
      BY <2>8, <2>9, <2>10, <2>11 DEF Mutex
  <1>6. CASE CSyncReturn(c)
    BY <1>1, <1>2, <1>6 DEF CSyncReturn, HandedOver
  <1>7. CASE CAll(c)
    BY <1>1, <1>2, <1>7 DEF CAll, HandedOver
  <1>8. CASE CQuit(c)
    <2>1. \A w \in Workers : job[w] = NoJob
      BY <1>8 DEF CQuit, Ownership, Quitting, Quiet, OneOwner
    <2>2. UNCHANGED <<wpc, job, locked, arg>> /\ end \subseteq end'
      BY <1>1, <1>8, <2>1 DEF CQuit
    <2>3. \A d \in Callers, j \in Jobs : HandedOver(d, j)' = HandedOver(d, j)
      BY <1>1, <1>8 DEF CQuit, HandedOver
    <2>4. \A w \in Workers, j \in Jobs : Carries(w, j)' = Carries(w, j)
      BY <2>2 DEF Carries
    <2>5. Mutex'
      BY <1>1, <2>2, <2>3, <2>4, MutexFrame
    <2> QED
      BY <2>2, <2>5 DEF Occupied, Leaving
  <1>9. CASE CReap(c)
    BY <1>1, <1>2, <1>9 DEF CReap, HandedOver
  <1> QED
    BY <1>3, <1>4, <1>5, <1>6, <1>7, <1>8, <1>9 DEF InCall

LEMMA CustodyBegin ==
    ASSUME Typed, Custody, NEW c \in Callers, BeginCall(c)
    PROVE  Custody'
  <1> USE DEF CAt, workerVars, callerVars, history
  <1>1. cpc \in [Callers -> Places] /\ arg \in [Callers -> Jobs \cup {NoJob}] /\ locked \subseteq Jobs
    BY DEF Typed, TypeOK, Places
  <1>2. /\ cpc[c] = "out" /\ UNCHANGED <<wpc, job, end, locked>>
        /\ \/ UNCHANGED cpc
           \/ \E there \in {"get", "sync", "all", "drain"} : cpc' = [cpc EXCEPT ![c] = there]
        /\ arg' = arg \/ \E j \in Jobs : arg' = [arg EXCEPT ![c] = j]
    BY DEF BeginCall, CRun, CSync, CDestroy, CSyncAll, CDone
  <1>3. \A d \in Callers, j \in Jobs : HandedOver(d, j)' = HandedOver(d, j)
    BY <1>1, <1>2 DEF HandedOver
  <1>4. \A w \in Workers, j \in Jobs : Carries(w, j)' = Carries(w, j)
    BY <1>2 DEF Carries
  <1>5. Mutex'
    BY <1>1, <1>2, <1>3, <1>4, MutexFrame DEF Custody
  <1> QED
    BY <1>2, <1>5 DEF Custody, Occupied, Leaving

LEMMA CustodyNext == Typed /\ Ownership /\ Custody /\ [Next]_vars => Custody'
  <1> SUFFICES ASSUME Typed, Ownership, Custody, [Next]_vars PROVE Custody'
    OBVIOUS
  <1>1. ASSUME UNCHANGED <<wpc, job, end, cpc, arg, locked>>
        PROVE  Custody'
    BY <1>1 DEF Custody, Occupied, Leaving, Mutex, GivenByOne, CarriedByOne, LockedForOne,
                HandedOver, Carries
  <1>2. CASE SpuriousWakeup
    BY <1>1, <1>2 DEF SpuriousWakeup, callerVars
  <1>3. CASE UNCHANGED vars
    BY <1>1, <1>3 DEF vars
  <1> QED
    BY <1>2, <1>3, CustodyWorker, CustodyCall, CustodyBegin DEF Next, Finished

-----------------------------------------------------------------------------
(* What has been asked for and what has been done.  Every run that was     *)
(* asked for has been executed, or a caller is still looking for a worker  *)
(* or for the mutex on its behalf, or the mutex is locked for it.          *)

InFlight(j) == j \in locked /\ ~\E w \in Workers : wpc[w] = "unlock" /\ job[w] = j

Counted == \A j \in Jobs :
    /\ IsFiniteSet(TheRuns(j))
    /\ submitted[j] = ran[j] + Cardinality(TheRuns(j)) + (IF InFlight(j) THEN 1 ELSE 0)
SyncedQuiet == \A j \in synced : j \notin locked /\ TheRuns(j) = {}
HasRun == \A w \in Workers : wpc[w] \in {"unlock", "delete", "clear"} => ran[job[w]] > 0

Books == Counted /\ SyncedQuiet /\ HasRun

LEMMA BooksInit == Init => Books
  <1> SUFFICES ASSUME Init PROVE Books
    OBVIOUS
  <1>1. \A j \in Jobs : TheRuns(j) = {} /\ ~InFlight(j)
    BY DEF Init, TheRuns, InFlight
  <1>2. IsFiniteSet({}) /\ Cardinality({}) = 0
    BY FS_EmptySet
  <1>3. \A j \in Jobs : IsFiniteSet(TheRuns(j)) /\ Cardinality(TheRuns(j)) = 0
    BY <1>1, <1>2
  <1>4. Counted
    BY <1>1, <1>3 DEF Init, Counted
  <1> QED
    BY <1>4 DEF Init, Books, SyncedQuiet, HasRun

\* A step that asks for no run, executes none and takes none on.
LEMMA CountedFrame ==
    ASSUME Counted, UNCHANGED <<submitted, ran>>,
           \A j \in Jobs : TheRuns(j)' = TheRuns(j) /\ InFlight(j)' = InFlight(j)
    PROVE  Counted'
  BY DEF Counted

LEMMA BooksWorker ==
    ASSUME Typed, Ownership, Custody, Books, NEW w \in Workers, Worker(w)
    PROVE  Books'
  <1> USE DEF Books, WAt, callerVars, history
  <1>1. /\ wpc \in [Workers -> {"start", "loop", "append", "await", "test", "run", "unlock",
                                "delete", "clear", "leave", "reset", "gone"}]
        /\ job \in [Workers -> Jobs \cup {NoJob}] /\ locked \subseteq Jobs
        /\ ran \in [Jobs -> Nat] /\ submitted \in [Jobs -> Nat] /\ synced \subseteq Jobs
        /\ cpc' = cpc /\ arg' = arg /\ submitted' = submitted /\ synced' = synced
        /\ locked' \subseteq locked
    BY DEF Typed, TypeOK, Worker, WStart, WLoop, WAppend, WAwait, WTest, WRun, WUnlock,
           WDelete, WClear, WLeave, WReset
  <1>2. \A j \in Jobs : TheRuns(j)' = TheRuns(j)
    BY <1>1 DEF TheRuns
  <1>3. SyncedQuiet'
    BY <1>1, <1>2 DEF SyncedQuiet
  <1>4. CASE WRun(w)
    <2> DEFINE k == job[w]
    <2>1. /\ wpc[w] = "run" /\ wpc' = [wpc EXCEPT ![w] = "unlock"]
          /\ ran' = [ran EXCEPT ![k] = @ + 1]
          /\ UNCHANGED <<job, locked>>
      BY <1>4 DEF WRun
    <2>2. k \in Jobs /\ Carries(w, k)
      BY <1>1, <2>1 DEF Carries, Ownership, Working
    <2>3. k \in locked /\ \A v \in Workers : Carries(v, k) => v = w
      BY <2>2 DEF Custody, Mutex, CarriedByOne
    <2>4. InFlight(k)
      BY <2>1, <2>3 DEF InFlight, Carries
    <2>5. \A j \in Jobs : InFlight(j)' <=> InFlight(j) /\ j # k
      BY <1>1, <2>1, <2>2 DEF InFlight
    <2> HIDE DEF k
    <2>6. \A j \in Jobs : ran'[j] = IF j = k THEN ran[j] + 1 ELSE ran[j]
      BY <1>1, <2>1
    <2>7. ASSUME NEW j \in Jobs
          PROVE  /\ IsFiniteSet(TheRuns(j)')
                 /\ submitted[j] = ran'[j] + Cardinality(TheRuns(j)') + (IF InFlight(j)' THEN 1 ELSE 0)
      <3> DEFINE n == Cardinality(TheRuns(j))
      <3>1. IsFiniteSet(TheRuns(j)) /\ TheRuns(j)' = TheRuns(j)
        BY <1>2 DEF Counted
      <3>2. n \in Nat /\ ran[j] \in Nat
        BY <1>1, <3>1, FS_CardinalityType
      <3>3. submitted[j] = ran[j] + n + (IF InFlight(j) THEN 1 ELSE 0)
        BY DEF Counted
      <3> HIDE DEF n
      <3>4. submitted[j] = ran'[j] + n + (IF InFlight(j)' THEN 1 ELSE 0)
        BY <2>4, <2>5, <2>6, <3>2, <3>3
      <3> QED
        BY <3>1, <3>4 DEF n
    <2>8. Counted'
      BY <1>1, <2>7 DEF Counted
    <2>9. HasRun'
      BY <1>1, <2>1, <2>2, <2>6 DEF HasRun, k, Ownership, Working
    <2> QED
      BY <1>3, <2>8, <2>9
  <1>5. CASE WUnlock(w)
    <2> DEFINE k == job[w]
    <2>1. /\ wpc[w] = "unlock" /\ wpc' = [wpc EXCEPT ![w] = "delete"]
          /\ locked' = locked \ {k}
          /\ UNCHANGED <<job, ran>>
      BY <1>5 DEF WUnlock
    <2>2. \A j \in Jobs : InFlight(j)' = InFlight(j)
      BY <1>1, <2>1 DEF InFlight
    <2>3. Counted'
      BY <1>1, <1>2, <2>1, <2>2, CountedFrame
    <2>4. HasRun'
      BY <1>1, <2>1 DEF HasRun
    <2> QED
      BY <1>3, <2>3, <2>4
  <1>6. ASSUME UNCHANGED <<ran, locked>>,
               \A v \in Workers : wpc[v] = "unlock" \/ wpc'[v] = "unlock" =>
                   wpc'[v] = wpc[v] /\ job'[v] = job[v],
               \A v \in Workers : wpc'[v] \in {"delete", "clear"} =>
                   wpc[v] \in {"delete", "clear"} /\ job'[v] = job[v]
        PROVE  Books'
    <2>1. \A j \in Jobs : InFlight(j)' = InFlight(j)
      BY <1>6 DEF InFlight
    <2>2. Counted'
      BY <1>1, <1>2, <1>6, <2>1, CountedFrame
    <2>3. HasRun'
      BY <1>6 DEF HasRun
    <2> QED
      BY <1>3, <2>2, <2>3
  <1>7. CASE WStart(w) \/ WLoop(w) \/ WAwait(w) \/ WTest(w)
    BY <1>1, <1>6, <1>7 DEF WStart, WLoop, WAwait, WTest
  <1>8. CASE WAppend(w)
    <2>1. wpc' = [wpc EXCEPT ![w] = "await"] /\ wpc[w] = "append" /\ UNCHANGED <<ran, locked, job>>
      BY <1>8 DEF WAppend
    <2> QED
      BY <1>1, <1>6, <2>1
  <1>9. CASE WDelete(w) \/ WClear(w) \/ WLeave(w) \/ WReset(w)
    BY <1>1, <1>6, <1>9 DEF WDelete, WClear, WLeave, WReset
  <1> QED
    BY <1>4, <1>5, <1>7, <1>8, <1>9 DEF Worker

\* One caller more or less among those whose run has not been taken on.
LEMMA OneRunMore ==
    ASSUME NEW S, IsFiniteSet(S), NEW c, c \notin S
    PROVE  /\ IsFiniteSet(S \cup {c})
           /\ Cardinality(S) \in Nat /\ Cardinality(S \cup {c}) = Cardinality(S) + 1
  BY FS_AddElement, FS_CardinalityType

LEMMA OneRunLess ==
    ASSUME NEW S, IsFiniteSet(S), NEW c \in S
    PROVE  /\ IsFiniteSet(S \ {c})
           /\ Cardinality(S) \in Nat /\ Cardinality(S \ {c}) = Cardinality(S) - 1
  BY FS_RemoveElement, FS_CardinalityType

LEMMA BooksCall ==
    ASSUME Typed, Ownership, Custody, Books, NEW c \in Callers, InCall(c)
    PROVE  Books'
  <1> USE DEF Books, CAt, workerVars, history
  <1>1. /\ cpc \in [Callers -> Places] /\ arg \in [Callers -> Jobs \cup {NoJob}]
        /\ locked \subseteq Jobs /\ job \in [Workers -> Jobs \cup {NoJob}]
        /\ ran \in [Jobs -> Nat] /\ submitted \in [Jobs -> Nat] /\ synced \subseteq Jobs
        /\ NoJob \notin Jobs
    BY PoolAssumption DEF Typed, TypeOK, Places
  <1>2. ASSUME UNCHANGED <<wpc, job, locked, submitted, ran, synced>>,
               \A j \in Jobs : TheRuns(j)' = TheRuns(j)
        PROVE  Books'
    <2>1. \A j \in Jobs : InFlight(j)' = InFlight(j)
      BY <1>2 DEF InFlight
    <2>2. Counted'
      BY <1>2, <2>1, CountedFrame
    <2> QED
      BY <1>1, <1>2, <2>2 DEF SyncedQuiet, HasRun
  <1>3. CASE CGetIdle(c)
    BY <1>1, <1>2, <1>3 DEF CGetIdle, TheRuns
  <1>4. CASE CLock(c)
    <2>0. PICK k \in Jobs : k = arg[c]
      BY <1>4 DEF CLock, Typed, ArgKnown
    <2>1. /\ cpc[c] = "lock" /\ cpc' = [cpc EXCEPT ![c] = "give"]
          /\ k \notin locked /\ locked' = locked \cup {k}
          /\ UNCHANGED <<wpc, job, arg, submitted, ran, synced>>
      BY <1>4, <2>0 DEF CLock
    <2>2. c \in TheRuns(k)
      BY <2>0, <2>1 DEF TheRuns
    <2>3. TheRuns(k)' = TheRuns(k) \ {c} /\ \A j \in Jobs \ {k} : TheRuns(j)' = TheRuns(j)
      BY <1>1, <2>0, <2>1 DEF TheRuns
    <2>4. ~\E w \in Workers : wpc[w] = "unlock" /\ job[w] = k
      BY <2>1 DEF Custody, Mutex, CarriedByOne, Carries
    <2>5. ~InFlight(k) /\ InFlight(k)' /\ \A j \in Jobs \ {k} : InFlight(j)' = InFlight(j)
      BY <2>1, <2>4 DEF InFlight
    <2>6. ASSUME NEW j \in Jobs
          PROVE  /\ IsFiniteSet(TheRuns(j)')
                 /\ submitted[j] = ran[j] + Cardinality(TheRuns(j)') + (IF InFlight(j)' THEN 1 ELSE 0)
      <3>1. CASE j # k
        BY <2>3, <2>5, <3>1 DEF Counted
      <3>2. CASE j = k
        <4>1. /\ IsFiniteSet(TheRuns(k)') /\ Cardinality(TheRuns(k)) \in Nat
              /\ Cardinality(TheRuns(k)') = Cardinality(TheRuns(k)) - 1
          BY <2>1, <2>2, <2>3, OneRunLess DEF Counted
        <4>2. submitted[k] = ran[k] + Cardinality(TheRuns(k)) /\ ran[k] \in Nat
          BY <1>1, <2>1, <2>5, <4>1 DEF Counted
        <4>3. submitted[k] = ran[k] + Cardinality(TheRuns(k)') + 1
          BY <4>1, <4>2
        <4> QED
          BY <2>5, <3>2, <4>1, <4>3
      <3> QED
        BY <3>1, <3>2
    <2>7. Counted'
      BY <2>1, <2>6 DEF Counted
    <2>8. SyncedQuiet'
      BY <1>1, <2>1, <2>2, <2>3 DEF SyncedQuiet
    <2> QED
      BY <2>1, <2>7, <2>8 DEF HasRun
  <1>5. CASE CGive(c)
    <2>1. /\ cpc[c] = "give" /\ cpc' = [cpc EXCEPT ![c] = "out"]
          /\ arg' = [arg EXCEPT ![c] = NoJob]
          /\ job' = [job EXCEPT ![thr[c]] = arg[c]]
          /\ UNCHANGED <<wpc, locked, submitted, ran, synced>>
      BY <1>5 DEF CGive
    <2>2. c \in Holders(thr[c]) /\ thr[c] \in Workers
      BY <2>1 DEF Typed, TypeOK, Holders
    <2>3. wpc[thr[c]] \notin {"unlock", "delete", "clear"}
      BY <2>2 DEF Ownership, Working
    <2>4. \A j \in Jobs : InFlight(j)' = InFlight(j)
      BY <1>1, <2>1, <2>2, <2>3 DEF InFlight
    <2>5. \A j \in Jobs : TheRuns(j)' = TheRuns(j)
      BY <1>1, <2>1 DEF TheRuns
    <2>6. Counted'
      BY <2>1, <2>4, <2>5, CountedFrame
    <2>7. HasRun'
      BY <1>1, <2>1, <2>2, <2>3 DEF HasRun
    <2> QED
      BY <1>1, <2>1, <2>5, <2>6, <2>7 DEF SyncedQuiet
  <1>6. CASE CSyncReturn(c)
    <2> DEFINE k == arg[c]
    <2>1. /\ cpc[c] = "sync" /\ cpc' = [cpc EXCEPT ![c] = "out"]
          /\ k \in Jobs /\ k \notin locked
          /\ arg' = [arg EXCEPT ![c] = NoJob]
          /\ UNCHANGED <<wpc, job, locked, submitted, ran>>
      BY <1>6 DEF CSyncReturn, Typed, ArgKnown
    <2>2. \A j \in Jobs : TheRuns(j)' = TheRuns(j)
      BY <1>1, <2>1 DEF TheRuns
    <2>3. \A j \in Jobs : InFlight(j)' = InFlight(j)
      BY <2>1 DEF InFlight
    <2>4. Counted'
      BY <2>1, <2>2, <2>3, CountedFrame
    <2>5. synced' = synced \/ (synced' = synced \cup {k} /\ TheRuns(k) = {})
      BY <1>6 DEF CSyncReturn, TheRuns
    <2>6. SyncedQuiet'
      BY <1>1, <2>1, <2>2, <2>5 DEF SyncedQuiet
    <2> QED
      BY <2>1, <2>4, <2>6 DEF HasRun
  <1>7. CASE CAll(c)
    BY <1>1, <1>2, <1>7 DEF CAll, TheRuns
  <1>8. CASE CQuit(c)
    <2>1. \A w \in Workers : job[w] = NoJob
      BY <1>8 DEF CQuit, Ownership, Quitting, Quiet, OneOwner
    <2>2. UNCHANGED <<wpc, job, locked, submitted, ran, synced>>
      BY <1>1, <1>8, <2>1 DEF CQuit
    <2>3. \A j \in Jobs : TheRuns(j)' = TheRuns(j)
      BY <1>1, <1>8 DEF CQuit, TheRuns
    <2> QED
      BY <1>2, <2>2, <2>3
  <1>9. CASE CReap(c)
    BY <1>1, <1>2, <1>9 DEF CReap, TheRuns
  <1> QED
    BY <1>3, <1>4, <1>5, <1>6, <1>7, <1>8, <1>9 DEF InCall

LEMMA BooksBegin ==
    ASSUME Typed, Books, NEW c \in Callers, BeginCall(c)
    PROVE  Books'
  <1> USE DEF Books, CAt, workerVars, callerVars, history
  <1>1. /\ cpc \in [Callers -> Places] /\ arg \in [Callers -> Jobs \cup {NoJob}]
        /\ ran \in [Jobs -> Nat] /\ submitted \in [Jobs -> Nat] /\ synced \subseteq Jobs
    BY DEF Typed, TypeOK, Places
  <1>2. /\ cpc[c] = "out" /\ UNCHANGED <<wpc, job, locked, ran>>
        /\ synced' \subseteq synced
    BY DEF BeginCall, CRun, CSync, CDestroy, CSyncAll, CDone
  <1>3. \A j \in Jobs : InFlight(j)' = InFlight(j)
    BY <1>2 DEF InFlight
  <1>4. HasRun'
    BY <1>2 DEF HasRun
  <1>5. ASSUME UNCHANGED submitted, \A j \in Jobs : TheRuns(j)' = TheRuns(j)
        PROVE  Books'
    BY <1>1, <1>2, <1>3, <1>4, <1>5, CountedFrame DEF SyncedQuiet
  <1>6. ASSUME NEW k \in Jobs, CRun(c, k)
        PROVE  Books'
    <2>1. /\ cpc' = [cpc EXCEPT ![c] = "get"] /\ arg' = [arg EXCEPT ![c] = k]
          /\ submitted' = [submitted EXCEPT ![k] = @ + 1]
          /\ synced' = synced \ {k}
      BY <1>6 DEF CRun
    <2>2. \A j \in Jobs : c \notin TheRuns(j)
      BY <1>2 DEF TheRuns
    <2>3. \A j \in Jobs : TheRuns(j)' = IF j = k THEN TheRuns(k) \cup {c} ELSE TheRuns(j)
      BY <1>1, <1>2, <2>1 DEF TheRuns
    <2>4. ASSUME NEW j \in Jobs
          PROVE  /\ IsFiniteSet(TheRuns(j)')
                 /\ submitted'[j] = ran[j] + Cardinality(TheRuns(j)') + (IF InFlight(j)' THEN 1 ELSE 0)
      <3>1. CASE j # k
        BY <1>1, <1>3, <2>1, <2>3, <3>1 DEF Counted
      <3>2. CASE j = k
        <4>1. /\ IsFiniteSet(TheRuns(k)') /\ Cardinality(TheRuns(k)) \in Nat
              /\ Cardinality(TheRuns(k)') = Cardinality(TheRuns(k)) + 1
          BY <2>2, <2>3, OneRunMore DEF Counted
        <4>2. submitted'[k] = submitted[k] + 1 /\ ran[k] \in Nat
          BY <1>1, <2>1
        <4>3. submitted[k] = ran[k] + Cardinality(TheRuns(k)) + (IF InFlight(k) THEN 1 ELSE 0)
          BY DEF Counted
        <4>4. submitted'[k] = ran[k] + Cardinality(TheRuns(k)') + (IF InFlight(k)' THEN 1 ELSE 0)
          BY <1>3, <4>1, <4>2, <4>3
        <4> QED
          BY <3>2, <4>1, <4>4
      <3> QED
        BY <3>1, <3>2
    <2>5. Counted'
      BY <1>2, <2>4 DEF Counted
    <2>6. SyncedQuiet'
      BY <1>1, <1>2, <2>1, <2>3 DEF SyncedQuiet
    <2> QED
      BY <1>4, <2>5, <2>6
  <1>7. ASSUME NEW k \in Jobs, CSync(c, k) \/ CDestroy(c, k)
        PROVE  Books'
    <2>1. UNCHANGED submitted /\ (UNCHANGED <<cpc, arg>> \/
              (cpc' = [cpc EXCEPT ![c] = "sync"] /\ arg' = [arg EXCEPT ![c] = k]))
      BY <1>7 DEF CSync, CDestroy
    <2>2. \A j \in Jobs : TheRuns(j)' = TheRuns(j)
      BY <1>1, <1>2, <2>1 DEF TheRuns
    <2> QED
      BY <1>5, <2>1, <2>2
  <1>8. CASE CSyncAll(c) \/ CDone(c)
    <2>1. \A j \in Jobs : TheRuns(j)' = TheRuns(j)
      BY <1>1, <1>2, <1>8 DEF CSyncAll, CDone, TheRuns
    <2> QED
      BY <1>5, <1>8, <2>1 DEF CSyncAll, CDone
  <1> QED
    BY <1>6, <1>7, <1>8 DEF BeginCall

LEMMA BooksNext == Typed /\ Ownership /\ Custody /\ Books /\ [Next]_vars => Books'
  <1> SUFFICES ASSUME Typed, Ownership, Custody, Books, [Next]_vars PROVE Books'
    OBVIOUS
  <1>1. ASSUME UNCHANGED <<wpc, job, cpc, arg, locked, submitted, ran, synced>>
        PROVE  Books'
    <2>1. \A j \in Jobs : TheRuns(j)' = TheRuns(j) /\ InFlight(j)' = InFlight(j)
      BY <1>1 DEF TheRuns, InFlight
    <2>2. synced \subseteq Jobs
      BY DEF Typed, TypeOK
    <2> QED
      BY <1>1, <2>1, <2>2, CountedFrame DEF Books, SyncedQuiet, HasRun
  <1>2. CASE SpuriousWakeup
    BY <1>1, <1>2 DEF SpuriousWakeup, callerVars, history
  <1>3. CASE UNCHANGED vars
    BY <1>1, <1>3 DEF vars
  <1> QED
    BY <1>2, <1>3, BooksWorker, BooksCall, BooksBegin DEF Next, Finished

LEMMA BooksAreRight == Spec => [](Typed /\ Ownership /\ Custody /\ Books)
  BY TypedAndOwned, CustodyInit, CustodyNext, BooksInit, BooksNext, PTL DEF Spec

\* When sync returns, the job has been executed as often as it was passed to
\* run, whatever the other threads do.
THEOREM SyncIsRightHolds == Spec => []SyncIsRight
  <1>1. Typed /\ Ownership /\ Custody /\ Books => SyncIsRight
    <2> SUFFICES ASSUME Typed, Books, NEW j \in synced
                 PROVE  ran[j] = submitted[j]
      BY DEF Typed, SyncIsRight, SyncMeansDone
    <2>1. j \in Jobs /\ ran[j] \in Nat /\ TheRuns(j) = {} /\ ~InFlight(j)
      BY DEF Typed, TypeOK, Books, SyncedQuiet, InFlight
    <2>2. Cardinality(TheRuns(j)) = 0
      BY <2>1, FS_EmptySet
    <2> QED
      BY <2>1, <2>2 DEF Books, Counted
  <1> QED
    BY <1>1, BooksAreRight, PTL

-----------------------------------------------------------------------------
(* What is used has not been destroyed.  A job the pool deletes is handed  *)
(* over once and waited for by nobody; a thread is deleted when it has     *)
(* given back its own mutex, which it holds until it leaves its loop.      *)

DelOnce == \A j \in DelJobs :
    /\ submitted[j] <= 1
    /\ submitted[j] = 1 => j \notin synced /\ \A c \in Callers : cpc[c] = "sync" => arg[c] # j
    /\ \A v, w \in Workers : job[v] = j /\ job[w] = j => v = w
Held == \A w \in Workers : wpc[w] \notin {"start", "reset", "gone"} => w \in delHeld

Lifetimes == DelOnce /\ JobsAlive /\ Held /\ DeletedHasLeft

LEMMA LifetimesInit == Init => Lifetimes
  BY PoolAssumption DEF Init, Lifetimes, DelOnce, JobsAlive, Held, DeletedHasLeft

\* Once a job that the pool deletes has been executed, nobody else has it.
LEMMA ExecutedForGood ==
    ASSUME Typed, Custody, Books, DelOnce, NEW j \in DelJobs, ran[j] > 0
    PROVE  submitted[j] = 1 /\ TheRuns(j) = {} /\ ~InFlight(j)
  <1> DEFINE n == Cardinality(TheRuns(j))
  <1>1. /\ j \in Jobs /\ ran[j] \in Nat /\ submitted[j] \in Nat /\ submitted[j] <= 1
        /\ IsFiniteSet(TheRuns(j))
    BY PoolAssumption DEF Typed, TypeOK, DelOnce, Books, Counted
  <1>2. n \in Nat
    BY <1>1, FS_CardinalityType
  <1>3. submitted[j] = ran[j] + n + (IF InFlight(j) THEN 1 ELSE 0)
    BY <1>1 DEF Books, Counted
  <1>4. submitted[j] = 1 /\ n = 0 /\ ~InFlight(j)
    <2> HIDE DEF n
    <2> QED
      BY <1>1, <1>2, <1>3
  <1> QED
    BY <1>1, <1>4, FS_EmptySet

LEMMA LifetimesWorker ==
    ASSUME Typed, Ownership, Custody, Books, Lifetimes, NEW w \in Workers, Worker(w)
    PROVE  Lifetimes'
  <1> USE DEF WAt, callerVars, history
  <1>1. /\ wpc \in [Workers -> {"start", "loop", "append", "await", "test", "run", "unlock",
                                "delete", "clear", "leave", "reset", "gone"}]
        /\ job \in [Workers -> Jobs \cup {NoJob}] /\ locked \subseteq Jobs
        /\ NoJob \notin DelJobs /\ NoJob \notin Jobs /\ DelJobs \subseteq Jobs
        /\ freed \subseteq Workers
    BY PoolAssumption DEF Typed, TypeOK
  <1>2. /\ UNCHANGED <<cpc, arg, submitted, synced, freed>>
        /\ locked' \subseteq locked
        /\ \A v \in Workers \ {w} : wpc'[v] = wpc[v]
        /\ \A v \in Workers : job'[v] = job[v] \/ job'[v] = NoJob
    BY <1>1 DEF Worker, WStart, WLoop, WAppend, WAwait, WTest, WRun, WUnlock, WDelete,
                WClear, WLeave, WReset
  <1>3. DelOnce'
    BY <1>1, <1>2 DEF Lifetimes, DelOnce
  <1>4. Held' /\ DeletedHasLeft'
    <2>1. wpc[w] \notin {"start", "reset", "gone"} => w \notin freed /\ w \in delHeld
      BY DEF Lifetimes, Held, DeletedHasLeft
    <2>2. wpc[w] = "start" => w \notin freed
      BY DEF Lifetimes, DeletedHasLeft
    <2>3. CASE WStart(w)
      BY <1>1, <1>2, <2>2, <2>3 DEF WStart, Lifetimes, Held, DeletedHasLeft
    <2>4. CASE WLeave(w)
      BY <1>1, <1>2, <2>1, <2>4 DEF WLeave, Lifetimes, Held, DeletedHasLeft
    <2>5. CASE WReset(w)
      BY <1>1, <1>2, <2>5 DEF WReset, Lifetimes, Held, DeletedHasLeft
    <2>6. CASE UNCHANGED delHeld /\ wpc[w] \notin {"start", "reset", "gone"}
      BY <1>1, <1>2, <2>1, <2>6 DEF Lifetimes, Held, DeletedHasLeft
    <2> QED
      BY <2>3, <2>4, <2>5, <2>6 DEF Worker, WLoop, WAppend, WAwait, WTest, WRun, WUnlock,
                                    WDelete, WClear
  <1>5. JobsAlive'
    <2> USE DEF Lifetimes, JobsAlive
    <2>1. CASE WDelete(w) /\ job[w] \in DelJobs
      <3> DEFINE k == job[w]
      <3>1. /\ wpc[w] = "delete" /\ wpc' = [wpc EXCEPT ![w] = "clear"]
            /\ destroyed' = destroyed \cup {k}
            /\ UNCHANGED <<job, locked>>
        BY <2>1 DEF WDelete
      <3>2. ran[k] > 0
        BY <3>1 DEF Books, HasRun
      <3>3. submitted[k] = 1 /\ TheRuns(k) = {} /\ ~InFlight(k)
        BY <2>1, <3>2, ExecutedForGood
      <3>4. \A v \in Workers : job[v] = k => v = w
        BY <2>1 DEF DelOnce
      <3>5. k \notin locked
        BY <3>1, <3>3, <3>4 DEF InFlight
      <3>6. \A c \in Callers : cpc[c] \in {"get", "lock", "give", "sync"} => arg[c] # k
        <4>1. \A c \in Callers : cpc[c] \in {"get", "lock"} => arg[c] # k
          BY <3>3 DEF TheRuns
        <4>2. \A c \in Callers : cpc[c] = "give" => arg[c] # k
          BY <1>1, <2>1, <3>5 DEF Custody, Mutex, GivenByOne, HandedOver
        <4>3. \A c \in Callers : cpc[c] = "sync" => arg[c] # k
          BY <2>1, <3>3 DEF DelOnce
        <4> QED
          BY <4>1, <4>2, <4>3
      <3> HIDE DEF k
      <3>7. \A v \in Workers : wpc'[v] \in {"run", "unlock", "delete"} => wpc'[v] = wpc[v] /\ v # w
        BY <1>1, <3>1
      <3> QED
        BY <1>2, <3>1, <3>4, <3>5, <3>6, <3>7
    <2>2. CASE WDelete(w) /\ job[w] \notin DelJobs
      BY <1>1, <1>2, <2>2 DEF WDelete
    <2>3. CASE WTest(w)
      <3>1. wpc'[w] = "run" => job[w] \in locked
        <4>1. wpc'[w] = "run" => job[w] \in Jobs /\ Carries(w, job[w])
          BY <1>1, <2>3 DEF WTest, Carries
        <4> QED
          BY <4>1 DEF Custody, Mutex, CarriedByOne
      <3>2. UNCHANGED <<job, locked, destroyed>> /\ wpc'[w] \in {"run", "loop"}
        BY <1>1, <2>3 DEF WTest
      <3> QED
        BY <1>2, <3>1, <3>2
    <2>4. CASE WRun(w) \/ WUnlock(w)
      BY <1>1, <1>2, <2>4 DEF WRun, WUnlock
    <2>5. CASE WStart(w) \/ WLoop(w) \/ WAwait(w) \/ WClear(w) \/ WLeave(w) \/ WReset(w)
      BY <1>1, <1>2, <2>5 DEF WStart, WLoop, WAwait, WClear, WLeave, WReset
    <2>6. CASE WAppend(w)
      <3>1. wpc' = [wpc EXCEPT ![w] = "await"] /\ UNCHANGED <<job, locked, destroyed>>
        BY <2>6 DEF WAppend
      <3> QED
        BY <1>1, <1>2, <3>1
    <2> QED
      BY <2>1, <2>2, <2>3, <2>4, <2>5, <2>6 DEF Worker
  <1> QED
    BY <1>3, <1>4, <1>5 DEF Lifetimes

LEMMA LifetimesCall ==
    ASSUME Typed, Ownership, Custody, Books, Lifetimes, NEW c \in Callers, InCall(c)
    PROVE  Lifetimes'
  <1> USE DEF CAt, workerVars, history
  <1>1. /\ cpc \in [Callers -> Places] /\ arg \in [Callers -> Jobs \cup {NoJob}]
        /\ locked \subseteq Jobs /\ job \in [Workers -> Jobs \cup {NoJob}]
        /\ NoJob \notin Jobs /\ DelJobs \subseteq Jobs
    BY PoolAssumption DEF Typed, TypeOK, Places
  <1>2. UNCHANGED <<wpc, submitted, destroyed>>
    BY DEF InCall, CGetIdle, CLock, CGive, CSyncReturn, CAll, CQuit, CReap
  <1>3. ASSUME UNCHANGED <<delHeld, freed>>
        PROVE  Held' /\ DeletedHasLeft'
    BY <1>2, <1>3 DEF Lifetimes, Held, DeletedHasLeft
  <1>4. ASSUME UNCHANGED <<job, synced>>,
               \A d \in Callers : cpc'[d] = "sync" => cpc[d] = "sync" /\ arg'[d] = arg[d]
        PROVE  DelOnce'
    BY <1>2, <1>4 DEF Lifetimes, DelOnce
  <1>5. ASSUME UNCHANGED <<job, locked>>,
               \A d \in Callers : cpc'[d] \in {"get", "lock", "give", "sync"} =>
                   cpc[d] \in {"get", "lock", "give", "sync"} /\ arg'[d] = arg[d]
        PROVE  JobsAlive'
    BY <1>2, <1>5 DEF Lifetimes, JobsAlive
  <1>6. CASE CGetIdle(c) \/ CAll(c)
    BY <1>1, <1>3, <1>4, <1>5, <1>6 DEF CGetIdle, CAll, Lifetimes
  <1>7. CASE CLock(c)
    <2>1. Held' /\ DeletedHasLeft' /\ DelOnce'
      BY <1>1, <1>3, <1>4, <1>7 DEF CLock
    <2>2. JobsAlive'
      BY <1>1, <1>2, <1>7 DEF CLock, Lifetimes, JobsAlive
    <2> QED
      BY <2>1, <2>2 DEF Lifetimes
  <1>8. CASE CGive(c)
    <2> DEFINE w == thr[c]
               k == arg[c]
    <2>1. /\ cpc[c] = "give" /\ cpc' = [cpc EXCEPT ![c] = "out"]
          /\ arg' = [arg EXCEPT ![c] = NoJob]
          /\ job' = [job EXCEPT ![w] = k]
          /\ UNCHANGED <<delHeld, freed, locked, synced>>
      BY <1>8 DEF CGive
    <2>2. w \in Workers /\ k \in Jobs /\ c \in Holders(w) /\ HandedOver(c, k)
      BY <2>1 DEF Typed, TypeOK, Holders, HandedOver
    <2>3. wpc[w] \notin {"run", "unlock", "delete"}
      BY <2>2 DEF Ownership, Working
    <2>4. ASSUME k \in DelJobs, NEW v \in Workers
          PROVE  job[v] # k
      <3>1. SUFFICES ASSUME job[v] = k PROVE FALSE
        OBVIOUS
      <3>2. k \in locked /\ \A u \in Workers : ~Carries(u, k)
        BY <2>2 DEF Custody, Mutex, GivenByOne
      <3>3. InFlight(k)
        BY <3>2 DEF InFlight, Carries
      <3>4. wpc[v] \in {"delete", "clear"}
        BY <1>1, <2>2, <3>1, <3>2 DEF Custody, Occupied, Carries
      <3>5. ran[k] > 0
        BY <3>1, <3>4 DEF Books, HasRun
      <3> QED
        BY <2>4, <3>3, <3>5, ExecutedForGood DEF Lifetimes
    <2>5. Held' /\ DeletedHasLeft'
      BY <1>3, <2>1
    <2> HIDE DEF w, k
    <2>6. DelOnce'
      BY <1>1, <1>2, <2>1, <2>2, <2>4 DEF Lifetimes, DelOnce
    <2>7. JobsAlive'
      BY <1>1, <1>2, <2>1, <2>2, <2>3 DEF Lifetimes, JobsAlive
    <2> QED
      BY <2>5, <2>6, <2>7 DEF Lifetimes
  <1>9. CASE CSyncReturn(c)
    <2>1. Held' /\ DeletedHasLeft' /\ JobsAlive'
      BY <1>1, <1>3, <1>5, <1>9 DEF CSyncReturn
    <2>2. DelOnce'
      BY <1>1, <1>2, <1>9 DEF CSyncReturn, Lifetimes, DelOnce
    <2> QED
      BY <2>1, <2>2 DEF Lifetimes
  <1>10. CASE CQuit(c)
    <2>1. \A v \in Workers : job[v] = NoJob
      BY <1>10 DEF CQuit, Ownership, Quitting, Quiet, OneOwner
    <2>2. UNCHANGED <<job, arg, locked, synced, delHeld, freed>>
      BY <1>1, <1>10, <2>1 DEF CQuit
    <2>3. \A d \in Callers : cpc'[d] \in {"get", "lock", "give", "sync"} => cpc'[d] = cpc[d]
      BY <1>1, <1>10 DEF CQuit
    <2> QED
      BY <1>3, <1>4, <1>5, <2>2, <2>3 DEF Lifetimes
  <1>11. CASE CReap(c)
    <2>1. JobsAlive' /\ DelOnce'
      BY <1>1, <1>4, <1>5, <1>11 DEF CReap
    <2>2. ASSUME NEW w \in Workers, w \notin delHeld
          PROVE  wpc[w] \in {"reset", "gone"}
      <3>1. InIdle(w)
        BY <1>11 DEF CReap, Ownership, Quitting, Quiet
      <3> QED
        BY <2>2, <3>1 DEF Ownership, Fresh, Lifetimes, Held
    <2>3. Held' /\ DeletedHasLeft'
      BY <1>2, <1>11, <2>2 DEF CReap, Lifetimes, Held, DeletedHasLeft
    <2> QED
      BY <2>1, <2>3 DEF Lifetimes
  <1> QED
    BY <1>6, <1>7, <1>8, <1>9, <1>10, <1>11 DEF InCall

LEMMA LifetimesBegin ==
    ASSUME Typed, Custody, Books, Lifetimes, NEW c \in Callers, BeginCall(c)
    PROVE  Lifetimes'
  <1> USE DEF CAt, workerVars, callerVars, history
  <1>1. /\ cpc \in [Callers -> Places] /\ arg \in [Callers -> Jobs \cup {NoJob}]
        /\ submitted \in [Jobs -> Nat] /\ DelJobs \subseteq Jobs
        /\ job \in [Workers -> Jobs \cup {NoJob}]
    BY PoolAssumption DEF Typed, TypeOK, Places
  <1>2. cpc[c] = "out" /\ UNCHANGED <<wpc, job, locked, delHeld, freed>>
    BY DEF BeginCall, CRun, CSync, CDestroy, CSyncAll, CDone
  <1>3. Held' /\ DeletedHasLeft'
    BY <1>2 DEF Lifetimes, Held, DeletedHasLeft
  <1>4. ASSUME NEW k \in Jobs, CRun(c, k)
        PROVE  DelOnce' /\ JobsAlive'
    <2>1. /\ cpc' = [cpc EXCEPT ![c] = "get"] /\ arg' = [arg EXCEPT ![c] = k]
          /\ submitted' = [submitted EXCEPT ![k] = @ + 1]
          /\ synced' = synced \ {k}
          /\ destroyed' = destroyed /\ k \notin destroyed
          /\ k \in DelJobs => submitted[k] = 0 /\ \A d \in Callers : arg[d] # k
      BY <1>4 DEF CRun, MayRun, Usable
    <2>2. DelOnce'
      BY <1>1, <1>2, <2>1 DEF Lifetimes, DelOnce
    <2>3. JobsAlive'
      BY <1>1, <1>2, <2>1 DEF Lifetimes, JobsAlive
    <2> QED
      BY <2>2, <2>3
  <1>5. ASSUME NEW k \in Jobs, CSync(c, k)
        PROVE  DelOnce' /\ JobsAlive'
    BY <1>1, <1>2, <1>5 DEF CSync, Usable, Lifetimes, DelOnce, JobsAlive
  <1>6. ASSUME NEW k \in Jobs, CDestroy(c, k)
        PROVE  DelOnce' /\ JobsAlive'
    <2>1. /\ k \in synced /\ destroyed' = destroyed \cup {k}
          /\ \A d \in Callers : arg[d] # k
          /\ UNCHANGED <<cpc, arg, submitted, synced>>
      BY <1>6 DEF CDestroy
    <2>2. k \notin locked
      BY <2>1 DEF Books, SyncedQuiet
    <2>3. \A w \in Workers : wpc[w] \in {"run", "unlock"} => job[w] # k
      BY <2>2 DEF Custody, Mutex, CarriedByOne, Carries
    <2>4. \A w \in Workers : wpc[w] = "delete" /\ job[w] \in DelJobs => job[w] # k
      <3> SUFFICES ASSUME NEW w \in Workers, wpc[w] = "delete", job[w] = k, k \in DelJobs
                   PROVE  FALSE
        OBVIOUS
      <3>1. ran[k] > 0
        BY DEF Books, HasRun
      <3>2. submitted[k] = 1
        BY <3>1, ExecutedForGood DEF Lifetimes
      <3> QED
        BY <2>1, <3>2 DEF Lifetimes, DelOnce
    <2>5. JobsAlive'
      BY <1>2, <2>1, <2>2, <2>3, <2>4 DEF Lifetimes, JobsAlive
    <2>6. DelOnce'
      BY <1>2, <2>1 DEF Lifetimes, DelOnce
    <2> QED
      BY <2>5, <2>6
  <1>7. CASE CSyncAll(c) \/ CDone(c)
    BY <1>1, <1>2, <1>3, <1>7 DEF CSyncAll, CDone, Lifetimes, DelOnce, JobsAlive
  <1> QED
    BY <1>3, <1>4, <1>5, <1>6, <1>7 DEF BeginCall, Lifetimes

LEMMA LifetimesNext ==
    Typed /\ Ownership /\ Custody /\ Books /\ Lifetimes /\ [Next]_vars => Lifetimes'
  <1> SUFFICES ASSUME Typed, Ownership, Custody, Books, Lifetimes, [Next]_vars PROVE Lifetimes'
    OBVIOUS
  <1>1. ASSUME UNCHANGED <<wpc, job, delHeld, freed, cpc, arg, locked, destroyed, submitted, synced>>
        PROVE  Lifetimes'
    BY <1>1 DEF Lifetimes, DelOnce, JobsAlive, Held, DeletedHasLeft
  <1>2. CASE SpuriousWakeup
    BY <1>1, <1>2 DEF SpuriousWakeup, callerVars, history
  <1>3. CASE UNCHANGED vars
    BY <1>1, <1>3 DEF vars
  <1> QED
    BY <1>2, <1>3, LifetimesWorker, LifetimesCall, LifetimesBegin DEF Next, Finished

\* No job is executed, unlocked, deleted, waited for or handed over after it
\* was destroyed, and no thread is deleted before it has left its loop.
THEOREM NothingFreedIsUsedHolds == Spec => []NothingFreedIsUsed
  <1>1. Spec => []Lifetimes
    BY BooksAreRight, LifetimesInit, LifetimesNext, PTL DEF Spec
  <1>2. Lifetimes => NothingFreedIsUsed
    BY DEF Lifetimes, NothingFreedIsUsed
  <1> QED
    BY <1>1, <1>2, PTL

-----------------------------------------------------------------------------
(* The pool keeps the promise of JobPool: the initial states map to its    *)
(* initial states, and every step to one of its steps or to none.          *)

Unlocking(j) == \E w \in Workers : wpc[w] = "unlock" /\ job[w] = j
Waiting == [j \in Jobs |-> Cardinality(TheRuns(j))]
Stage == [j \in Jobs |-> IF j \notin locked THEN "free"
                         ELSE IF Unlocking(j) THEN "executed" ELSE "taken"]

LEMMA PromiseInit == Init => Promise!Init
  <1> SUFFICES ASSUME Init PROVE Promise!Init
    OBVIOUS
  <1>1. \A j \in Jobs : TheRuns(j) = {}
    BY DEF Init, TheRuns
  <1>2. \A j \in Jobs : Cardinality(TheRuns(j)) = 0
    BY <1>1, FS_EmptySet
  <1> QED
    BY <1>2 DEF Init, Promise!Init

\* A caller that is about to lock a job has a worker that no locked job has:
\* there are fewer locked jobs than workers.
Has(w, j) == Carries(w, j) \/ \E d \in Callers : HandedOver(d, j) /\ thr[d] = w

LEMMA RoomForOneMore ==
    ASSUME Typed, Ownership, Custody, NEW c \in Callers, cpc[c] = "lock"
    PROVE  Cardinality(locked) < Cardinality(Workers)
  <1> DEFINE Others == Workers \ {thr[c]}
             f == [j \in locked |-> CHOOSE w \in Others : Has(w, j)]
  <1>1. /\ thr[c] \in Workers /\ c \in Holders(thr[c]) /\ locked \subseteq Jobs
        /\ NoJob \notin Jobs
    BY PoolAssumption DEF Typed, TypeOK, Holders
  <1>2. ASSUME NEW w \in Workers, NEW j \in Jobs, Has(w, j)
        PROVE  w # thr[c]
    <2>1. SUFFICES ASSUME w = thr[c] PROVE FALSE
      OBVIOUS
    <2>2. job[w] = NoJob /\ \A d \in Holders(w) : d = c
      BY <1>1, <2>1 DEF Ownership, OneOwner
    <2> QED
      BY <1>1, <1>2, <2>2 DEF Has, Carries, HandedOver, Holders
  <1>3. ASSUME NEW w \in Workers, NEW i \in Jobs, NEW j \in Jobs, Has(w, i), Has(w, j)
        PROVE  i = j
    <2>1. CASE Holders(w) = {}
      BY <1>3, <2>1 DEF Has, Holders, HandedOver, Carries
    <2>2. CASE Holders(w) # {}
      <3>1. job[w] = NoJob /\ \A d, e \in Holders(w) : d = e
        BY <2>2 DEF Ownership, OneOwner
      <3> QED
        BY <1>1, <1>3, <3>1 DEF Has, Holders, HandedOver, Carries
    <2> QED
      BY <2>1, <2>2
  <1>4. ASSUME NEW j \in locked
        PROVE  \E w \in Others : Has(w, j)
    <2>1. \E w \in Workers : Has(w, j)
      <3>1. CASE \E d \in Callers : HandedOver(d, j)
        BY <3>1 DEF Typed, TypeOK, Has, HandedOver
      <3>2. CASE \E w \in Workers : Carries(w, j)
        BY <3>2 DEF Has
      <3> QED
        BY <3>1, <3>2 DEF Custody, Mutex, LockedForOne
    <2> QED
      BY <1>1, <1>2, <2>1
  <1>5. \A j \in locked : f[j] \in Others /\ Has(f[j], j)
    BY <1>4
  <1> HIDE DEF f
  <1>6. f \in [locked -> Others]
    BY <1>5 DEF f
  <1>7. f \in Injection(locked, Others)
    BY <1>1, <1>3, <1>5, <1>6 DEF Injection, IsInjective
  <1>8. /\ IsFiniteSet(Others)
        /\ Cardinality(Others) = Cardinality(Workers) - 1
    BY <1>1, PoolAssumption, FS_RemoveElement
  <1>9. Cardinality(locked) <= Cardinality(Others)
    BY <1>7, <1>8, FS_Injection
  <1>10. /\ Cardinality(locked) \in Nat /\ Cardinality(Others) \in Nat
         /\ Cardinality(Workers) \in Nat
    BY <1>7, <1>8, PoolAssumption, FS_Injection, FS_CardinalityType
  <1> QED
    BY <1>8, <1>9, <1>10

LEMMA PromiseStill ==
    ASSUME UNCHANGED <<locked, ran>>,
           \A j \in Jobs : TheRuns(j)' = TheRuns(j) /\ Unlocking(j)' = Unlocking(j)
    PROVE  UNCHANGED Promise!vars
  <1>1. Waiting' = Waiting /\ Stage' = Stage
    BY DEF Waiting, Stage
  <1> QED
    BY <1>1 DEF Waiting, Stage, Unlocking, Promise!vars

LEMMA PromiseWorker ==
    ASSUME Typed, Ownership, Custody, NEW w \in Workers, Worker(w)
    PROVE  [Promise!Next]_(Promise!vars)
  <1> USE DEF WAt, callerVars, history
  <1>1. /\ wpc \in [Workers -> {"start", "loop", "append", "await", "test", "run", "unlock",
                                "delete", "clear", "leave", "reset", "gone"}]
        /\ job \in [Workers -> Jobs \cup {NoJob}] /\ locked \subseteq Jobs
        /\ ran \in [Jobs -> Nat]
    BY DEF Typed, TypeOK
  <1>2. UNCHANGED <<cpc, arg>>
    BY DEF Worker, WStart, WLoop, WAppend, WAwait, WTest, WRun, WUnlock,
           WDelete, WClear, WLeave, WReset
  <1>3. \A j \in Jobs : TheRuns(j)' = TheRuns(j)
    BY <1>2 DEF TheRuns
  <1>4. Waiting' = Waiting
    BY <1>3 DEF Waiting
  <1>5. wpc[w] \in {"run", "unlock"} =>
            /\ job[w] \in Jobs /\ job[w] \in locked
            /\ \A v \in Workers : wpc[v] = "unlock" /\ job[v] = job[w] => v = w
    <2>1. wpc[w] \in {"run", "unlock"} => job[w] \in Jobs /\ Carries(w, job[w])
      BY <1>1 DEF Ownership, Working, Carries
    <2> QED
      BY <2>1 DEF Custody, Mutex, CarriedByOne, Carries
  <1>6. CASE WRun(w)
    <2>0. PICK k \in Jobs : k = job[w]
      BY <1>5, <1>6 DEF WRun
    <2>1. /\ wpc[w] = "run" /\ wpc' = [wpc EXCEPT ![w] = "unlock"]
          /\ ran' = [ran EXCEPT ![k] = @ + 1]
          /\ UNCHANGED <<job, locked>>
      BY <1>6, <2>0 DEF WRun
    <2>2. k \in locked /\ ~Unlocking(k)
      BY <1>1, <1>5, <2>0, <2>1 DEF Unlocking
    <2>3. \A j \in Jobs : Unlocking(j)' <=> Unlocking(j) \/ j = k
      BY <1>1, <2>0, <2>1 DEF Unlocking
    <2>4. Stage[k] = "taken" /\ Stage' = [Stage EXCEPT ![k] = "executed"]
      BY <2>1, <2>2, <2>3 DEF Stage
    <2>5. Promise!Execute(k)
      BY <1>4, <2>1, <2>4 DEF Waiting, Stage, Unlocking, Promise!Execute
    <2> QED
      BY <2>5 DEF Promise!Next
  <1>7. CASE WUnlock(w)
    <2>0. PICK k \in Jobs : k = job[w]
      BY <1>5, <1>7 DEF WUnlock
    <2>1. /\ wpc[w] = "unlock" /\ wpc' = [wpc EXCEPT ![w] = "delete"]
          /\ locked' = locked \ {k}
          /\ UNCHANGED <<job, ran>>
      BY <1>7, <2>0 DEF WUnlock
    <2>2. k \in locked /\ Unlocking(k)
      BY <1>5, <2>0, <2>1 DEF Unlocking
    <2>3. \A j \in Jobs : Unlocking(j)' = (Unlocking(j) /\ j # k)
      BY <1>1, <1>5, <2>0, <2>1 DEF Unlocking
    <2>4. Stage[k] = "executed" /\ Stage' = [Stage EXCEPT ![k] = "free"]
      BY <2>1, <2>2, <2>3 DEF Stage
    <2>5. Promise!Release(k)
      BY <1>4, <2>1, <2>4 DEF Waiting, Stage, Unlocking, Promise!Release
    <2> QED
      BY <2>5 DEF Promise!Next
  <1>8. ASSUME UNCHANGED <<locked, ran>>,
               \A v \in Workers : wpc[v] = "unlock" \/ wpc'[v] = "unlock" =>
                   wpc'[v] = wpc[v] /\ job'[v] = job[v]
        PROVE  UNCHANGED Promise!vars
    <2>1. \A j \in Jobs : Unlocking(j)' = Unlocking(j)
      BY <1>8 DEF Unlocking
    <2> QED
      BY <1>3, <1>8, <2>1, PromiseStill
  <1>9. CASE WStart(w) \/ WLoop(w) \/ WAwait(w) \/ WTest(w)
    BY <1>1, <1>8, <1>9 DEF WStart, WLoop, WAwait, WTest
  <1>10. CASE WAppend(w)
    <2>1. wpc' = [wpc EXCEPT ![w] = "await"] /\ wpc[w] = "append" /\ UNCHANGED <<ran, locked, job>>
      BY <1>10 DEF WAppend
    <2> QED
      BY <1>1, <1>8, <2>1
  <1>11. CASE WDelete(w) \/ WClear(w) \/ WLeave(w) \/ WReset(w)
    BY <1>1, <1>8, <1>11 DEF WDelete, WClear, WLeave, WReset
  <1> QED
    BY <1>6, <1>7, <1>9, <1>10, <1>11 DEF Worker

\* JobPool's cardinality is ours.
LEMMA SameCardinality == \A S : Promise!Cardinality(S) = Cardinality(S)
  BY DEF Promise!Cardinality, Cardinality

LEMMA PromiseCall ==
    ASSUME Typed, Ownership, Custody, Books, NEW c \in Callers, InCall(c)
    PROVE  [Promise!Next]_(Promise!vars)
  <1> USE DEF CAt, workerVars, history
  <1>1. /\ cpc \in [Callers -> Places] /\ arg \in [Callers -> Jobs \cup {NoJob}]
        /\ locked \subseteq Jobs /\ job \in [Workers -> Jobs \cup {NoJob}]
        /\ NoJob \notin Jobs
    BY PoolAssumption DEF Typed, TypeOK, Places
  <1>2. CASE CLock(c)
    <2>0. PICK k \in Jobs : k = arg[c]
      BY <1>2 DEF CLock, Typed, ArgKnown
    <2>1. /\ cpc[c] = "lock" /\ cpc' = [cpc EXCEPT ![c] = "give"]
          /\ k \notin locked /\ locked' = locked \cup {k}
          /\ UNCHANGED <<wpc, job, arg, ran>>
      BY <1>2, <2>0 DEF CLock
    <2>2. c \in TheRuns(k) /\ IsFiniteSet(TheRuns(k))
      BY <2>0, <2>1 DEF TheRuns, Books, Counted
    <2>3. TheRuns(k)' = TheRuns(k) \ {c} /\ \A j \in Jobs \ {k} : TheRuns(j)' = TheRuns(j)
      BY <1>1, <2>0, <2>1 DEF TheRuns
    <2>4. /\ Cardinality(TheRuns(k)) \in Nat /\ Cardinality(TheRuns(k)) # 0
          /\ Cardinality(TheRuns(k)') = Cardinality(TheRuns(k)) - 1
      BY <2>2, <2>3, OneRunLess, FS_EmptySet
    <2>5. Waiting[k] > 0 /\ Waiting' = [Waiting EXCEPT ![k] = @ - 1]
      <3>1. Waiting[k] = Cardinality(TheRuns(k)) /\ Waiting = [j \in Jobs |-> Waiting[j]]
        BY DEF Waiting
      <3>2. \A j \in Jobs : Waiting'[j] = IF j = k THEN Waiting[k] - 1 ELSE Waiting[j]
        BY <2>3, <2>4 DEF Waiting
      <3>3. Waiting' = [j \in Jobs |-> IF j = k THEN Waiting[k] - 1 ELSE Waiting[j]]
        BY <3>2 DEF Waiting
      <3> QED
        BY <2>4, <3>1, <3>3
    <2>6. ~Unlocking(k)
      BY <2>1 DEF Custody, Mutex, CarriedByOne, Carries, Unlocking
    <2>7. \A j \in Jobs : Unlocking(j)' = Unlocking(j)
      BY <2>1 DEF Unlocking
    <2>8. Stage[k] = "free" /\ Stage' = [Stage EXCEPT ![k] = "taken"]
      BY <2>1, <2>6, <2>7 DEF Stage
    <2>9. Promise!TakenOn = locked
      BY <1>1 DEF Promise!TakenOn
    <2>10. Cardinality(Promise!TakenOn) < Cardinality(Workers)
      <3>1. Cardinality(locked) < Cardinality(Workers)
        BY <2>1, RoomForOneMore
      <3> QED
        BY <2>9, <3>1, Zenon
    <2>11. Promise!TakeOn(k)
      <3>1. UNCHANGED ran
        BY <2>1
      <3>2. Waiting[k] > 0 /\ Stage[k] = "free"
        BY <2>5, <2>8
      <3>3. Waiting' = [Waiting EXCEPT ![k] = @ - 1]
        BY <2>5
      <3>4. Stage' = [Stage EXCEPT ![k] = "taken"]
        BY <2>8
      <3> QED
        BY <2>10, <3>1, <3>2, <3>3, <3>4, SameCardinality
        DEF Waiting, Stage, Unlocking, Promise!TakeOn
    <2> QED
      BY <2>11 DEF Promise!Next
  <1>3. ASSUME UNCHANGED <<locked, ran, wpc>>,
               \A v \in Workers : wpc[v] = "unlock" => job'[v] = job[v],
               \A d \in Callers : cpc[d] \in {"get", "lock"} \/ cpc'[d] \in {"get", "lock"} =>
                   cpc[d] \in {"get", "lock"} /\ cpc'[d] \in {"get", "lock"} /\ arg'[d] = arg[d]
        PROVE  UNCHANGED Promise!vars
    <2>1. \A j \in Jobs : TheRuns(j)' = TheRuns(j)
      BY <1>3 DEF TheRuns
    <2>2. \A j \in Jobs : Unlocking(j)' = Unlocking(j)
      BY <1>3 DEF Unlocking
    <2> QED
      BY <1>3, <2>1, <2>2, PromiseStill
  <1>4. CASE CGetIdle(c) \/ CSyncReturn(c) \/ CAll(c) \/ CReap(c)
    BY <1>1, <1>3, <1>4 DEF CGetIdle, CSyncReturn, CAll, CReap
  <1>5. CASE CGive(c)
    <2>1. thr[c] \in Workers /\ wpc[thr[c]] # "unlock"
      BY <1>5 DEF CGive, Typed, TypeOK, Holders, Ownership, Working
    <2> QED
      BY <1>1, <1>3, <1>5, <2>1 DEF CGive
  <1>6. CASE CQuit(c)
    <2>1. \A v \in Workers : job[v] = NoJob
      BY <1>6 DEF CQuit, Ownership, Quitting, Quiet, OneOwner
    <2> QED
      BY <1>1, <1>3, <1>6, <2>1 DEF CQuit
  <1> QED
    BY <1>2, <1>4, <1>5, <1>6 DEF InCall

LEMMA PromiseBegin ==
    ASSUME Typed, Books, NEW c \in Callers, BeginCall(c)
    PROVE  [Promise!Next]_(Promise!vars)
  <1> USE DEF CAt, workerVars, callerVars, history
  <1>1. /\ cpc \in [Callers -> Places] /\ arg \in [Callers -> Jobs \cup {NoJob}]
    BY DEF Typed, TypeOK, Places
  <1>2. cpc[c] = "out" /\ UNCHANGED <<wpc, job, locked, ran>>
    BY DEF BeginCall, CRun, CSync, CDestroy, CSyncAll, CDone
  <1>3. \A j \in Jobs : Unlocking(j)' = Unlocking(j)
    BY <1>2 DEF Unlocking
  <1>4. ASSUME NEW k \in Jobs, CRun(c, k)
        PROVE  Promise!Submit(k)
    <2>1. cpc' = [cpc EXCEPT ![c] = "get"] /\ arg' = [arg EXCEPT ![c] = k]
      BY <1>4 DEF CRun
    <2>2. c \notin TheRuns(k) /\ IsFiniteSet(TheRuns(k))
      BY <1>2 DEF TheRuns, Books, Counted
    <2>3. \A j \in Jobs : TheRuns(j)' = IF j = k THEN TheRuns(k) \cup {c} ELSE TheRuns(j)
      BY <1>1, <1>2, <2>1 DEF TheRuns
    <2>4. Cardinality(TheRuns(k)') = Cardinality(TheRuns(k)) + 1
      BY <2>2, <2>3, OneRunMore
    <2>5. Waiting' = [Waiting EXCEPT ![k] = @ + 1]
      BY <2>3, <2>4 DEF Waiting
    <2>6. Stage' = Stage
      BY <1>2, <1>3 DEF Stage
    <2> QED
      BY <1>2, <2>5, <2>6 DEF Waiting, Stage, Unlocking, Promise!Submit
  <1>5. ASSUME \A d \in Callers : cpc[d] \in {"get", "lock"} \/ cpc'[d] \in {"get", "lock"} =>
                   cpc[d] = cpc'[d] /\ arg'[d] = arg[d]
        PROVE  UNCHANGED Promise!vars
    <2>1. \A j \in Jobs : TheRuns(j)' = TheRuns(j)
      BY <1>5 DEF TheRuns
    <2> QED
      BY <1>2, <1>3, <2>1, PromiseStill
  <1>6. ASSUME NEW k \in Jobs, CSync(c, k) \/ CDestroy(c, k)
        PROVE  UNCHANGED Promise!vars
    BY <1>1, <1>2, <1>5, <1>6 DEF CSync, CDestroy
  <1>7. CASE CSyncAll(c) \/ CDone(c)
    BY <1>1, <1>2, <1>5, <1>7 DEF CSyncAll, CDone
  <1> QED
    BY <1>4, <1>6, <1>7 DEF BeginCall, Promise!Next

LEMMA PromiseNext ==
    Typed /\ Ownership /\ Custody /\ Books /\ [Next]_vars => [Promise!Next]_(Promise!vars)
  <1> SUFFICES ASSUME Typed, Ownership, Custody, Books, [Next]_vars
               PROVE  [Promise!Next]_(Promise!vars)
    OBVIOUS
  <1>1. ASSUME UNCHANGED <<wpc, job, cpc, arg, locked, ran>>
        PROVE  UNCHANGED Promise!vars
    BY <1>1, PromiseStill DEF TheRuns, Unlocking
  <1>2. CASE SpuriousWakeup
    BY <1>1, <1>2 DEF SpuriousWakeup, callerVars, history
  <1>3. CASE UNCHANGED vars
    BY <1>1, <1>3 DEF vars
  <1> QED
    BY <1>2, <1>3, PromiseWorker, PromiseCall, PromiseBegin DEF Next, Finished

\* ThreadPool implements JobPool as far as safety goes, for any number of
\* callers: one run of a job at a time, each once, at most as many as there are
\* workers.
THEOREM KeepsPromiseHolds == Spec => KeepsPromise
  BY BooksAreRight, PromiseInit, PromiseNext, PTL DEF Spec, KeepsPromise, Promise!Safety
=============================================================================
