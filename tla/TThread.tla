------------------------------- MODULE TThread -------------------------------
(* The life of a TThread and of the POSIX thread that it starts               *)
(* (src/src/common/TThread.cpp, src/include/common/TThread.hh), when its      *)
(* owner calls create, detach, join, cancel and the destructor in any order.  *)
(* The thread ends by itself at any moment; _running is a plain flag that     *)
(* both sides write, each of its accesses is a step.                          *)
(*                                                                            *)
(* POSIX is external: an id is valid until the thread has been joined, or has *)
(* ended after being detached; a cancellation takes effect inside run() only. *)
(* The object may be created again after its thread is gone (MaxThreads).     *)
EXTENDS Naturals

CONSTANT MaxThreads     \* how many POSIX threads one object may start

VARIABLES
  object,     \* "alive" or "deleted": the memory of the TThread
  _running,   \* the flag of the object
  _thread_id, \* the POSIX thread that the object names; 0 before the first
  thread,     \* thread[i]: "none", "run", "reset", "last", "ended"
  released,   \* released[i]: "no", "detached" or "joined"
  cancelled,  \* the threads whose cancellation was requested
  owner,      \* what the owner is in the middle of: "idle", "created", "joining"
  joinedAll,  \* TRUE from the return of a join to the next create
  staleId,    \* a POSIX call was made with an id that was no longer valid
  freedTouch  \* a thread has used the object after its deletion

vars == <<object, _running, _thread_id, thread, released, cancelled, owner,
          joinedAll, staleId, freedTouch>>

Threads == 1 .. MaxThreads

\* POSIX: the id i still names a thread.
ValidId(i) ==
  /\ i # 0
  /\ released[i] # "joined"
  /\ ~(released[i] = "detached" /\ thread[i] = "ended")

\* A call of POSIX with _thread_id, by the owner.
UsesId == staleId' = (staleId \/ ~ValidId(_thread_id))

Init ==
  /\ object = "alive" /\ _running = FALSE /\ _thread_id = 0
  /\ thread = [i \in Threads |-> "none"]
  /\ released = [i \in Threads |-> "no"]
  /\ cancelled = {} /\ owner = "idle" /\ joinedAll = FALSE
  /\ staleId = FALSE /\ freedTouch = FALSE

OwnerMay == owner = "idle" /\ object = "alive"

(* create: a thread that is running already is left alone; else a POSIX       *)
(* thread is started and it may run at once, before _running is set.          *)
StartThread(detached) ==
  /\ OwnerMay
  /\ ~_running
  /\ \E i \in Threads :
       /\ thread[i] = "none" /\ \A j \in Threads : j < i => thread[j] # "none"
       /\ thread' = [thread EXCEPT ![i] = "run"]
       /\ released' = [released EXCEPT ![i] = IF detached THEN "detached" ELSE "no"]
       /\ _thread_id' = i
  /\ owner' = "created" /\ joinedAll' = FALSE
  /\ UNCHANGED <<object, _running, cancelled, staleId, freedTouch>>

\* pthread_create has failed: the message, and _running stays as it is.
StartFails ==
  /\ OwnerMay
  /\ ~_running
  /\ joinedAll' = FALSE
  /\ UNCHANGED <<object, _running, _thread_id, thread, released, cancelled, owner,
                 staleId, freedTouch>>

MarkRunning ==
  /\ owner = "created"
  /\ _running' = TRUE
  /\ owner' = "idle"
  /\ UNCHANGED <<object, _thread_id, thread, released, cancelled, joinedAll, staleId,
                 freedTouch>>

Detach ==
  /\ OwnerMay /\ _running
  /\ released' = IF ValidId(_thread_id) THEN [released EXCEPT ![_thread_id] = "detached"]
                                        ELSE released
  /\ UsesId
  /\ UNCHANGED <<object, _running, _thread_id, thread, cancelled, owner, joinedAll,
                 freedTouch>>

Cancel ==
  /\ OwnerMay /\ _running
  /\ cancelled' = cancelled \cup {_thread_id}
  /\ UsesId
  /\ UNCHANGED <<object, _running, _thread_id, thread, released, owner, joinedAll,
                 freedTouch>>

(* join: without _running it returns at once, for the thread has reset it.    *)
JoinNothing ==
  /\ OwnerMay /\ ~_running
  /\ joinedAll' = TRUE
  /\ UNCHANGED <<object, _running, _thread_id, thread, released, cancelled, owner,
                 staleId, freedTouch>>

\* pthread_join waits; it refuses a thread that is detached (EINVAL).
JoinWait ==
  /\ OwnerMay /\ _running
  /\ UsesId
  /\ owner' = "joining"
  /\ UNCHANGED <<object, _running, _thread_id, thread, released, cancelled, joinedAll,
                 freedTouch>>

\* Faulty: join forgets to reset _running.
JoinDoneStays ==
  /\ owner = "joining"
  /\ \/ thread[_thread_id] = "ended"
     \/ released[_thread_id] # "no"
  /\ released' = IF released[_thread_id] = "no"
                 THEN [released EXCEPT ![_thread_id] = "joined"] ELSE released
  /\ owner' = "idle" /\ joinedAll' = TRUE
  /\ UNCHANGED <<object, _running, _thread_id, thread, cancelled, staleId, freedTouch>>

JoinDone ==
  /\ owner = "joining"
  /\ \/ thread[_thread_id] = "ended"
     \/ released[_thread_id] # "no"
  /\ released' = IF released[_thread_id] = "no"
                 THEN [released EXCEPT ![_thread_id] = "joined"] ELSE released
  /\ _running' = FALSE
  /\ owner' = "idle" /\ joinedAll' = TRUE
  /\ UNCHANGED <<object, _thread_id, thread, cancelled, staleId, freedTouch>>

\* The destructor requests the cancellation of a running thread, and does not wait.
Delete ==
  /\ OwnerMay
  /\ object' = "deleted"
  /\ IF _running THEN cancelled' = cancelled \cup {_thread_id} /\ UsesId
                 ELSE UNCHANGED <<cancelled, staleId>>
  /\ UNCHANGED <<_running, _thread_id, thread, released, owner, joinedAll, freedTouch>>

(* The thread: _run_thread calls run(), then reset_running(), then returns.   *)
RunReturns(i) ==
  /\ thread[i] = "run"
  /\ thread' = [thread EXCEPT ![i] = "reset"]
  /\ freedTouch' = (freedTouch \/ object = "deleted")
  /\ UNCHANGED <<object, _running, _thread_id, released, cancelled, owner, joinedAll, staleId>>

RunCancelled(i) ==
  /\ thread[i] = "run" /\ i \in cancelled
  /\ thread' = [thread EXCEPT ![i] = "ended"]
  /\ UNCHANGED <<object, _running, _thread_id, released, cancelled, owner, joinedAll,
                 staleId, freedTouch>>

ResetRunning(i) ==
  /\ thread[i] = "reset"
  /\ thread' = [thread EXCEPT ![i] = "last"]
  /\ _running' = FALSE
  /\ freedTouch' = (freedTouch \/ object = "deleted")
  /\ UNCHANGED <<object, _thread_id, released, cancelled, owner, joinedAll, staleId>>

ThreadEnds(i) ==
  /\ thread[i] = "last"
  /\ thread' = [thread EXCEPT ![i] = "ended"]
  /\ UNCHANGED <<object, _running, _thread_id, released, cancelled, owner, joinedAll,
                 staleId, freedTouch>>

Next ==
  \/ \E d \in BOOLEAN : StartThread(d)
  \/ StartFails \/ MarkRunning \/ Detach \/ Cancel
  \/ JoinNothing \/ JoinWait \/ JoinDone \/ Delete
  \/ \E i \in Threads : RunReturns(i) \/ RunCancelled(i) \/ ResetRunning(i) \/ ThreadEnds(i)

Spec == Init /\ [][Next]_vars

------------------------------------------------------------------------------

TypeOK ==
  /\ object \in {"alive", "deleted"} /\ _running \in BOOLEAN
  /\ _thread_id \in 0 .. MaxThreads
  /\ thread \in [Threads -> {"none", "run", "reset", "last", "ended"}]
  /\ released \in [Threads -> {"no", "detached", "joined"}]
  /\ cancelled \subseteq Threads /\ owner \in {"idle", "created", "joining"}
  /\ joinedAll \in BOOLEAN /\ staleId \in BOOLEAN /\ freedTouch \in BOOLEAN

NeverDetached == \A i \in Threads : released[i] # "detached"

\* After join ("wait until finished") no thread is left that touches the object.
JoinMeansFinished ==
  joinedAll /\ NeverDetached => \A i \in Threads : thread[i] \notin {"run", "reset"}

\* An object of one thread at a time: a second is started only when the first
\* has done with the object.
OneThread ==
  NeverDetached =>
    \A i, j \in Threads : thread[i] \in {"run", "reset"} /\ thread[j] \in {"run", "reset"}
                          => i = j

\* Nobody calls POSIX with an id that has been joined away.
NoStaleId == NeverDetached => ~staleId

\* TThread.cpp:16-27 and 52-164: for an owner that never detaches, create, join
\* and cancel keep to the thread they started, whatever moment the thread picks
\* to reset _running - before create sets it (line 118), or after: join leaves
\* no thread behind that still uses the object, so that it may be deleted, and
\* no id is used after its join. A detached thread has no such protection: the
\* pool has a protocol of its own (ThreadPool).
JoinableIsSafe == JoinMeansFinished /\ OneThread /\ NoStaleId
==============================================================================
