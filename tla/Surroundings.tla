---------------------------- MODULE Surroundings ----------------------------
(***************************************************************************)
(* What stands around the Kademlia core and shares no state with it or     *)
(* with one another: the thread, the handles of the routing table, the     *)
(* sockets of main.cpp, the Thrift client and its server.  Each is a       *)
(* module; here are the properties of them all, with their proofs.         *)
(***************************************************************************)
EXTENDS Naturals, FiniteSets, Sequences, FiniteSetTheorems, SequenceTheorems, TLAPS

CONSTANTS
    MaxThreads,
    Buckets, MaxBuckets,                \* the routing table's handles
    Jobs, MaxHandles,                   \* the sockets of main.cpp
    MaxCalls

VARIABLES
    object, _running, _thread_id, thread, released, cancelled, owner, joinedAll, staleId, freedTouch,
    pointee, refCount, deleted, size, todo,
    program, up, at, m_usock, open, given, stray,
    reopen, isOpen, upward, downward, call, made, resp, last, gaveUp, served

Thread == INSTANCE TThread
Handle == INSTANCE HandlesProofs
Socket == INSTANCE ChatSockets
Rpcs == INSTANCE KadRpcs WITH up <- upward, down <- downward

\* A joinable TThread is joined before it is used again (TThread.cpp); a bucket of the
\* routing table lives as long as a handle to it (HandleClass.h, kadroutingtable.cpp);
\* a socket object of main.cpp closes the handle it opened and no other (UDTSocket.cpp).
ObjectsOutlast ==
    /\ Thread!TypeOK /\ Thread!JoinableIsSafe
    /\ Handle!BucketsAreCounted
    /\ Socket!EachClosesItsOwn

\* As long as no wait was given up, a call of KadRpcs is ended by what it caused itself, although
\* no number is compared, and the optional fields of its arguments and results do not arrive
\* (kadrpc.cpp, KademliaService.cpp).
CallsEndTheirOwn == Rpcs!EndedByItsOwn /\ Rpcs!OptionalFieldsAreLost
-----------------------------------------------------------------------------
(* TThread, for any number of threads that the object starts.              *)

Active(i) == thread[i] \in {"run", "reset"}

\* The flag and the calls of the owner are about a thread that was started.
Started ==
  /\ \A i \in Thread!Threads : thread[i] = "none" => released[i] = "no"
  /\ _thread_id # 0 => thread[_thread_id] # "none"
  /\ owner # "idle" \/ _running => _thread_id # 0

\* Only the thread that the object names may still touch it, and the flag errs
\* on one side only: it may be set for a thread that has ended, by the late line
\* 118 of create, and is never unset for one that is active, except while the
\* owner is inside create or join.
OwnThread ==
  /\ \A i \in Thread!Threads : Active(i) => i = _thread_id
  /\ owner = "idle" /\ ~_running => \A i \in Thread!Threads : ~Active(i)
  /\ joinedAll => \A i \in Thread!Threads : ~Active(i)
  /\ owner # "idle" \/ _running => released[_thread_id] = "no"
  /\ ~staleId

ThreadInv == Thread!TypeOK /\ Started /\ (Thread!NeverDetached => OwnThread)

LEMMA ThreadInit == MaxThreads \in Nat /\ Thread!Init => ThreadInv
  <1> SUFFICES ASSUME MaxThreads \in Nat, Thread!Init PROVE ThreadInv
    OBVIOUS
  <1>1. Thread!TypeOK
    <2>1. 0 \in 0 .. MaxThreads
      OBVIOUS
    <2> QED
      BY <2>1, Zenon DEF Thread!Init, Thread!TypeOK
  <1>2. Started /\ OwnThread
    BY DEF Thread!Init, Started, OwnThread, Active
  <1> QED
    BY <1>1, <1>2 DEF ThreadInv

\* The steps of the owner.
LEMMA OwnerKeeps ==
  ASSUME MaxThreads \in Nat, ThreadInv,
         \/ \E d \in BOOLEAN : Thread!StartThread(d)
         \/ Thread!StartFails \/ Thread!MarkRunning \/ Thread!Detach \/ Thread!Cancel
         \/ Thread!JoinNothing \/ Thread!JoinWait \/ Thread!JoinDone \/ Thread!Delete
  PROVE  ThreadInv'
  <1> USE DEF ThreadInv
  <1>1. ASSUME NEW d \in BOOLEAN, Thread!StartThread(d) PROVE ThreadInv'
    <2>1. PICK i \in Thread!Threads :
            /\ thread[i] = "none"
            /\ thread' = [thread EXCEPT ![i] = "run"]
            /\ released' = [released EXCEPT ![i] = IF d THEN "detached" ELSE "no"]
            /\ _thread_id' = i
      BY <1>1 DEF Thread!StartThread
    <2>2. /\ owner = "idle" /\ ~_running /\ owner' = "created" /\ joinedAll' = FALSE
          /\ UNCHANGED <<object, _running, cancelled, staleId, freedTouch>>
      BY <1>1 DEF Thread!StartThread, Thread!OwnerMay
    <2>3. i \in 0 .. MaxThreads /\ i # 0
      BY DEF Thread!Threads
    <2>4. /\ thread' \in [Thread!Threads -> {"none", "run", "reset", "last", "ended"}]
          /\ released' \in [Thread!Threads -> {"no", "detached", "joined"}]
      BY <2>1 DEF Thread!TypeOK
    <2>5. Thread!TypeOK'
      BY <2>1, <2>2, <2>3, <2>4, Zenon DEF Thread!TypeOK
    <2>6. Started'
      BY <2>1, <2>2, <2>3 DEF Started, Thread!TypeOK
    <2>7. ASSUME Thread!NeverDetached' PROVE OwnThread'
      <3>1. ~d
        BY <2>1, <2>7 DEF Thread!NeverDetached, Thread!TypeOK
      <3>2. Thread!NeverDetached
        BY <2>1, <2>7 DEF Thread!NeverDetached, Started, Thread!TypeOK
      <3>3. OwnThread /\ \A j \in Thread!Threads : ~Active(j)
        BY <2>2, <3>2 DEF OwnThread
      <3>4. \A j \in Thread!Threads : Active(j)' => j = i
        BY <2>1, <3>3 DEF Active, Thread!TypeOK
      <3>5. released'[i] = "no"
        BY <2>1, <3>1 DEF Thread!TypeOK
      <3> QED
        BY <2>1, <2>2, <3>3, <3>4, <3>5 DEF OwnThread
    <2> QED
      BY <2>5, <2>6, <2>7
  <1>2. CASE Thread!StartFails
    BY <1>2 DEF Thread!StartFails, Thread!TypeOK, Thread!NeverDetached, OwnThread, Active, Started
  <1>3. CASE Thread!MarkRunning
    BY <1>3 DEF Thread!MarkRunning, Thread!TypeOK, Thread!NeverDetached, OwnThread, Active, Started
  <1>4. CASE Thread!Detach
    <2>1. released' \in [Thread!Threads -> {"no", "detached", "joined"}]
      BY <1>4 DEF Thread!Detach, Thread!TypeOK, Thread!Threads
    <2>2. Thread!TypeOK'
      BY <1>4, <2>1, Zenon DEF Thread!Detach, Thread!UsesId, Thread!TypeOK
    <2>3. Started'
      BY <1>4 DEF Thread!Detach, Started, Thread!TypeOK, Thread!Threads
    <2>4. ASSUME Thread!NeverDetached' PROVE OwnThread'
      <3>1. Thread!NeverDetached /\ released' = released
        BY <1>4, <2>4 DEF Thread!Detach, Thread!ValidId, Thread!NeverDetached, Thread!TypeOK, Thread!Threads
      <3>2. staleId' = FALSE
        BY <1>4, <3>1 DEF Thread!Detach, Thread!UsesId, Thread!ValidId, OwnThread, Started
      <3> QED
        BY <1>4, <3>1, <3>2 DEF Thread!Detach, OwnThread, Active
    <2> QED
      BY <2>2, <2>3, <2>4
  <1>5. CASE Thread!Cancel
    <2>1. _thread_id \in Thread!Threads
      BY <1>5 DEF Thread!Cancel, Started, Thread!TypeOK, Thread!Threads
    <2>2. Thread!TypeOK'
      BY <1>5, <2>1, Zenon DEF Thread!Cancel, Thread!UsesId, Thread!TypeOK
    <2>3. Started'
      BY <1>5 DEF Thread!Cancel, Started
    <2>4. ASSUME Thread!NeverDetached' PROVE OwnThread'
      <3>1. Thread!NeverDetached
        BY <1>5, <2>4 DEF Thread!Cancel, Thread!NeverDetached
      <3>2. staleId' = FALSE
        BY <1>5, <2>1, <3>1 DEF Thread!Cancel, Thread!UsesId, Thread!ValidId, OwnThread, Started
      <3> QED
        BY <1>5, <3>1, <3>2 DEF Thread!Cancel, OwnThread, Active
    <2> QED
      BY <2>2, <2>3, <2>4
  <1>6. CASE Thread!JoinNothing
    BY <1>6 DEF Thread!JoinNothing, Thread!OwnerMay, Thread!TypeOK, Thread!NeverDetached, OwnThread, Active, Started
  <1>7. CASE Thread!JoinWait
    BY <1>7 DEF Thread!JoinWait, Thread!OwnerMay, Thread!UsesId, Thread!ValidId, Thread!TypeOK, Thread!NeverDetached, OwnThread, Active, Started
  <1>8. CASE Thread!JoinDone
    BY <1>8 DEF Thread!JoinDone, Thread!TypeOK, Thread!NeverDetached, OwnThread, Active, Started, Thread!Threads
  <1>9. CASE Thread!Delete
    <2>1. _running => _thread_id \in Thread!Threads
      BY DEF Started, Thread!TypeOK, Thread!Threads
    <2>2. cancelled' \subseteq Thread!Threads /\ staleId' \in BOOLEAN
      BY <1>9, <2>1, Zenon DEF Thread!Delete, Thread!UsesId, Thread!TypeOK
    <2>3. Thread!TypeOK'
      BY <1>9, <2>2, Zenon DEF Thread!Delete, Thread!TypeOK
    <2>4. Started'
      BY <1>9 DEF Thread!Delete, Started
    <2>5. ASSUME Thread!NeverDetached' PROVE OwnThread'
      <3>1. Thread!NeverDetached
        BY <1>9, <2>5 DEF Thread!Delete, Thread!NeverDetached
      <3>2. staleId' = FALSE
        <4>1. CASE _running
          <5>1. released[_thread_id] = "no" /\ ~staleId /\ _thread_id # 0
            BY <3>1, <4>1 DEF OwnThread, Started
          <5>2. Thread!ValidId(_thread_id)
            BY <5>1 DEF Thread!ValidId
          <5> QED
            BY <1>9, <4>1, <5>1, <5>2 DEF Thread!Delete, Thread!UsesId
        <4>2. CASE ~_running
          BY <1>9, <3>1, <4>2 DEF Thread!Delete, OwnThread, Thread!TypeOK
        <4> QED
          BY <4>1, <4>2
      <3> QED
        BY <1>9, <3>1, <3>2 DEF Thread!Delete, OwnThread, Active
    <2> QED
      BY <2>3, <2>4, <2>5
  <1> QED
    BY <1>1, <1>2, <1>3, <1>4, <1>5, <1>6, <1>7, <1>8, <1>9

\* The steps of the threads.
LEMMA ThreadKeeps ==
  ASSUME MaxThreads \in Nat, ThreadInv, NEW i \in Thread!Threads,
         Thread!RunReturns(i) \/ Thread!RunCancelled(i) \/ Thread!ResetRunning(i) \/ Thread!ThreadEnds(i)
  PROVE  ThreadInv'
  <1> USE DEF ThreadInv
  <1>1. CASE Thread!RunReturns(i)
    BY <1>1 DEF Thread!RunReturns, Thread!TypeOK, Thread!NeverDetached, OwnThread, Active, Started
  <1>2. CASE Thread!RunCancelled(i)
    BY <1>2 DEF Thread!RunCancelled, Thread!TypeOK, Thread!NeverDetached, OwnThread, Active, Started
  <1>3. CASE Thread!ResetRunning(i)
    <2>1. Thread!TypeOK'
      <3>1. thread' \in [Thread!Threads -> {"none", "run", "reset", "last", "ended"}]
        BY <1>3 DEF Thread!ResetRunning, Thread!TypeOK
      <3> QED
        BY <1>3, <3>1, Zenon DEF Thread!ResetRunning, Thread!TypeOK
    <2>2. Started'
      BY <1>3 DEF Thread!ResetRunning, Started, Thread!TypeOK
    <2>3. ASSUME Thread!NeverDetached' PROVE OwnThread'
      <3>1. OwnThread /\ Active(i)
        BY <1>3, <2>3 DEF Thread!ResetRunning, Thread!NeverDetached, Active
      <3>2. \A j \in Thread!Threads : ~Active(j)'
        BY <1>3, <3>1 DEF Thread!ResetRunning, OwnThread, Active, Thread!TypeOK
      <3> QED
        BY <1>3, <3>1, <3>2 DEF Thread!ResetRunning, OwnThread
    <2> QED
      BY <2>1, <2>2, <2>3
  <1>4. CASE Thread!ThreadEnds(i)
    BY <1>4 DEF Thread!ThreadEnds, Thread!TypeOK, Thread!NeverDetached, OwnThread, Active, Started
  <1> QED
    BY <1>1, <1>2, <1>3, <1>4

\* However the thread picks its moment, an owner that never detaches finds no
\* thread behind a join, starts no second one beside the first and uses no id
\* that is gone (TThread.cpp:52-164).
THEOREM JoinableIsSafeHolds == MaxThreads \in Nat => (Thread!Spec => [](Thread!TypeOK /\ Thread!JoinableIsSafe))
  <1> SUFFICES ASSUME MaxThreads \in Nat PROVE Thread!Spec => [](Thread!TypeOK /\ Thread!JoinableIsSafe)
    OBVIOUS
  <1>1. ThreadInv /\ [Thread!Next]_(Thread!vars) => ThreadInv'
    <2>1. CASE UNCHANGED Thread!vars
      BY <2>1 DEF Thread!vars, ThreadInv, Thread!TypeOK, Thread!NeverDetached, OwnThread, Active, Started
    <2> QED
      BY <2>1, OwnerKeeps, ThreadKeeps DEF Thread!Next
  <1>2. ThreadInv => Thread!TypeOK /\ Thread!JoinableIsSafe
    BY DEF ThreadInv, OwnThread, Active, Thread!JoinableIsSafe, Thread!JoinMeansFinished, Thread!OneThread, Thread!NoStaleId
  <1> QED
    BY <1>1, <1>2, ThreadInit, PTL DEF Thread!Spec
-----------------------------------------------------------------------------
(* The sockets of main.cpp, for any set of jobs and any number of handles. *)

Places == {"none", "made", "created", "listening", "connected", "received", "sent", "leaving"}
HasSocket(o) == at[o] \notin {"none", "made"}

SocketTypes ==
  /\ at \in [Socket!Objects -> Places]
  /\ m_usock \in [Socket!Objects -> Socket!Handle \cup {Socket!Invalid}]
  /\ given \in Nat
  /\ open \subseteq 1 .. given

\* UDT gives no number twice, so the handles that are open are one to one with
\* the objects that have got one; the number in an object that has none yet is
\* nowhere looked at.
Paired ==
  /\ ~stray
  /\ \A o \in Socket!Objects : HasSocket(o) => m_usock[o] \in open
  /\ \A o, p \in Socket!Objects : HasSocket(o) /\ HasSocket(p) /\ m_usock[o] = m_usock[p] => o = p
  /\ \A h \in open : \E o \in Socket!Objects : Socket!Holds(o, h)

SocketInv == SocketTypes /\ Paired

\* A step of o that gives and takes no handle and leaves it on its side.
LEMMA SocketStays ==
  ASSUME SocketInv, NEW o \in Socket!Objects, NEW to \in Places,
         at' = [at EXCEPT ![o] = to], to \in {"none", "made"} <=> ~HasSocket(o),
         HasSocket(o) => m_usock' = m_usock,
         \E g \in Socket!Handle \cup {Socket!Invalid} : m_usock' = [m_usock EXCEPT ![o] = g],
         UNCHANGED <<open, given, stray>>
  PROVE  SocketInv'
  <1>1. SocketTypes'
    BY DEF SocketInv, SocketTypes
  <1>2. \A p \in Socket!Objects : HasSocket(p)' <=> HasSocket(p)
    BY DEF SocketInv, SocketTypes, HasSocket
  <1>3. \A p \in Socket!Objects : HasSocket(p) => m_usock'[p] = m_usock[p]
    BY DEF SocketInv, SocketTypes
  <1>4. \A p \in Socket!Objects : \A h : Socket!Holds(p, h)' <=> Socket!Holds(p, h)
    BY <1>2, <1>3 DEF Socket!Holds, HasSocket
  <1> QED
    BY <1>1, <1>2, <1>3, <1>4 DEF SocketInv, Paired

\* UDT gives o, which has none, a handle.
LEMMA SocketGiven ==
  ASSUME MaxHandles \in Nat, SocketInv, NEW o \in Socket!Objects, NEW to \in Places \ {"none", "made"},
         ~HasSocket(o), at' = [at EXCEPT ![o] = to], Socket!UdtGives(o), UNCHANGED stray
  PROVE  SocketInv'
  <1>1. given + 1 \in Socket!Handle /\ given + 1 \notin open
    BY DEF SocketInv, SocketTypes, Socket!UdtGives, Socket!Handle
  <1>2. SocketTypes'
    BY <1>1 DEF SocketInv, SocketTypes, Socket!UdtGives
  <1>3. \A p \in Socket!Objects : HasSocket(p)' <=> HasSocket(p) \/ p = o
    BY DEF SocketInv, SocketTypes, HasSocket
  <1>4. \A p \in Socket!Objects : m_usock'[p] = IF p = o THEN given + 1 ELSE m_usock[p]
    BY DEF SocketInv, SocketTypes, Socket!UdtGives
  <1>5. open' = open \cup {given + 1}
    BY DEF Socket!UdtGives
  <1>6. \A p \in Socket!Objects : HasSocket(p) => m_usock[p] \in open /\ m_usock[p] # given + 1
    BY <1>1 DEF SocketInv, Paired
  <1>7. \A h \in open' : \E p \in Socket!Objects : Socket!Holds(p, h)'
    <2> SUFFICES ASSUME NEW h \in open' PROVE \E p \in Socket!Objects : Socket!Holds(p, h)'
      OBVIOUS
    <2>1. CASE h = given + 1
      BY <2>1, <1>3, <1>4 DEF Socket!Holds, HasSocket
    <2>2. CASE h \in open
      <3>1. PICK p \in Socket!Objects : HasSocket(p) /\ m_usock[p] = h
        BY <2>2 DEF SocketInv, Paired, Socket!Holds, HasSocket
      <3> QED
        BY <3>1, <1>3, <1>4 DEF Socket!Holds, HasSocket
    <2> QED
      BY <2>1, <2>2, <1>5
  <1> QED
    BY <1>2, <1>3, <1>4, <1>5, <1>6, <1>7 DEF SocketInv, Paired

\* The process ends, o having no handle.
LEMMA NoSocketGiven ==
  ASSUME SocketInv, NEW o \in Socket!Objects, ~HasSocket(o), Socket!UdtFails(o), UNCHANGED <<at, stray>>
  PROVE  SocketInv'
  <1>1. at' = [at EXCEPT ![o] = at[o]] /\ at[o] \in Places
    BY DEF SocketInv, SocketTypes
  <1> QED
    BY <1>1, SocketStays DEF Socket!UdtFails, HasSocket, Socket!Invalid

\* The destructor takes from open the handle of its object and no other.
LEMMA DestroyKeeps ==
  ASSUME SocketInv, NEW o \in Socket!Objects, Socket!Destroy(o)
  PROVE  SocketInv'
  <1>1. at[o] = "leaving" /\ at' = [at EXCEPT ![o] = "none"] /\ UNCHANGED <<m_usock, given>>
    BY DEF Socket!Destroy, Socket!Goes
  <1>2. m_usock[o] \in open /\ m_usock[o] # Socket!Invalid
    BY <1>1 DEF SocketInv, SocketTypes, Paired, HasSocket, Socket!Invalid
  <1>3. open' = open \ {m_usock[o]} /\ ~stray'
    BY <1>2 DEF Socket!Destroy, SocketInv, Paired
  <1>4. SocketTypes'
    BY <1>1, <1>3 DEF SocketInv, SocketTypes, Places
  <1>5. \A p \in Socket!Objects : HasSocket(p)' <=> HasSocket(p) /\ p # o
    BY <1>1 DEF SocketInv, SocketTypes, HasSocket
  <1>6. \A p \in Socket!Objects : \A h : Socket!Holds(p, h)' <=> Socket!Holds(p, h) /\ p # o
    BY <1>1, <1>5 DEF Socket!Holds, HasSocket
  <1>7. \A p \in Socket!Objects : HasSocket(p) /\ p # o => m_usock[p] # m_usock[o]
    BY <1>1 DEF SocketInv, Paired, HasSocket
  <1>8. \A h \in open' : \E p \in Socket!Objects : Socket!Holds(p, h)'
    BY <1>3, <1>6 DEF SocketInv, Paired, Socket!Holds
  <1> QED
    BY <1>1, <1>3, <1>4, <1>5, <1>7, <1>8 DEF SocketInv, Paired

\* No step of the server, of its jobs or of the client breaks the pairing.
LEMMA SocketKeeps ==
  ASSUME MaxHandles \in Nat, SocketInv, Socket!Next
  PROVE  SocketInv'
  <1>a. Socket!Main \in Socket!Objects /\ Jobs \subseteq Socket!Objects
    BY DEF Socket!Objects
  <1>b. \A o \in Socket!Objects : at[o] \in Places /\ m_usock[o] \in Socket!Handle \cup {Socket!Invalid}
                           /\ m_usock = [m_usock EXCEPT ![o] = m_usock[o]]
    BY DEF SocketInv, SocketTypes
  <1>c. ASSUME UNCHANGED <<at, m_usock, open, given, stray>> PROVE SocketInv'
    BY <1>c DEF SocketInv, SocketTypes, Paired, HasSocket, Socket!Holds
  <1>1. CASE Socket!Construct \/ \E j \in Jobs : Socket!StartJob(j)
    BY <1>1, <1>a, SocketStays DEF Socket!Construct, Socket!StartJob, Socket!Goes, Socket!Garbage, HasSocket, Places
  <1>2. CASE Socket!Create \/ \E j \in Jobs : Socket!Accept(j)
    BY <1>2, <1>a, SocketGiven DEF Socket!Create, Socket!Accept, Socket!Goes, HasSocket, Places
  <1>3. CASE Socket!CreateFails
    BY <1>3, <1>a, <1>c, NoSocketGiven DEF Socket!CreateFails, HasSocket
  <1>4. ASSUME NEW j \in Jobs, Socket!AcceptFails(j) PROVE SocketInv'
    BY <1>4, <1>a, NoSocketGiven DEF Socket!AcceptFails, HasSocket
  <1>5. CASE Socket!EstablishFails \/ \E j \in Jobs : Socket!DocumentWrong(j)
    BY <1>5, <1>c DEF Socket!EstablishFails, Socket!DocumentWrong
  <1>6. CASE Socket!BindAndListen \/ Socket!Connect \/ \E o \in Socket!Objects : Socket!Exchange(o) \/ Socket!ExchangeFails(o)
    <2>1. PICK o \in Socket!Objects, to \in Places \ {"none", "made"} :
            HasSocket(o) /\ at' = [at EXCEPT ![o] = to]
      BY <1>6, <1>a DEF Socket!BindAndListen, Socket!Connect, Socket!Exchange, Socket!ExchangeFails, Socket!Goes, HasSocket, Places
    <2>2. UNCHANGED <<m_usock, open, given, stray>>
      BY <1>6 DEF Socket!BindAndListen, Socket!Connect, Socket!Exchange, Socket!ExchangeFails
    <2> QED
      BY <2>1, <2>2, <1>b, SocketStays
  <1>7. CASE \E o \in Socket!Objects : Socket!Destroy(o)
    BY <1>7, DestroyKeeps
  <1> QED
    BY <1>1, <1>2, <1>3, <1>4, <1>5, <1>6, <1>7 DEF Socket!Next

LEMMA SameCardinality == \A S : Socket!Cardinality(S) = Cardinality(S)
  BY Zenon DEF Socket!Cardinality, Cardinality

\* However many jobs serve at a time and on whichever path each ends, a socket
\* object closes the handle that it was given and no other (UDTSocket.cpp:19-32).
THEOREM EachClosesItsOwnHolds == MaxHandles \in Nat => (Socket!Spec => []Socket!EachClosesItsOwn)
  <1> SUFFICES ASSUME MaxHandles \in Nat PROVE Socket!Spec => []Socket!EachClosesItsOwn
    OBVIOUS
  <1>1. Socket!Init => SocketInv
    <2> SUFFICES ASSUME Socket!Init PROVE SocketInv
      OBVIOUS
    <2>1. SocketTypes
      BY DEF Socket!Init, SocketTypes, Places, Socket!Invalid
    <2> QED
      BY <2>1 DEF Socket!Init, SocketInv, Paired, HasSocket
  <1>2. SocketInv /\ [Socket!Next]_(Socket!vars) => SocketInv'
    <2>1. CASE UNCHANGED Socket!vars
      BY <2>1 DEF Socket!vars, SocketInv, SocketTypes, Paired, HasSocket, Socket!Holds
    <2> QED
      BY <2>1, SocketKeeps
  <1>3. SocketInv => Socket!EachClosesItsOwn
    <2> SUFFICES ASSUME SocketInv, NEW h \in open
                 PROVE Socket!Cardinality({o \in Socket!Objects : Socket!Holds(o, h)}) = 1
      BY DEF SocketInv, Paired, Socket!EachClosesItsOwn
    <2>1. PICK o \in Socket!Objects : Socket!Holds(o, h)
      BY DEF SocketInv, Paired
    <2>2. {p \in Socket!Objects : Socket!Holds(p, h)} = {o}
      BY <2>1 DEF SocketInv, Paired, Socket!Holds, HasSocket
    <2> QED
      BY <2>2, FS_Singleton, SameCardinality
  <1> QED
    BY <1>1, <1>2, <1>3, PTL DEF Socket!Spec
-----------------------------------------------------------------------------
(* KadRpcs: the structs, and what is on the connection.                    *)

\* The struct that reads what another wrote: of the fields always written none is unknown.
Fits(known, written) == written.always \subseteq known

\* The messages and what they say.
LEMMA MethodNames ==
    /\ Rpcs!PingMethod.name = "Ping" /\ Rpcs!FindValueMethod.name = "FindValue"
    /\ Rpcs!FindNodeMethod.name = "FindNode" /\ Rpcs!StoreMethod.name = "Store"
    /\ Rpcs!DownlistMethod.name = "Downlist" /\ Rpcs!BootstrapMethod.name = "Bootstrap"
    /\ Rpcs!DeleteMethod.name = "Delete" /\ Rpcs!UpdateMethod.name = "Update"
  BY DEF Rpcs!Method, Rpcs!PingMethod, Rpcs!FindValueMethod, Rpcs!FindNodeMethod, Rpcs!StoreMethod, Rpcs!DownlistMethod,
         Rpcs!BootstrapMethod, Rpcs!DeleteMethod, Rpcs!UpdateMethod

LEMMA OneOfAName ==
    /\ \A m \in Rpcs!Methods : m.name # "none"
    /\ \A m, n \in Rpcs!Methods : m.name = n.name => m = n
  BY MethodNames DEF Rpcs!Methods

LEMMA RequestsFit == \A m \in Rpcs!Methods : Fits(m.reqKnown, m.reqWritten)
  <1>1. Fits(Rpcs!PingRequestKnown, Rpcs!PingRequestWritten)
    BY DEF Fits, Rpcs!PingRequestKnown, Rpcs!PingRequestWritten
  <1>2. Fits(Rpcs!FindRequestKnown, Rpcs!FindRequestWritten)
    BY DEF Fits, Rpcs!FindRequestKnown, Rpcs!FindRequestWritten
  <1>3. Fits(Rpcs!StoreRequestKnown, Rpcs!StoreRequestWritten)
    BY DEF Fits, Rpcs!StoreRequestKnown, Rpcs!StoreRequestWritten
  <1>4. Fits(Rpcs!DownlistRequestKnown, Rpcs!DownlistRequestWritten)
    BY DEF Fits, Rpcs!DownlistRequestKnown, Rpcs!DownlistRequestWritten
  <1>5. Fits(Rpcs!BootstrapRequestKnown, Rpcs!BootstrapRequestWritten)
    BY DEF Fits, Rpcs!BootstrapRequestKnown, Rpcs!BootstrapRequestWritten
  <1>6. Fits(Rpcs!DeleteRequestKnown, Rpcs!DeleteRequestWritten)
    BY DEF Fits, Rpcs!DeleteRequestKnown, Rpcs!DeleteRequestWritten
  <1>7. Fits(Rpcs!UpdateRequestKnown, Rpcs!UpdateRequestWritten)
    BY DEF Fits, Rpcs!UpdateRequestKnown, Rpcs!UpdateRequestWritten
  <1>8. \A name, a, b, c, d : /\ Rpcs!Method(name, a, b, c, d).reqKnown = a
                              /\ Rpcs!Method(name, a, b, c, d).reqWritten = b
    BY DEF Rpcs!Method
  <1> QED
    BY <1>1, <1>2, <1>3, <1>4, <1>5, <1>6, <1>7, <1>8
    DEF Rpcs!Methods, Rpcs!PingMethod, Rpcs!FindValueMethod, Rpcs!FindNodeMethod, Rpcs!StoreMethod, Rpcs!DownlistMethod,
        Rpcs!BootstrapMethod, Rpcs!DeleteMethod, Rpcs!UpdateMethod

LEMMA ResponsesFit == \A m \in Rpcs!Methods : Fits(m.respKnown, m.respWritten)
  <1>1. Fits(Rpcs!PingResponseKnown, Rpcs!PingResponseWritten)
    BY DEF Fits, Rpcs!PingResponseKnown, Rpcs!PingResponseWritten
  <1>2. Fits(Rpcs!FindResponseKnown, Rpcs!FindResponseWritten)
    BY DEF Fits, Rpcs!FindResponseKnown, Rpcs!FindResponseWritten
  <1>3. Fits(Rpcs!StoreResponseKnown, Rpcs!StoreResponseWritten)
    BY DEF Fits, Rpcs!StoreResponseKnown, Rpcs!StoreResponseWritten
  <1>4. Fits(Rpcs!DownlistResponseKnown, Rpcs!DownlistResponseWritten)
    BY DEF Fits, Rpcs!DownlistResponseKnown, Rpcs!DownlistResponseWritten
  <1>5. Fits(Rpcs!BootstrapResponseKnown, Rpcs!BootstrapResponseWritten)
    BY DEF Fits, Rpcs!BootstrapResponseKnown, Rpcs!BootstrapResponseWritten
  <1>6. Fits(Rpcs!DeleteResponseKnown, Rpcs!DeleteResponseWritten)
    BY DEF Fits, Rpcs!DeleteResponseKnown, Rpcs!DeleteResponseWritten
  <1>7. Fits(Rpcs!UpdateResponseKnown, Rpcs!UpdateResponseWritten)
    BY DEF Fits, Rpcs!UpdateResponseKnown, Rpcs!UpdateResponseWritten
  <1>8. \A name, a, b, c, d : /\ Rpcs!Method(name, a, b, c, d).respKnown = c
                              /\ Rpcs!Method(name, a, b, c, d).respWritten = d
    BY DEF Rpcs!Method
  <1> QED
    BY <1>1, <1>2, <1>3, <1>4, <1>5, <1>6, <1>7, <1>8
    DEF Rpcs!Methods, Rpcs!PingMethod, Rpcs!FindValueMethod, Rpcs!FindNodeMethod, Rpcs!StoreMethod, Rpcs!DownlistMethod,
        Rpcs!BootstrapMethod, Rpcs!DeleteMethod, Rpcs!UpdateMethod

LEMMA InnerFits == \A f \in DOMAIN Rpcs!Inner : Fits(Rpcs!Inner[f].known, Rpcs!Inner[f].written)
  <1>1. Fits(Rpcs!ContactInfoKnown, Rpcs!ContactInfoWritten)
    BY DEF Fits, Rpcs!ContactInfoKnown, Rpcs!ContactInfoWritten
  <1>2. Fits(Rpcs!SignedValueKnown, Rpcs!SignedValueWritten)
    BY DEF Fits, Rpcs!SignedValueKnown, Rpcs!SignedValueWritten
  <1>3. Fits(Rpcs!SignedRequestKnown, Rpcs!SignedRequestWritten)
    BY DEF Fits, Rpcs!SignedRequestKnown, Rpcs!SignedRequestWritten
  <1>4. /\ DOMAIN Rpcs!Inner = {"sender_info", "value", "signed_request"}
        /\ Rpcs!Inner["sender_info"] = [known |-> Rpcs!ContactInfoKnown, written |-> Rpcs!ContactInfoWritten]
        /\ Rpcs!Inner["value"] = [known |-> Rpcs!SignedValueKnown, written |-> Rpcs!SignedValueWritten]
        /\ Rpcs!Inner["signed_request"] = [known |-> Rpcs!SignedRequestKnown, written |-> Rpcs!SignedRequestWritten]
    BY DEF Rpcs!Inner
  <1>5. \A f \in DOMAIN Rpcs!Inner : f \in {"sender_info", "value", "signed_request"}
    BY <1>4
  <1> QED
    BY <1>1, <1>2, <1>3, <1>4, <1>5

\* What a fresh object writes, and what is read of it.
LEMMA FreshWrites ==
    ASSUME NEW written, NEW names
    PROVE  /\ Rpcs!Write(written, Rpcs!Assign(Rpcs!New, names)).fields = written.always
           /\ Rpcs!Write(written, Rpcs!Assign(Rpcs!New, names)).said = names \cap Rpcs!Names(written.always)
  BY DEF Rpcs!Write, Rpcs!Assign, Rpcs!New

LEMMA FreshIsRead ==
    ASSUME NEW known, NEW written, Fits(known, written), NEW names, NEW target
    PROVE  Rpcs!ReadInto(known, target, Rpcs!Write(written, Rpcs!Assign(Rpcs!New, names))).said =
               (target.said \ Rpcs!Names(written.always)) \cup (names \cap Rpcs!Names(written.always))
  <1> DEFINE wire == Rpcs!Write(written, Rpcs!Assign(Rpcs!New, names))
  <1>1. wire.fields \cap known = written.always
    BY FreshWrites DEF Fits
  <1>2. wire.said = names \cap Rpcs!Names(written.always)
    BY FreshWrites
  <1> HIDE DEF wire
  <1>3. Rpcs!ReadInto(known, target, wire).said
          = (target.said \ Rpcs!Names(written.always)) \cup (wire.said \cap Rpcs!Names(written.always))
    BY <1>1 DEF Rpcs!ReadInto
  <1> QED
    BY <1>2, <1>3, Zenon DEF wire

LEMMA NamesGrow == \A A, B : A \subseteq B => Rpcs!Names(A) \subseteq Rpcs!Names(B)
  BY DEF Rpcs!Names

-----------------------------------------------------------------------------
\* The requests that a Send can put on the connection, and the answers to them.
FieldNames ==
    {"ping", "sender_info", "key", "is_boostrap", "value", "ttl", "publish", "downlist", "newcomer_id",
     "newcomer_local_ip", "newcomer_local_port", "signed_request"} \cup Rpcs!Names(Rpcs!UpdateRequestKnown)

Structs(fields) == [f \in fields |-> Rpcs!Write(Rpcs!Inner[f].written, Rpcs!Assign(Rpcs!New, Rpcs!Names(Rpcs!Inner[f].known)))]

RequestOf(method, n, names, fields) ==
    [name |-> method.name, of |-> n, meant |-> names, inner |-> Structs(fields),
     args |-> Rpcs!Write(method.reqWritten, Rpcs!Assign(Rpcs!New, names))]

Requests ==
    {RequestOf(method, n, names, fields) :
        method \in Rpcs!Methods, n \in Nat, names \in SUBSET FieldNames, fields \in SUBSET DOMAIN Rpcs!Inner}

Answers ==
    {[type |-> type, name |-> method.name,
      result |-> Rpcs!Write(method.respWritten, Rpcs!Assign(Rpcs!New, Rpcs!Names(method.respKnown))), of |-> n]
        : type \in {"reply", "exception"}, method \in Rpcs!Methods, n \in Nat}

\* The call in progress is the latest, and its response is as the caller gave it.
Calling ==
    /\ made \in Nat
    /\ call # Rpcs!NoCall => call.number = made /\ resp.said = call.held

\* As long as no wait was given up, the connection holds one message, of the call in
\* progress, and nothing between two calls.
Alone ==
    ~gaveUp => IF call = Rpcs!NoCall THEN upward = <<>> /\ downward = <<>>
               ELSE \/ Len(upward) = 1 /\ Head(upward).of = made /\ downward = <<>>
                    \/ Len(downward) = 1 /\ Head(downward).of = made /\ upward = <<>>

\* The two halves of OptionalFieldsAreLost.
ServedRight ==
    served.method # "none" =>
        /\ served.got.said = served.meant \cap Rpcs!Always(served.method)
        /\ \A f \in DOMAIN served.inner :
               served.inner[f].said = Rpcs!Names(Rpcs!Inner[f].written.always)

AnsweredRight ==
    last.how = "answered" =>
        \E m \in Rpcs!Methods : resp.said = Rpcs!Names(m.respWritten.always) \cup last.kept

RpcInv ==
    /\ upward \in Seq(Requests) /\ downward \in Seq(Answers)
    /\ Calling /\ Alone /\ Rpcs!EndedByItsOwn /\ ServedRight /\ AnsweredRight

\* A client begins a call: the connection holds nothing but its request, unless an exception
\* has left something behind.
LEMMA SendKeeps ==
    ASSUME RpcInv, NEW method \in Rpcs!Methods, NEW names \in SUBSET FieldNames, NEW response,
           Rpcs!Send(method, names, response)
    PROVE  RpcInv'
  <1> DEFINE m == RequestOf(method, made + 1, names, Rpcs!InnerOf(method) \cap names)
             before == IF isOpen THEN upward ELSE <<>>
  <1>1. /\ call = Rpcs!NoCall /\ made' = made + 1 /\ upward' = Append(before, m)
        /\ downward' = (IF isOpen THEN downward ELSE <<>>) /\ resp' = response
        /\ call' = [name |-> method.name, number |-> made + 1, held |-> response.said]
        /\ last' = [how |-> "none", of |-> 0, kept |-> {}]
        /\ UNCHANGED <<gaveUp, served>>
    BY DEF Rpcs!Send, Rpcs!Idle, RequestOf, Structs
  <1>2. m \in Requests
    <2>1. Rpcs!InnerOf(method) \cap names \in SUBSET DOMAIN Rpcs!Inner /\ made + 1 \in Nat
      BY DEF Rpcs!InnerOf, RpcInv, Calling
    <2> QED
      BY <2>1 DEF Requests
  <1>3. before \in Seq(Requests) /\ downward' \in Seq(Answers)
    BY <1>1 DEF RpcInv
  <1>4. m.of = made + 1
    BY DEF RequestOf
  <1> HIDE DEF m, before
  <1>5. upward' \in Seq(Requests)
    BY <1>1, <1>2, <1>3
  <1>6. Calling' /\ call' # Rpcs!NoCall
    BY <1>1, OneOfAName DEF RpcInv, Calling, Rpcs!NoCall
  <1>7. Alone'
    <2>1. ~gaveUp => before = <<>> /\ downward' = <<>>
      BY <1>1 DEF RpcInv, Alone, before
    <2>2. ~gaveUp => Len(upward') = 1 /\ Head(upward') = m
      BY <1>1, <1>2, <2>1
    <2> QED
      BY <1>1, <1>4, <1>6, <2>1, <2>2 DEF Alone
  <1>8. Rpcs!EndedByItsOwn' /\ AnsweredRight' /\ ServedRight'
    BY <1>1 DEF RpcInv, Rpcs!EndedByItsOwn, AnsweredRight, ServedRight
  <1> QED
    BY <1>1, <1>3, <1>5, <1>6, <1>7, <1>8 DEF RpcInv

LEMMA SendsKeep ==
    ASSUME RpcInv, Rpcs!SendPing \/ Rpcs!SendFindValue \/ Rpcs!SendFindNode \/ Rpcs!SendStore \/ Rpcs!SendSignedStore
           \/ Rpcs!SendDownlist \/ Rpcs!SendBootstrap \/ Rpcs!SendDelete \/ Rpcs!SendUpdate
    PROVE  RpcInv'
  <1>1. Rpcs!Names(Rpcs!UpdateRequestKnown) \in SUBSET FieldNames
    BY DEF FieldNames
  <1>2. ASSUME Rpcs!SendFindNode PROVE RpcInv'
    <2>1. PICK response : Rpcs!Send(Rpcs!FindNodeMethod,
            {"key", "sender_info"} \cup {b \in {"is_boostrap"} : response # Rpcs!New}, response)
      BY <1>2 DEF Rpcs!SendFindNode
    <2>2. {"key", "sender_info"} \cup {b \in {"is_boostrap"} : response # Rpcs!New} \in SUBSET FieldNames
      BY DEF FieldNames
    <2> QED
      BY <2>1, <2>2, SendKeeps DEF Rpcs!Methods
  <1>3. /\ {Rpcs!PingMethod, Rpcs!FindValueMethod, Rpcs!FindNodeMethod, Rpcs!StoreMethod, Rpcs!DownlistMethod, Rpcs!BootstrapMethod,
            Rpcs!DeleteMethod, Rpcs!UpdateMethod} = Rpcs!Methods
        /\ {"ping", "sender_info", "key", "is_boostrap", "value", "ttl", "publish", "downlist", "newcomer_id",
            "newcomer_local_ip", "newcomer_local_port", "signed_request"} \subseteq FieldNames
    BY DEF Rpcs!Methods, FieldNames
  <1>4. ASSUME Rpcs!SendPing \/ Rpcs!SendFindValue \/ Rpcs!SendStore \/ Rpcs!SendSignedStore PROVE RpcInv'
    BY <1>3, <1>4, SendKeeps DEF Rpcs!SendPing, Rpcs!SendFindValue, Rpcs!SendStore, Rpcs!SendSignedStore
  <1>5. ASSUME Rpcs!SendDownlist \/ Rpcs!SendBootstrap \/ Rpcs!SendDelete \/ Rpcs!SendUpdate PROVE RpcInv'
    BY <1>1, <1>3, <1>5, SendKeeps DEF Rpcs!SendDownlist, Rpcs!SendBootstrap, Rpcs!SendDelete, Rpcs!SendUpdate
  <1> QED
    BY <1>2, <1>4, <1>5

\* The server takes the request at the head and answers it.
LEMMA ProcessKeeps ==
    ASSUME RpcInv, NEW method \in Rpcs!Methods, Rpcs!Process(method)
    PROVE  RpcInv'
  <1> DEFINE m == Head(upward)
  <1>1. /\ upward # <<>> /\ m.name = method.name /\ upward' = Tail(upward)
        /\ served' = Rpcs!Request(method, m)
        /\ UNCHANGED <<isOpen, call, made, resp, last, gaveUp>>
    BY DEF Rpcs!Process
  <1>2. m \in Requests /\ upward' \in Seq(Requests)
    BY <1>1 DEF RpcInv
  <1>3. PICK r \in Answers : downward' = Append(downward, r) /\ r.of = m.of
    <2>1. PICK reply \in Rpcs!Replies(method) :
            downward' = Append(downward, [type |-> reply.type, name |-> reply.name,
                                  result |-> reply.result, of |-> m.of])
      BY DEF Rpcs!Process
    <2>2. /\ reply.type \in {"reply", "exception"} /\ reply.name = method.name
          /\ reply.result = Rpcs!Write(method.respWritten, Rpcs!Assign(Rpcs!New, Rpcs!Names(method.respKnown)))
      BY DEF Rpcs!Replies
    <2>3. m.of \in Nat
      <3>1. PICK k \in Rpcs!Methods, n \in Nat, names \in SUBSET FieldNames, fields \in SUBSET DOMAIN Rpcs!Inner : m = RequestOf(k, n, names, fields)
        BY <1>2 DEF Requests
      <3> QED
        BY <3>1 DEF RequestOf
    <2> QED
      BY <2>1, <2>2, <2>3 DEF Answers
  <1>4. ServedRight'
    <2>0. PICK k \in Rpcs!Methods, n \in Nat, names \in SUBSET FieldNames, structs \in SUBSET DOMAIN Rpcs!Inner :
            m = RequestOf(k, n, names, structs)
      BY <1>2 DEF Requests
    <2>a. m.name = k.name /\ k = method
      <3>1. m.name = k.name
        BY <2>0 DEF RequestOf
      <3> QED
        BY <1>1, <3>1, OneOfAName
    <2>1. /\ m.meant = names
          /\ DOMAIN m.inner = structs
          /\ \A f \in structs : m.inner[f] = Rpcs!Write(Rpcs!Inner[f].written, Rpcs!Assign(Rpcs!New, Rpcs!Names(Rpcs!Inner[f].known)))
          /\ m.args = Rpcs!Write(method.reqWritten, Rpcs!Assign(Rpcs!New, names))
      BY <2>0, <2>a DEF RequestOf, Structs
    <2>2. Rpcs!Always(method.name) = Rpcs!Names(method.reqWritten.always)
      <3>1. \A q \in Rpcs!Methods : q.name = method.name <=> q = method
        BY OneOfAName
      <3>2. (CHOOSE q \in Rpcs!Methods : q.name = method.name) = method
        BY <3>1
      <3> QED
        BY <3>2 DEF Rpcs!Always
    <2>3. Rpcs!ReadInto(method.reqKnown, Rpcs!New, m.args).said = names \cap Rpcs!Names(method.reqWritten.always)
      BY <2>1, FreshIsRead, RequestsFit DEF Rpcs!New
    <2>4. ASSUME NEW f \in structs
          PROVE  Rpcs!ReadInto(Rpcs!Inner[f].known, Rpcs!New, m.inner[f]).said = Rpcs!Names(Rpcs!Inner[f].written.always)
      <3>1. Fits(Rpcs!Inner[f].known, Rpcs!Inner[f].written)
        BY InnerFits
      <3>2. Rpcs!Names(Rpcs!Inner[f].written.always) \subseteq Rpcs!Names(Rpcs!Inner[f].known)
        BY <3>1, NamesGrow DEF Fits
      <3>3. Rpcs!New.said = {}
        BY DEF Rpcs!New
      <3>4. m.inner[f] = Rpcs!Write(Rpcs!Inner[f].written, Rpcs!Assign(Rpcs!New, Rpcs!Names(Rpcs!Inner[f].known)))
        BY <2>1
      <3>5. Rpcs!ReadInto(Rpcs!Inner[f].known, Rpcs!New, m.inner[f]).said
              = (Rpcs!New.said \ Rpcs!Names(Rpcs!Inner[f].written.always))
                  \cup (Rpcs!Names(Rpcs!Inner[f].known) \cap Rpcs!Names(Rpcs!Inner[f].written.always))
        BY <3>1, <3>4, FreshIsRead
      <3> QED
        BY <3>2, <3>3, <3>5
    <2>5. /\ served'.got.said = names \cap Rpcs!Names(method.reqWritten.always)
          /\ served'.method = method.name /\ served'.meant = names
          /\ DOMAIN served'.inner = structs
          /\ \A f \in structs : served'.inner[f] = Rpcs!ReadInto(Rpcs!Inner[f].known, Rpcs!New, m.inner[f])
      BY <1>1, <2>1, <2>3 DEF Rpcs!Request
    <2> QED
      BY <2>2, <2>4, <2>5 DEF ServedRight
  <1>5. Alone'
    <2> SUFFICES ASSUME ~gaveUp PROVE Alone'
      BY <1>1 DEF Alone
    <2>1. call # Rpcs!NoCall /\ Len(upward) = 1 /\ m.of = made /\ downward = <<>>
      BY <1>1 DEF RpcInv, Alone
    <2>2. upward' = <<>> /\ downward' = <<r>>
      BY <1>1, <1>2, <1>3, <2>1 DEF RpcInv
    <2> QED
      BY <1>1, <1>3, <2>1, <2>2 DEF Alone
  <1>6. downward' \in Seq(Answers)
    BY <1>3 DEF RpcInv
  <1>7. Calling' /\ Rpcs!EndedByItsOwn' /\ AnsweredRight'
    BY <1>1 DEF RpcInv, Calling, Rpcs!EndedByItsOwn, AnsweredRight
  <1> QED
    BY <1>2, <1>4, <1>5, <1>6, <1>7 DEF RpcInv

\* The client takes the answer at the head, whosever it is.
LEMMA ReceiveKeeps ==
    ASSUME RpcInv, NEW method \in Rpcs!Methods, Rpcs!Receive(method)
    PROVE  RpcInv'
  <1> DEFINE r == Head(downward)
  <1>1. call.name = method.name /\ downward # <<>> /\ call # Rpcs!NoCall
    BY OneOfAName DEF Rpcs!Receive, Rpcs!NoCall
  <1>2. r \in Answers /\ Tail(downward) \in Seq(Answers)
    BY <1>1 DEF RpcInv
  <1>3. ~gaveUp => r.of = made /\ upward = <<>> /\ Tail(downward) = <<>>
    <2>1. ~gaveUp => Len(downward) = 1 /\ r.of = made /\ upward = <<>>
      BY <1>1 DEF RpcInv, Alone
    <2>2. downward \in Seq(Answers)
      BY DEF RpcInv
    <2>3. Len(downward) = 1 => Tail(downward) = <<>>
      <3>1. Tail(downward) \in Seq(Answers) /\ Len(Tail(downward)) = Len(downward) - 1
        BY <1>1, <2>2, HeadTailProperties
      <3>2. Tail(downward) # <<>> => Len(Tail(downward)) \in Nat \ {0}
        BY <3>1, EmptySeq
      <3> QED
        BY <3>1, <3>2
    <2> QED
      BY <2>1, <2>3
  <1>4. CASE Rpcs!Refused(method)
    <2>1. /\ call' = Rpcs!NoCall /\ last' = [how |-> "refused", of |-> r.of, kept |-> {}]
          /\ downward' = Tail(downward) /\ UNCHANGED <<upward, made, resp, gaveUp, served>>
      BY <1>4 DEF Rpcs!Refused
    <2> QED
      BY <1>2, <1>3, <2>1 DEF RpcInv, Calling, Alone, Rpcs!EndedByItsOwn, ServedRight, AnsweredRight
  <1>5. CASE Rpcs!Answered(method) /\ r.name = method.name
    <2>1. /\ call' = Rpcs!NoCall /\ last' = [how |-> "answered", of |-> r.of, kept |-> call.held]
          /\ resp' = Rpcs!ReadInto(method.respKnown, resp, r.result)
          /\ downward' \in {<<>>, Tail(downward)} /\ upward' = <<>> /\ UNCHANGED <<made, gaveUp, served>>
      BY <1>5 DEF Rpcs!Answered
    <2>2. r.result = Rpcs!Write(method.respWritten, Rpcs!Assign(Rpcs!New, Rpcs!Names(method.respKnown)))
      BY <1>2, <1>5, OneOfAName DEF Answers
    <2>3. resp'.said = (resp.said \ Rpcs!Names(method.respWritten.always))
                         \cup (Rpcs!Names(method.respKnown) \cap Rpcs!Names(method.respWritten.always))
      BY <2>1, <2>2, FreshIsRead, ResponsesFit
    <2>4. Rpcs!Names(method.respWritten.always) \subseteq Rpcs!Names(method.respKnown)
      BY ResponsesFit, NamesGrow DEF Fits
    <2>5. resp'.said = Rpcs!Names(method.respWritten.always) \cup call.held
      BY <1>1, <2>3, <2>4 DEF RpcInv, Calling
    <2>6. AnsweredRight'
      BY <2>1, <2>5 DEF AnsweredRight
    <2>7. upward' \in Seq(Requests) /\ downward' \in Seq(Answers)
      <3>1. <<>> \in Seq(Requests) /\ <<>> \in Seq(Answers)
        OBVIOUS
      <3> QED
        BY <1>2, <2>1, <3>1
    <2> QED
      BY <1>3, <2>1, <2>6, <2>7 DEF RpcInv, Calling, Alone, Rpcs!EndedByItsOwn, ServedRight
  <1> QED
    BY <1>4, <1>5 DEF Rpcs!Receive

LEMMA RpcKeeps == ASSUME RpcInv, Rpcs!Next PROVE RpcInv'
  <1>1. CASE Rpcs!CannotOpen
    <2>1. /\ call = Rpcs!NoCall /\ made' = made + 1 /\ last' = [how |-> "not open", of |-> made + 1, kept |-> {}]
          /\ UNCHANGED <<upward, downward, call, resp, gaveUp, served>>
      BY <1>1 DEF Rpcs!CannotOpen, Rpcs!Idle
    <2>2. Calling' /\ Alone'
      <3>1. made \in Nat /\ (~gaveUp => upward = <<>> /\ downward = <<>>)
        BY <2>1 DEF RpcInv, Calling, Alone
      <3>2. made' \in Nat
        <4>1. made' = made + 1 /\ made \in Nat
          BY <2>1, <3>1, Zenon
        <4> QED
          BY <4>1
      <3>3. call' = Rpcs!NoCall /\ (~gaveUp' => upward' = <<>> /\ downward' = <<>>)
        BY <2>1, <3>1, Zenon
      <3> QED
        BY <3>2, <3>3 DEF Calling, Alone
    <2>3. Rpcs!EndedByItsOwn' /\ ServedRight' /\ AnsweredRight'
      BY <2>1 DEF RpcInv, Rpcs!EndedByItsOwn, ServedRight, AnsweredRight
    <2> QED
      BY <2>1, <2>2, <2>3 DEF RpcInv
  <1>2. CASE Rpcs!GiveUp
    BY <1>2 DEF Rpcs!GiveUp, RpcInv, Calling, Alone, Rpcs!EndedByItsOwn, ServedRight, AnsweredRight
  <1>3. CASE \E method \in Rpcs!Methods : Rpcs!Receive(method)
    BY <1>3, ReceiveKeeps
  <1>4. CASE \E method \in Rpcs!Methods : Rpcs!Process(method)
    BY <1>4, ProcessKeeps
  <1>5. CASE Rpcs!ReceivePing \/ Rpcs!ReceiveFindValue \/ Rpcs!ReceiveFindNode \/ Rpcs!ReceiveStore
             \/ Rpcs!ReceiveDownlist \/ Rpcs!ReceiveBootstrap \/ Rpcs!ReceiveDelete \/ Rpcs!ReceiveUpdate
    BY <1>3, <1>5
    DEF Rpcs!Methods, Rpcs!ReceivePing, Rpcs!ReceiveFindValue, Rpcs!ReceiveFindNode, Rpcs!ReceiveStore, Rpcs!ReceiveDownlist,
        Rpcs!ReceiveBootstrap, Rpcs!ReceiveDelete, Rpcs!ReceiveUpdate
  <1>6. CASE Rpcs!ProcessPing \/ Rpcs!ProcessFindValue \/ Rpcs!ProcessFindNode \/ Rpcs!ProcessStore
             \/ Rpcs!ProcessDownlist \/ Rpcs!ProcessBootstrap \/ Rpcs!ProcessDelete \/ Rpcs!ProcessUpdate
    BY <1>4, <1>6
    DEF Rpcs!Methods, Rpcs!ProcessPing, Rpcs!ProcessFindValue, Rpcs!ProcessFindNode, Rpcs!ProcessStore, Rpcs!ProcessDownlist,
        Rpcs!ProcessBootstrap, Rpcs!ProcessDelete, Rpcs!ProcessUpdate
  <1> QED
    BY <1>1, <1>2, <1>5, <1>6, SendsKeep DEF Rpcs!Next

LEMMA RpcInvHolds == Rpcs!Spec => []RpcInv
  <1>1. Rpcs!Init => RpcInv
    BY DEF Rpcs!Init, RpcInv, Calling, Alone, Rpcs!EndedByItsOwn, ServedRight, AnsweredRight
  <1>2. RpcInv /\ [Rpcs!Next]_(Rpcs!vars) => RpcInv'
    <2>1. CASE UNCHANGED Rpcs!vars
      BY <2>1 DEF Rpcs!vars, RpcInv, Calling, Alone, Rpcs!EndedByItsOwn, ServedRight, AnsweredRight
    <2> QED
      BY <2>1, RpcKeeps
  <1> QED
    BY <1>1, <1>2, PTL DEF Rpcs!Spec

LEMMA RpcInvSays == RpcInv => Rpcs!EndedByItsOwn /\ Rpcs!OptionalFieldsAreLost
  BY DEF RpcInv, Rpcs!OptionalFieldsAreLost, ServedRight, AnsweredRight

\* Of any number of calls of a KadRpcs, what ends one before a wait was given up is the answer to
\* it, and the optional fields are lost both ways (kadrpc.cpp:38-330, KademliaService.cpp).
THEOREM CallsEndTheirOwnHolds == Rpcs!Spec => []CallsEndTheirOwn
  <1>1. RpcInv => CallsEndTheirOwn
    BY RpcInvSays DEF CallsEndTheirOwn
  <1> QED
    BY <1>1, RpcInvHolds, PTL

\* After an exception that leaves the transport open every later call ends before it is sent
\* (kadrpc.cpp:46).
THEOREM OneExceptionEndsItHolds == Rpcs!Spec => Rpcs!OneExceptionEndsIt
  <1>1. [Rpcs!Next]_(Rpcs!vars) => [(reopen = "throws" /\ isOpen /\ call = Rpcs!NoCall)
                          => (isOpen' /\ call' = Rpcs!NoCall /\ resp' = resp)]_(Rpcs!vars)
    <2> SUFFICES ASSUME Rpcs!Next, reopen = "throws", isOpen, call = Rpcs!NoCall
                 PROVE  isOpen' /\ call' = Rpcs!NoCall /\ resp' = resp
      OBVIOUS
    <2>1. call.name = "none"
      BY DEF Rpcs!NoCall
    <2>2. \A method \in Rpcs!Methods : ~Rpcs!Receive(method)
      BY <2>1, OneOfAName DEF Rpcs!Receive
    <2>3. \A method, names, response : ~Rpcs!Send(method, names, response)
      BY DEF Rpcs!Send
    <2>4. \A method : Rpcs!Process(method) => isOpen' /\ call' = Rpcs!NoCall /\ resp' = resp
      BY DEF Rpcs!Process
    <2> QED
      BY <2>2, <2>3, <2>4
      DEF Rpcs!Next, Rpcs!CannotOpen, Rpcs!GiveUp, Rpcs!SendPing, Rpcs!SendFindValue, Rpcs!SendFindNode, Rpcs!SendStore, Rpcs!SendSignedStore,
          Rpcs!SendDownlist, Rpcs!SendBootstrap, Rpcs!SendDelete, Rpcs!SendUpdate, Rpcs!Methods,
          Rpcs!ReceivePing, Rpcs!ReceiveFindValue, Rpcs!ReceiveFindNode, Rpcs!ReceiveStore, Rpcs!ReceiveDownlist,
          Rpcs!ReceiveBootstrap, Rpcs!ReceiveDelete, Rpcs!ReceiveUpdate, Rpcs!ProcessPing, Rpcs!ProcessFindValue,
          Rpcs!ProcessFindNode, Rpcs!ProcessStore, Rpcs!ProcessDownlist, Rpcs!ProcessBootstrap, Rpcs!ProcessDelete, Rpcs!ProcessUpdate
  <1> QED
    BY <1>1, PTL DEF Rpcs!Spec, Rpcs!OneExceptionEndsIt
-----------------------------------------------------------------------------
(* All of them.                                                            *)

\* However the threads, the calls of the routing table and the jobs of main.cpp take turns,
\* none of these objects is gone or another's while it is used (TThread.cpp, HandleClass.h:39-126,
\* UDTSocket.cpp:19-32): for any number of threads, buckets, jobs and sockets.
THEOREM ObjectsOutlastHolds ==
    MaxThreads \in Nat /\ MaxBuckets \in Nat \ {0} /\ 0 \notin Buckets /\ MaxHandles \in Nat
      => (Thread!Spec /\ Handle!Spec /\ Socket!Spec => []ObjectsOutlast)
  <1> SUFFICES ASSUME MaxThreads \in Nat, MaxBuckets \in Nat \ {0}, 0 \notin Buckets, MaxHandles \in Nat
               PROVE  Thread!Spec /\ Handle!Spec /\ Socket!Spec => []ObjectsOutlast
    OBVIOUS
  <1>1. Thread!Spec => [](Thread!TypeOK /\ Thread!JoinableIsSafe)
    BY JoinableIsSafeHolds
  <1>2. Handle!Spec => []Handle!BucketsAreCounted
    <2>1. Handle!HandleSizes
      BY DEF Handle!HandleSizes
    <2> QED
      BY <2>1, Handle!BucketsAreCountedHolds
  <1>3. Socket!Spec => []Socket!EachClosesItsOwn
    BY EachClosesItsOwnHolds
  <1>4. Thread!TypeOK /\ Thread!JoinableIsSafe /\ Handle!BucketsAreCounted /\ Socket!EachClosesItsOwn
          => ObjectsOutlast
    BY DEF ObjectsOutlast
  <1> QED
    BY <1>1, <1>2, <1>3, <1>4, PTL
=============================================================================
