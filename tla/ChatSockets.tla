----------------------------- MODULE ChatSockets -----------------------------
(* The UDT sockets of the Server and of the Client of src/src/main.cpp: the   *)
(* life of each UDTSocket object (src/src/UDTSocket.cpp, UDTServerSocket.cpp, *)
(* UDTClientSocket.cpp) and of the UDT handle in its m_usock, on every path   *)
(* by which a job of the pool or a constructor can end.                       *)
(*                                                                            *)
(* The constructor of UDTSocket leaves m_usock uninitialised: the object      *)
(* starts with any number, that of a handle of another object included. The   *)
(* UDT library is external: it gives numbers that were not given before.      *)
EXTENDS Naturals, FiniteSets

CONSTANTS Jobs,         \* the pool's threads that run a Server job at a time
          MaxHandles    \* how many handles UDT gives in a run

Invalid == 0            \* UDT::INVALID_SOCK
Handle == 1 .. MaxHandles
Main == "main"          \* the Server's listening socket, or the Client's socket

VARIABLES
  program,   \* which branch of main runs
  up,        \* the process runs
  at,        \* at[o]: where the code that uses the socket object o is
  m_usock,   \* m_usock[o]
  open,      \* the handles that UDT keeps open
  given,     \* how many handles UDT has given
  stray      \* a destructor has closed a handle that its object never opened

vars == <<program, up, at, m_usock, open, given, stray>>

Objects == Jobs \cup {Main}

Init ==
  /\ program \in {"Server", "Client"}
  /\ up = TRUE
  /\ at = [o \in Objects |-> "none"]
  /\ m_usock = [o \in Objects |-> Invalid]
  /\ open = {} /\ given = 0 /\ stray = FALSE

Goes(o, from, to) == up /\ at[o] = from /\ at' = [at EXCEPT ![o] = to]

\* The memory of a new object, whatever it holds.
Garbage(o) == \E g \in Handle \cup {Invalid} : m_usock' = [m_usock EXCEPT ![o] = g]

\* UDT gives object o a handle, or none.
UdtGives(o) ==
  /\ given < MaxHandles
  /\ given' = given + 1
  /\ open' = open \cup {given + 1}
  /\ m_usock' = [m_usock EXCEPT ![o] = given + 1]

UdtFails(o) == m_usock' = [m_usock EXCEPT ![o] = Invalid] /\ UNCHANGED <<open, given>>

\* An exception that nothing catches, exit, or a failed assert: no destructor runs.
ProcessEnds == up' = FALSE

(* The constructors UDTServerSocket(port) and UDTClientSocket(host, port).    *)
Construct ==
  /\ Goes(Main, "none", "made")
  /\ Garbage(Main)
  /\ UNCHANGED <<program, up, open, given, stray>>

\* create looks at m_usock before it has a value: INVALID_SOCK there is an error.
Create ==
  /\ m_usock[Main] # Invalid
  /\ Goes(Main, "made", "created")
  /\ UdtGives(Main)
  /\ UNCHANGED <<program, up, stray>>

CreateFails ==
  /\ at[Main] = "made" /\ up
  /\ ProcessEnds
  /\ \/ m_usock[Main] = Invalid /\ UNCHANGED <<m_usock, open, given>>
     \/ m_usock[Main] # Invalid /\ UdtFails(Main)
  /\ UNCHANGED <<program, at, stray>>

\* setsockopt, then bind and listen, or connect; a failure is thrown out of main.
BindAndListen ==
  /\ program = "Server"
  /\ Goes(Main, "created", "listening")
  /\ UNCHANGED <<program, up, m_usock, open, given, stray>>

Connect ==
  /\ program = "Client"
  /\ Goes(Main, "created", "connected")
  /\ UNCHANGED <<program, up, m_usock, open, given, stray>>

EstablishFails ==
  /\ up /\ at[Main] = "created"
  /\ ProcessEnds
  /\ UNCHANGED <<program, at, m_usock, open, given, stray>>

(* Server::run, in a thread of the pool; main starts another as soon as the   *)
(* pool has an idle thread, and never comes to an end.                        *)
StartJob(j) ==
  /\ at[Main] = "listening"
  /\ Goes(j, "none", "made")
  /\ Garbage(j)
  /\ UNCHANGED <<program, up, open, given, stray>>

Accept(j) ==
  /\ Goes(j, "made", "connected")
  /\ UdtGives(j)
  /\ UNCHANGED <<program, up, stray>>

\* The exception of accept is thrown before the try block of run.
AcceptFails(j) ==
  /\ up /\ at[j] = "made"
  /\ ProcessEnds
  /\ UdtFails(j)
  /\ UNCHANGED <<program, at, stray>>

\* Receive, or send: a SocketException leaves the try block.
Exchange(o) ==
  /\ \/ program = "Server" /\ o \in Jobs /\ (Goes(o, "connected", "received") \/ Goes(o, "received", "leaving"))
     \/ program = "Client" /\ o = Main /\ (Goes(o, "connected", "sent") \/ Goes(o, "sent", "leaving"))
  /\ UNCHANGED <<program, up, m_usock, open, given, stray>>

ExchangeFails(o) ==
  /\ (o \in Jobs) = (program = "Server")
  /\ Goes(o, "connected", "leaving") \/ Goes(o, "received", "leaving") \/ Goes(o, "sent", "leaving")
  /\ UNCHANGED <<program, up, m_usock, open, given, stray>>

\* The document has an error: exit(1), with the other jobs where they are.
DocumentWrong(j) ==
  /\ up /\ at[j] = "received"
  /\ ProcessEnds
  /\ UNCHANGED <<program, at, m_usock, open, given, stray>>

\* Faulty: the destructor leaves the handle to UDT.
DestroyOpen(o) ==
  /\ Goes(o, "leaving", "none")
  /\ UNCHANGED <<program, up, m_usock, open, given, stray>>

\* ~UDTSocket, at the end of run or of an iteration of the Client's loop.
Destroy(o) ==
  /\ Goes(o, "leaving", "none")
  /\ IF m_usock[o] # Invalid
     THEN open' = open \ {m_usock[o]} /\ stray' = (stray \/ m_usock[o] \notin open)
     ELSE UNCHANGED <<open, stray>>
  /\ UNCHANGED <<program, up, m_usock, given>>

Next ==
  \/ Construct \/ Create \/ CreateFails \/ BindAndListen \/ Connect \/ EstablishFails
  \/ \E j \in Jobs : StartJob(j) \/ Accept(j) \/ AcceptFails(j) \/ DocumentWrong(j)
  \/ \E o \in Objects : Exchange(o) \/ ExchangeFails(o) \/ Destroy(o)

Spec == Init /\ [][Next]_vars

------------------------------------------------------------------------------

\* The code of o has a socket in m_usock.
Holds(o, h) == at[o] \notin {"none", "made"} /\ m_usock[o] = h

\* UDTSocket.cpp:19-32, main.cpp:49-91: although m_usock starts with any number,
\* as long as the process lives an object closes only the handle that it was
\* given, two objects never hold the same, and each open handle is held by an
\* object that will close it, on whichever path the job ends.
EachClosesItsOwn ==
  up => /\ ~stray
        /\ \A h \in open : Cardinality({o \in Objects : Holds(o, h)}) = 1
==============================================================================
