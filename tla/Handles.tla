------------------------------- MODULE Handles -------------------------------
(* The counted handles of src/include/common/HandleClass.h as the program     *)
(* uses them: the routing table keeps its buckets in a vector of HandlePtr    *)
(* (src/src/kademlia/kadroutingtable.cpp) and replaces one bucket by two when *)
(* it splits. A call is the sequence of handle operations that it performs -  *)
(* the constructor, the copies and assignments by which std::vector moves its *)
(* elements, the destructors - and each of them is a step: between two steps  *)
(* the counts and the handles have to agree.                                  *)
(*                                                                            *)
(* Slots are the places a handle can be in: the elements of the vector, those *)
(* of the larger storage it moves to, and the locals of the call. std::vector *)
(* is external; whether an insertion finds room is left open.                 *)
EXTENDS Naturals, FiniteSets, Sequences

CONSTANTS Buckets,      \* the buckets that exist at one time at most
          MaxBuckets    \* how many the vector holds at most

VARIABLES
  pointee,    \* pointee[s]: the object that the handle in slot s points to, or 0
  refCount,   \* of each object
  deleted,    \* the objects whose memory is free
  size,       \* how many elements the vector has
  todo        \* the handle operations that the running call still has to perform

vars == <<pointee, refCount, deleted, size, todo>>

Vec(i) == <<"vec", i>>
Larger(i) == <<"larger", i>>
Local(name) == <<name, 0>>
Slots == {Vec(i) : i \in 1 .. MaxBuckets} \cup {Larger(i) : i \in 1 .. MaxBuckets}
           \cup {Local(x) : x \in {"left", "right", "x_copy"}}

Init ==
  /\ pointee = [s \in Slots |-> 0]
  /\ refCount = [o \in Buckets |-> 0]
  /\ deleted = Buckets
  /\ size = 0
  /\ todo = << <<"new", Local("left")>>, <<"copy", Vec(1), Local("left")>>,
               <<"size", 1>>, <<"drop", Local("left")>> >>

------------------------------------------------------------------------------
(* addReference and removeReference of Object, for a handle that may be null. *)

Added(r, o) == IF o = 0 THEN r ELSE [r EXCEPT ![o] = @ + 1]
Removed(r, o) == IF o = 0 THEN r ELSE [r EXCEPT ![o] = @ - 1]
DeletedAfter(r, o) == IF o # 0 /\ r[o] = 0 THEN deleted \cup {o} ELSE deleted

Step(op) == todo # <<>> /\ Head(todo)[1] = op /\ todo' = Tail(todo)

\* HandlePtr(new KBucket)
NewHandle ==
  /\ Step("new")
  /\ \E o \in deleted :
       /\ pointee' = [pointee EXCEPT ![Head(todo)[2]] = o]
       /\ refCount' = [refCount EXCEPT ![o] = 1]
       /\ deleted' = deleted \ {o}
  /\ UNCHANGED size

\* HandlePtr(const HandlePtr &): the slot held nothing before.
CopyHandle ==
  /\ Step("copy")
  /\ LET o == pointee[Head(todo)[3]] IN
       /\ pointee' = [pointee EXCEPT ![Head(todo)[2]] = o]
       /\ refCount' = Added(refCount, o)
  /\ UNCHANGED <<deleted, size>>

\* Faulty: the assignment does not let go of the object it pointed to.
AssignWithoutRelease ==
  /\ Step("assign")
  /\ LET to == pointee[Head(todo)[2]]
         from == pointee[Head(todo)[3]] IN
       /\ pointee' = [pointee EXCEPT ![Head(todo)[2]] = from]
       /\ refCount' = IF to = from THEN refCount ELSE Added(refCount, from)
  /\ UNCHANGED <<deleted, size>>

\* operator=: nothing for the same object; else the old reference goes first.
AssignHandle ==
  /\ Step("assign")
  /\ LET to == pointee[Head(todo)[2]]
         from == pointee[Head(todo)[3]] IN
       /\ pointee' = [pointee EXCEPT ![Head(todo)[2]] = from]
       /\ IF to = from
          THEN UNCHANGED <<refCount, deleted>>
          ELSE /\ refCount' = Added(Removed(refCount, to), from)
               /\ deleted' = DeletedAfter(Removed(refCount, to), to)
  /\ UNCHANGED size

\* ~HandlePtr
DropHandle ==
  /\ Step("drop")
  /\ LET o == pointee[Head(todo)[2]] IN
       /\ pointee' = [pointee EXCEPT ![Head(todo)[2]] = 0]
       /\ refCount' = Removed(refCount, o)
       /\ deleted' = DeletedAfter(Removed(refCount, o), o)
  /\ UNCHANGED size

\* The vector's own bookkeeping: its size, and the change to the larger storage.
SetSize ==
  /\ Step("size")
  /\ size' = Head(todo)[2]
  /\ UNCHANGED <<pointee, refCount, deleted>>

TakeStorage ==
  /\ Step("storage")
  /\ pointee' = [s \in Slots |-> CASE s[1] = "vec" -> pointee[Larger(s[2])]
                                   [] s[1] = "larger" -> 0
                                   [] OTHER -> pointee[s]]
  /\ UNCHANGED <<refCount, deleted, size>>

------------------------------------------------------------------------------
(* What std::vector does with its handles.                                    *)

\* erase(begin() + k - 1) of a vector of n elements
Erase(n, k) ==
  [j \in 1 .. n - k |-> <<"assign", Vec(k + j - 1), Vec(k + j)>>]
    \o << <<"drop", Vec(n)>>, <<"size", n - 1>> >>

\* insert(begin() + k - 1, x) with room behind the n elements
InsertInPlace(n, k, x) ==
  (IF k > n
   THEN << <<"copy", Vec(k), x>> >>
   ELSE << <<"copy", Vec(n + 1), Vec(n)>>, <<"copy", Local("x_copy"), x>> >>
          \o [j \in 1 .. n - k |-> <<"assign", Vec(n + 1 - j), Vec(n - j)>>]
          \o << <<"assign", Vec(k), Local("x_copy")>>, <<"drop", Local("x_copy")>> >>)
    \o << <<"size", n + 1>> >>

\* insert without room: copies in the larger storage, then the old ones go
InsertMoving(n, k, x) ==
  [j \in 1 .. k - 1 |-> <<"copy", Larger(j), Vec(j)>>]
    \o << <<"copy", Larger(k), x>> >>
    \o [j \in 1 .. n + 1 - k |-> <<"copy", Larger(k + j), Vec(k + j - 1)>>]
    \o [j \in 1 .. n |-> <<"drop", Vec(j)>>]
    \o << <<"storage">>, <<"size", n + 1>> >>

Inserts(n, k, x) == {InsertInPlace(n, k, x), InsertMoving(n, k, x)}

------------------------------------------------------------------------------
(* The calls of the routing table.                                            *)

Idle == todo = <<>>

SplitKbucket ==
  /\ Idle /\ size < MaxBuckets
  /\ \E k \in 1 .. size :
     \E a \in Inserts(size - 1, k, Local("left")) :
     \E b \in Inserts(size, k + 1, Local("right")) :
       todo' = << <<"new", Local("left")>>, <<"new", Local("right")>> >>
                 \o Erase(size, k) \o a \o b
                 \o << <<"drop", Local("right")>>, <<"drop", Local("left")>> >>
  /\ UNCHANGED <<pointee, refCount, deleted, size>>

\* RoutingTable::Clear, and with it the destructor and the constructor.
ClearTable ==
  /\ Idle
  /\ todo' = [j \in 1 .. size |-> <<"drop", Vec(j)>>]
               \o << <<"size", 0>>, <<"new", Local("left")>> >>
               \o << <<"copy", Vec(1), Local("left")>>, <<"size", 1>>, <<"drop", Local("left")>> >>
  /\ UNCHANGED <<pointee, refCount, deleted, size>>

Next ==
  \/ NewHandle \/ CopyHandle \/ AssignHandle \/ DropHandle \/ SetSize \/ TakeStorage
  \/ SplitKbucket \/ ClearTable

Spec == Init /\ [][Next]_vars

------------------------------------------------------------------------------

\* The handles that point to o.
HandlesOf(o) == {s \in Slots : pointee[s] = o}

\* At any moment of a call no handle points to freed memory.
NoHandleDangles == \A s \in Slots : pointee[s] # 0 => pointee[s] \notin deleted

\* The count is the number of handles, so the last of them deletes the object.
CountIsHandles == \A o \in Buckets \ deleted : refCount[o] = Cardinality(HandlesOf(o))

\* Between calls every bucket that exists is in the vector, in one place.
OneHandleEach ==
  Idle => /\ \A s \in Slots : pointee[s] # 0 <=> s \in {Vec(i) : i \in 1 .. size}
          /\ \A o \in Buckets \ deleted : Cardinality(HandlesOf(o)) = 1

\* HandleClass.h:39-126 with kadroutingtable.cpp:26-143 and 229-238: through all
\* the copies, assignments and destructions by which a split or a clear moves
\* the buckets, none of them is deleted while a handle points to it, and none
\* is left over when its last handle is gone.
BucketsAreCounted == NoHandleDangles /\ CountIsHandles /\ OneHandleEach
==============================================================================
