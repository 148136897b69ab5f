---------------------------- MODULE HandlesProofs ----------------------------
EXTENDS Handles, FiniteSetTheorems, SequenceTheorems, TLAPS

\* The vector holds one bucket at least, and 0 is no object.
HandleSizes == MaxBuckets \in Nat \ {0} /\ 0 \notin Buckets

-----------------------------------------------------------------------------
(* The slots.                                                              *)

LocalNames == {"left", "right", "x_copy"}
Places == 1 .. MaxBuckets

LEMMA SlotNames ==
    /\ \A i \in Places : Vec(i) \in Slots /\ Larger(i) \in Slots
    /\ \A x \in LocalNames : Local(x) \in Slots
    /\ \A i, j : (Vec(i) = Vec(j) => i = j) /\ (Larger(i) = Larger(j) => i = j) /\ Vec(i) # Larger(j)
    /\ \A x, y \in LocalNames : (Local(x) = Local(y) => x = y)
    /\ \A x \in LocalNames : \A i : Local(x) # Vec(i) /\ Local(x) # Larger(i)
    /\ \A s \in Slots : \/ \E i \in Places : s = Vec(i) \/ s = Larger(i)
                        \/ \E x \in LocalNames : s = Local(x)
  BY DEF Slots, Vec, Larger, Local, Places, LocalNames

LEMMA SlotParts ==
    /\ \A i : Vec(i)[1] = "vec" /\ Vec(i)[2] = i
    /\ \A i : Larger(i)[1] = "larger" /\ Larger(i)[2] = i
    /\ \A x : Local(x)[1] = x
  BY DEF Vec, Larger, Local

LEMMA SlotsFinite == MaxBuckets \in Nat => IsFiniteSet(Slots)
  <1> SUFFICES ASSUME MaxBuckets \in Nat PROVE IsFiniteSet(Slots)
    OBVIOUS
  <1>1. IsFiniteSet(Places)
    BY FS_Interval DEF Places
  <1> DEFINE V == {Vec(i) : i \in Places}
             W == {Larger(i) : i \in Places}
  <1>2. IsFiniteSet(V)
    <2> DEFINE f == [i \in Places |-> Vec(i)]
    <2>1. f \in Surjection(Places, V)
      BY DEF Surjection
    <2> QED
      BY <1>1, <2>1, FS_Surjection
  <1>3. IsFiniteSet(W)
    <2> DEFINE f == [i \in Places |-> Larger(i)]
    <2>1. f \in Surjection(Places, W)
      BY DEF Surjection
    <2> QED
      BY <1>1, <2>1, FS_Surjection
  <1>4. IsFiniteSet({}) /\ Slots = (((V \cup W) \cup {Local("left")}) \cup {Local("right")}) \cup {Local("x_copy")}
    BY FS_EmptySet DEF Slots, Places
  <1>5. IsFiniteSet(V \cup W)
    BY <1>2, <1>3, FS_Union
  <1> QED
    BY <1>4, <1>5, FS_AddElement

-----------------------------------------------------------------------------
(* The counts.                                                             *)

HandleTypes ==
    /\ pointee \in [Slots -> Buckets \cup {0}]
    /\ refCount \in [Buckets -> Int]
    /\ deleted \subseteq Buckets
    /\ size \in 0 .. MaxBuckets

Counted ==
    /\ HandleTypes /\ NoHandleDangles /\ CountIsHandles
    /\ \A o \in Buckets \ deleted : HandlesOf(o) # {}

\* One handle is made to point elsewhere: its new object is pointed to by one more.
LEMMA Redirected ==
    ASSUME HandleSizes, HandleTypes, NEW s \in Slots, NEW o, o # pointee[s],
           pointee' = [pointee EXCEPT ![s] = o]
    PROVE  \A q : Cardinality(HandlesOf(q)') =
                    IF q = o THEN Cardinality(HandlesOf(q)) + 1
                    ELSE IF q = pointee[s] THEN Cardinality(HandlesOf(q)) - 1
                    ELSE Cardinality(HandlesOf(q))
  <1> TAKE q
  <1>0. IsFiniteSet(HandlesOf(q)) /\ Cardinality(HandlesOf(q)) \in Nat
    <2>1. IsFiniteSet(Slots) /\ HandlesOf(q) \in SUBSET Slots
      BY SlotsFinite DEF HandleSizes, HandlesOf
    <2> QED
      BY <2>1, FS_Subset, FS_CardinalityType
  <1>1. CASE q = o
    <2>1. HandlesOf(q)' = HandlesOf(q) \cup {s} /\ s \notin HandlesOf(q)
      BY <1>1 DEF HandlesOf, HandleTypes
    <2> QED
      BY <1>0, <1>1, <2>1, FS_AddElement
  <1>2. CASE q # o /\ q = pointee[s]
    <2>1. HandlesOf(q)' = HandlesOf(q) \ {s} /\ s \in HandlesOf(q)
      BY <1>2 DEF HandlesOf, HandleTypes
    <2> QED
      BY <1>0, <1>2, <2>1, FS_RemoveElement
  <1>3. CASE q # o /\ q # pointee[s]
    <2>1. HandlesOf(q)' = HandlesOf(q)
      BY <1>3 DEF HandlesOf, HandleTypes
    <2> QED
      BY <1>3, <2>1
  <1> QED
    BY <1>1, <1>2, <1>3

LEMMA HandleCounts ==
    ASSUME HandleSizes
    PROVE  \A q : /\ Cardinality(HandlesOf(q)) \in Nat
                  /\ Cardinality(HandlesOf(q)) = 0 <=> HandlesOf(q) = {}
  <1> TAKE q
  <1>1. IsFiniteSet(Slots) /\ HandlesOf(q) \in SUBSET Slots
    BY SlotsFinite DEF HandleSizes, HandlesOf
  <1> QED
    BY <1>1, FS_Subset, FS_CardinalityType, FS_EmptySet

LEMMA CountNew ==
    ASSUME HandleSizes, Counted, NEW s \in Slots, NEW o \in deleted, pointee[s] = 0,
           pointee' = [pointee EXCEPT ![s] = o], refCount' = [refCount EXCEPT ![o] = 1],
           deleted' = deleted \ {o}, size' = size
    PROVE  Counted'
  <1>1. o \in Buckets /\ o # 0 /\ o # pointee[s] /\ HandlesOf(o) = {}
    BY DEF HandleSizes, Counted, HandleTypes, NoHandleDangles, HandlesOf
  <1>2. \A q : q # o /\ q # 0 => Cardinality(HandlesOf(q)') = Cardinality(HandlesOf(q))
    BY <1>1, Redirected DEF Counted
  <1>3. Cardinality(HandlesOf(o)') = 1
    <2>1. Cardinality(HandlesOf(o)) = 0
      BY <1>1, FS_EmptySet
    <2>2. Cardinality(HandlesOf(o)') = Cardinality(HandlesOf(o)) + 1
      BY <1>1, Redirected DEF Counted
    <2> QED
      BY <2>1, <2>2
  <1>4. HandleTypes'
    BY <1>1 DEF Counted, HandleTypes
  <1>5. NoHandleDangles'
    BY <1>1 DEF Counted, HandleTypes, NoHandleDangles
  <1>6. \A q \in Buckets \ deleted' : q # o => q \in Buckets \ deleted /\ q # 0 /\ refCount'[q] = refCount[q]
    BY DEF HandleSizes, Counted, HandleTypes
  <1>7. refCount'[o] = 1
    BY <1>1 DEF Counted, HandleTypes
  <1>8. CountIsHandles'
    BY <1>2, <1>3, <1>6, <1>7 DEF Counted, CountIsHandles
  <1>9. \A q \in Buckets \ deleted' : HandlesOf(q)' # {}
    <2> TAKE q \in Buckets \ deleted'
    <2>1. CASE q = o
      BY <1>1, <2>1 DEF HandlesOf, Counted, HandleTypes
    <2>2. CASE q # o
      <3>1. PICK u \in Slots : pointee[u] = q
        BY <1>6, <2>2 DEF Counted, HandlesOf
      <3>2. u # s
        BY <1>6, <2>2, <3>1
      <3> QED
        BY <3>1, <3>2 DEF HandlesOf, Counted, HandleTypes
    <2> QED
      BY <2>1, <2>2
  <1> QED
    BY <1>4, <1>5, <1>8, <1>9 DEF Counted

\* A handle lets go of what it pointed to and takes another object, each of which may be none:
\* the destructor, operator= and, in a slot that pointed to nothing, the constructors.
LEMMA CountMove ==
    ASSUME HandleSizes, Counted, NEW s \in Slots, NEW o \in (Buckets \ deleted) \cup {0},
           o # pointee[s], pointee' = [pointee EXCEPT ![s] = o],
           refCount' = Added(Removed(refCount, pointee[s]), o),
           deleted' = DeletedAfter(Removed(refCount, pointee[s]), pointee[s]), size' = size
    PROVE  Counted'
  <1> DEFINE p == pointee[s]
             r == Removed(refCount, p)
  <1>1. p \in (Buckets \ deleted) \cup {0}
    BY DEF Counted, HandleTypes, NoHandleDangles
  <1>2. r \in [Buckets -> Int] /\ \A q \in Buckets : r[q] = IF q = p THEN refCount[q] - 1 ELSE refCount[q]
    BY <1>1 DEF Removed, HandleSizes, Counted, HandleTypes
  <1> HIDE DEF r
  <1>3. refCount' \in [Buckets -> Int] /\ \A q \in Buckets : refCount'[q] = IF q = o THEN r[q] + 1 ELSE r[q]
    BY <1>2 DEF Added, HandleSizes, r
  <1>4. \A q : Cardinality(HandlesOf(q)') =
                 IF q = o THEN Cardinality(HandlesOf(q)) + 1
                 ELSE IF q = p THEN Cardinality(HandlesOf(q)) - 1
                 ELSE Cardinality(HandlesOf(q))
    BY Redirected DEF Counted
  <1>5. \A q \in Buckets \ deleted : refCount[q] = Cardinality(HandlesOf(q)) /\ refCount[q] \in Int
    BY DEF Counted, CountIsHandles, HandleTypes
  <1>6. \A q \in Buckets \ deleted : refCount'[q] = Cardinality(HandlesOf(q)')
    BY <1>2, <1>3, <1>4, <1>5
  <1>7. deleted' = IF p # 0 /\ r[p] = 0 THEN deleted \cup {p} ELSE deleted
    BY DEF DeletedAfter, r
  <1>8. HandleTypes'
    BY <1>1, <1>3, <1>7 DEF Counted, HandleTypes
  <1>9. CountIsHandles'
    BY <1>6, <1>7 DEF CountIsHandles
  <1>10. ASSUME NEW q \in Buckets \ deleted', HandlesOf(q)' = {} PROVE FALSE
    <2>1. q \in Buckets \ deleted /\ HandlesOf(q) # {}
      BY <1>7 DEF Counted
    <2>2. Cardinality(HandlesOf(q)) # 0 /\ Cardinality(HandlesOf(q)) \in Nat
      BY <2>1, HandleCounts
    <2>3. Cardinality(HandlesOf(q)') = 0
      BY <1>10, FS_EmptySet
    <2>4. q = p /\ q # o
      BY <1>4, <2>2, <2>3
    <2>5. r[p] = 0
      BY <1>3, <1>6, <2>1, <2>3, <2>4
    <2>6. p # 0
      BY <2>1, <2>4 DEF HandleSizes
    <2> QED
      BY <1>7, <2>4, <2>5, <2>6, <1>10
  <1>11. NoHandleDangles'
    <2> SUFFICES ASSUME NEW u \in Slots, pointee'[u] # 0, pointee'[u] \in deleted' PROVE FALSE
      BY DEF NoHandleDangles
    <2>1. pointee'[u] = IF u = s THEN o ELSE pointee[u]
      BY DEF Counted, HandleTypes
    <2>2. pointee'[u] \in Buckets \ deleted
      BY <2>1 DEF Counted, HandleTypes, NoHandleDangles
    <2>3. pointee'[u] = p /\ p # 0 /\ r[p] = 0
      BY <1>7, <2>2
    <2>4. u # s /\ u \in HandlesOf(p) /\ s \in HandlesOf(p) /\ p # o
      BY <2>1, <2>3 DEF HandlesOf
    <2>5. Cardinality(HandlesOf(p)) = 1
      BY <1>1, <1>2, <1>5, <2>3
    <2>6. IsFiniteSet(HandlesOf(p))
      <3>1. IsFiniteSet(Slots) /\ HandlesOf(p) \in SUBSET Slots
        BY SlotsFinite DEF HandleSizes, HandlesOf
      <3> QED
        BY <3>1, FS_Subset
    <2>7. \E x : HandlesOf(p) = {x}
      BY <2>5, <2>6, FS_Singleton
    <2> QED
      BY <2>4, <2>7
  <1> QED
    BY <1>8, <1>9, <1>10, <1>11 DEF Counted

\* The vector takes its larger storage, while its own slots point to nothing.
LEMMA CountTaken ==
    ASSUME HandleSizes, Counted, \A i \in Places : pointee[Vec(i)] = 0, TakeStorage
    PROVE  Counted'
  <1> DEFINE back == [s \in Slots |-> IF s[1] = "larger" THEN Vec(s[2]) ELSE s]
  <1>1. /\ \A i \in Places : pointee'[Vec(i)] = pointee[Larger(i)]
        /\ \A i \in Places : pointee'[Larger(i)] = 0
        /\ \A x \in LocalNames : pointee'[Local(x)] = pointee[Local(x)]
        /\ UNCHANGED <<refCount, deleted, size>>
    BY SlotNames, SlotParts DEF TakeStorage, LocalNames
  <1>2. pointee' \in [Slots -> Buckets \cup {0}]
    <2>1. DOMAIN pointee' = Slots /\ pointee' = [s \in Slots |-> pointee'[s]]
      BY DEF TakeStorage
    <2>2. \A s \in Slots : pointee'[s] \in Buckets \cup {0}
      BY <1>1, SlotNames DEF Counted, HandleTypes
    <2> QED
      BY <2>1, <2>2
  <1>3. HandleTypes'
    BY <1>1, <1>2 DEF Counted, HandleTypes
  <1>4. NoHandleDangles'
    BY <1>1, SlotNames DEF Counted, NoHandleDangles
  <1>5. ASSUME NEW q, q # 0
        PROVE  Cardinality(HandlesOf(q)') = Cardinality(HandlesOf(q)) /\ (HandlesOf(q) # {} => HandlesOf(q)' # {})
    <2> DEFINE f == [s \in HandlesOf(q) |-> back[s]]
    <2>1. /\ \A i \in Places : back[Larger(i)] = Vec(i)
          /\ \A x \in LocalNames : back[Local(x)] = Local(x)
      BY SlotNames, SlotParts DEF LocalNames
    <2>2. \A s \in HandlesOf(q) : \/ \E i \in Places : s = Larger(i)
                                  \/ \E x \in LocalNames : s = Local(x)
      BY <1>5, SlotNames DEF HandlesOf
    <2>3. \A u \in HandlesOf(q)' : \/ \E i \in Places : u = Vec(i) /\ Larger(i) \in HandlesOf(q)
                                   \/ \E x \in LocalNames : u = Local(x) /\ u \in HandlesOf(q)
      BY <1>1, <1>5, SlotNames DEF HandlesOf
    <2> HIDE DEF back
    <2>4. \A s \in HandlesOf(q) : f[s] = back[s] /\ f[s] \in HandlesOf(q)'
      BY <1>1, <2>1, <2>2, SlotNames DEF HandlesOf
    <2>5. \A u \in HandlesOf(q)' : \E s \in HandlesOf(q) : f[s] = u
      BY <2>1, <2>3, <2>4
    <2>6. \A s, t \in HandlesOf(q) : f[s] = f[t] => s = t
      BY <2>1, <2>2, <2>4, SlotNames
    <2>7. f \in Bijection(HandlesOf(q), HandlesOf(q)')
      <3>1. f \in [HandlesOf(q) -> HandlesOf(q)']
        BY <2>4
      <3> HIDE DEF f
      <3> QED
        BY <3>1, <2>5, <2>6 DEF Bijection, Injection, Surjection, IsInjective
    <2>8. IsFiniteSet(HandlesOf(q))
      <3>1. IsFiniteSet(Slots) /\ HandlesOf(q) \in SUBSET Slots
        BY SlotsFinite DEF HandleSizes, HandlesOf
      <3> QED
        BY <3>1, FS_Subset
    <2>9. ExistsBijection(HandlesOf(q), HandlesOf(q)')
      BY <2>7 DEF ExistsBijection
    <2> QED
      BY <2>4, <2>8, <2>9, FS_Bijection
  <1> QED
    BY <1>1, <1>3, <1>4, <1>5 DEF HandleSizes, Counted, CountIsHandles

-----------------------------------------------------------------------------
(* What the operations that are still to do will make of the slots.        *)

\* What the slots point to, up to the names of the objects, and the size of the vector.
Contents == [holds : [Slots -> Nat], size : 0 .. MaxBuckets]

Operations ==
    {<<"new", s>> : s \in Slots} \cup {<<"drop", s>> : s \in Slots}
      \cup {<<"copy", s, t>> : s \in Slots, t \in Slots}
      \cup {<<"assign", s, t>> : s \in Slots, t \in Slots}
      \cup {<<"size", n>> : n \in 0 .. MaxBuckets} \cup {<<"storage">>}

Taken(h) == [s \in Slots |-> CASE s[1] = "vec" -> h[Larger(s[2])]
                               [] s[1] = "larger" -> 0
                               [] OTHER -> h[s]]

Put(f, s, t) == [f EXCEPT ![s] = t]
Puts(c, s, t, d) == s \in Slots /\ d.size = c.size /\ d.holds = Put(c.holds, s, t)

\* An operation makes d of c, and is one that loses no reference: a constructor works on a slot
\* that points to nothing, and so does the change of storage.
Does(op, c, d) ==
    \/ /\ op[1] = "new" /\ c.holds[op[2]] = 0
       /\ \E t \in Nat \ {0} : (\A s \in Slots : c.holds[s] # t) /\ Puts(c, op[2], t, d)
    \/ /\ op[1] = "copy" /\ c.holds[op[2]] = 0
       /\ op[3] \in Slots /\ Puts(c, op[2], c.holds[op[3]], d)
    \/ op[1] = "assign" /\ op[3] \in Slots /\ Puts(c, op[2], c.holds[op[3]], d)
    \/ op[1] = "drop" /\ Puts(c, op[2], 0, d)
    \/ op[1] = "size" /\ d.holds = c.holds /\ d.size = op[2]
    \/ /\ op[1] = "storage" /\ \A i \in Places : c.holds[Vec(i)] = 0
       /\ d.size = c.size /\ d.holds = Taken(c.holds)

Leads(prog, c, d) ==
    /\ prog \in Seq(Operations)
    /\ \E plan \in [1 .. Len(prog) + 1 -> Contents] :
           /\ plan[1] = c /\ plan[Len(prog) + 1] = d
           /\ \A i \in 1 .. Len(prog) : Does(prog[i], plan[i], plan[i + 1])

LEMMA LeadsNowhere == ASSUME NEW c, NEW d, Leads(<<>>, c, d) PROVE c = d
  BY DEF Leads

LEMMA LeadsByOne ==
    ASSUME NEW op \in Operations, NEW c \in Contents, NEW d \in Contents, Does(op, c, d)
    PROVE  Leads(<<op>>, c, d)
  <1> DEFINE plan == [i \in 1 .. 2 |-> IF i = 1 THEN c ELSE d]
  <1>1. /\ <<op>> \in Seq(Operations) /\ Len(<<op>>) = 1 /\ <<op>>[1] = op
        /\ plan \in [1 .. 2 -> Contents] /\ plan[1] = c /\ plan[2] = d
    OBVIOUS
  <1> HIDE DEF plan
  <1>2. \A i \in 1 .. 1 : i = 1
    OBVIOUS
  <1> QED
    BY <1>1, <1>2 DEF Leads

LEMMA LeadsOn ==
    ASSUME NEW a, NEW b, NEW c, NEW d, NEW e, Leads(a, c, d), Leads(b, d, e)
    PROVE  Leads(a \o b, c, e)
  <1>1. PICK p \in [1 .. Len(a) + 1 -> Contents] :
           /\ p[1] = c /\ p[Len(a) + 1] = d
           /\ \A i \in 1 .. Len(a) : Does(a[i], p[i], p[i + 1])
    BY DEF Leads
  <1>2. PICK q \in [1 .. Len(b) + 1 -> Contents] :
           /\ q[1] = d /\ q[Len(b) + 1] = e
           /\ \A i \in 1 .. Len(b) : Does(b[i], q[i], q[i + 1])
    BY DEF Leads
  <1>3. /\ a \in Seq(Operations) /\ b \in Seq(Operations)
        /\ Len(a) \in Nat /\ Len(b) \in Nat
    BY LenProperties DEF Leads
  <1>4. /\ a \o b \in Seq(Operations) /\ Len(a \o b) = Len(a) + Len(b)
        /\ \A i \in 1 .. Len(a) + Len(b) : (a \o b)[i] = IF i <= Len(a) THEN a[i] ELSE b[i - Len(a)]
    BY <1>3, ConcatProperties
  <1> DEFINE m == Len(a)
             n == Len(b)
             r == [i \in 1 .. m + n + 1 |-> IF i <= m THEN p[i] ELSE q[i - m]]
  <1>5. r \in [1 .. m + n + 1 -> Contents]
    BY <1>3
  <1>6. r[1] = c /\ r[m + n + 1] = e
    BY <1>1, <1>2, <1>3
  <1>7. ASSUME NEW i \in 1 .. m + n PROVE Does((a \o b)[i], r[i], r[i + 1])
    <2>1. CASE i < m
      <3>1. r[i] = p[i] /\ r[i + 1] = p[i + 1] /\ (a \o b)[i] = a[i] /\ i \in 1 .. m
        BY <1>3, <1>4, <2>1
      <3> QED
        BY <1>1, <3>1
    <2>2. CASE i = m
      <3>1. r[i] = p[i] /\ r[i + 1] = q[1] /\ (a \o b)[i] = a[i] /\ i \in 1 .. m
        BY <1>3, <1>4, <2>2
      <3> QED
        BY <1>1, <1>2, <2>2, <3>1
    <2>3. CASE i > m
      <3>1. r[i] = q[i - m] /\ r[i + 1] = q[(i - m) + 1] /\ (a \o b)[i] = b[i - m] /\ i - m \in 1 .. n
        BY <1>3, <1>4, <2>3
      <3> QED
        BY <1>2, <3>1
    <2> QED
      BY <1>3, <2>1, <2>2, <2>3
  <1> HIDE DEF r
  <1> QED
    BY <1>4, <1>5, <1>6, <1>7 DEF Leads

LEMMA LeadsNext ==
    ASSUME NEW prog, NEW c, NEW e, Leads(prog, c, e), prog # <<>>
    PROVE  \E d \in Contents : Does(Head(prog), c, d) /\ Leads(Tail(prog), d, e)
  <1>1. PICK p \in [1 .. Len(prog) + 1 -> Contents] :
           /\ p[1] = c /\ p[Len(prog) + 1] = e
           /\ \A i \in 1 .. Len(prog) : Does(prog[i], p[i], p[i + 1])
    BY DEF Leads
  <1>2. prog \in Seq(Operations) /\ Len(prog) \in Nat \ {0}
    BY EmptySeq DEF Leads
  <1>3. /\ Tail(prog) \in Seq(Operations) /\ Len(Tail(prog)) = Len(prog) - 1
        /\ \A i \in 1 .. Len(Tail(prog)) : Tail(prog)[i] = prog[i + 1]
    BY <1>2, HeadTailProperties
  <1>4. Head(prog) = prog[1] /\ p[2] \in Contents /\ Does(prog[1], c, p[2])
    BY <1>1, <1>2
  <1> DEFINE m == Len(prog) - 1
             q == [i \in 1 .. m + 1 |-> p[i + 1]]
  <1>5. q \in [1 .. m + 1 -> Contents] /\ q[1] = p[2] /\ q[m + 1] = e
    BY <1>1, <1>2
  <1>6. ASSUME NEW i \in 1 .. m PROVE Does(Tail(prog)[i], q[i], q[i + 1])
    <2>1. q[i] = p[i + 1] /\ q[i + 1] = p[(i + 1) + 1] /\ i + 1 \in 1 .. Len(prog)
      BY <1>2
    <2> QED
      BY <1>1, <1>2, <1>3, <2>1
  <1> HIDE DEF q
  <1>7. Leads(Tail(prog), p[2], e)
    BY <1>2, <1>3, <1>5, <1>6 DEF Leads
  <1> QED
    BY <1>4, <1>7

-----------------------------------------------------------------------------
(* The steps.                                                              *)

\* h says which slots point to nothing and which to the same object.
Alike(h, slots) ==
    \A s, t \in Slots : (h[s] = 0 <=> slots[s] = 0) /\ (h[s] = h[t] <=> slots[s] = slots[t])

\* Each element of the vector is the only handle to its object, and there are no others.
Settled(d) ==
    /\ \A s \in Slots : d.holds[s] # 0 <=> \E i \in 1 .. d.size : s = Vec(i)
    /\ \A s, t \in Slots : d.holds[s] = d.holds[t] /\ d.holds[s] # 0 => s = t

Foreseen ==
    \E c, d \in Contents :
        c.size = size /\ Alike(c.holds, pointee) /\ Leads(todo, c, d) /\ Settled(d)

HandleInv == Counted /\ Foreseen

LEMMA StepGoesOn ==
    ASSUME HandleSizes, HandleInv,
           NewHandle \/ CopyHandle \/ AssignHandle \/ DropHandle \/ SetSize \/ TakeStorage
    PROVE  HandleInv'
  <1>1. PICK c \in Contents, e \in Contents :
          c.size = size /\ Alike(c.holds, pointee) /\ Leads(todo, c, e) /\ Settled(e)
    BY DEF HandleInv, Foreseen
  <1>2. todo # <<>> /\ todo' = Tail(todo)
    BY DEF NewHandle, CopyHandle, AssignHandle, DropHandle, SetSize, TakeStorage, Step
  <1>3. PICK d \in Contents : Does(Head(todo), c, d) /\ Leads(Tail(todo), d, e)
    BY <1>1, <1>2, LeadsNext
  <1> DEFINE op == Head(todo)
             h  == c.holds
  <1>4. h \in [Slots -> Nat] /\ d.holds \in [Slots -> Nat] /\ d.size \in 0 .. MaxBuckets
    BY DEF Contents
  <1>5. Counted /\ pointee \in [Slots -> Buckets \cup {0}] /\ 0 \notin Buckets
        /\ refCount \in [Buckets -> Int] /\ deleted \subseteq Buckets
    BY DEF HandleInv, Counted, HandleTypes, HandleSizes
  <1>6. ASSUME Counted', Alike(d.holds, pointee)', d.size = size' PROVE HandleInv'
    BY <1>1, <1>2, <1>3, <1>6 DEF HandleInv, Foreseen
  <1>7. CASE NewHandle
    <2>1. op[1] = "new"
      BY <1>7 DEF NewHandle, Step
    <2>2. PICK t \in Nat \ {0} : (\A s \in Slots : h[s] # t) /\ Puts(c, op[2], t, d) /\ h[op[2]] = 0
      BY <1>3, <2>1 DEF Does
    <2> DEFINE s == op[2]
    <2>3. s \in Slots /\ d.size = c.size /\ d.holds = [h EXCEPT ![s] = t] /\ pointee[s] = 0
      BY <1>1, <2>2 DEF Put, Puts, Alike
    <2>4. PICK o \in deleted : /\ pointee' = [pointee EXCEPT ![s] = o]
                               /\ refCount' = [refCount EXCEPT ![o] = 1]
                               /\ deleted' = deleted \ {o} /\ size' = size
      BY <1>7 DEF NewHandle
    <2> HIDE DEF s, op
    <2>5. Counted'
      BY <1>5, <2>3, <2>4, CountNew
    <2>6. \A u \in Slots : pointee[u] # o
      BY <1>5, <2>4 DEF Counted, NoHandleDangles
    <2>7. Alike(d.holds, pointee)'
      BY <1>1, <1>4, <1>5, <2>2, <2>3, <2>4, <2>6 DEF Alike
    <2> QED
      BY <1>1, <1>6, <2>3, <2>4, <2>5, <2>7
  <1>8. CASE CopyHandle
    <2>1. op[1] = "copy"
      BY <1>8 DEF CopyHandle, Step
    <2>2. h[op[2]] = 0 /\ op[3] \in Slots /\ Puts(c, op[2], h[op[3]], d)
      BY <1>3, <2>1 DEF Does
    <2> DEFINE s == op[2]
               t == op[3]
    <2>3. /\ s \in Slots /\ t \in Slots /\ d.size = c.size /\ d.holds = [h EXCEPT ![s] = h[t]]
          /\ pointee[s] = 0
      BY <1>1, <2>2 DEF Put, Puts, Alike
    <2>4. /\ pointee' = [pointee EXCEPT ![s] = pointee[t]] /\ refCount' = Added(refCount, pointee[t])
          /\ deleted' = deleted /\ size' = size
      BY <1>8 DEF CopyHandle
    <2> HIDE DEF s, t, op
    <2>5. pointee[t] \in (Buckets \ deleted) \cup {0}
      BY <1>5, <2>3 DEF Counted, NoHandleDangles
    <2>6. Removed(refCount, pointee[s]) = refCount /\ DeletedAfter(refCount, pointee[s]) = deleted
      BY <2>3 DEF Removed, DeletedAfter
    <2>7. Alike(d.holds, pointee)'
      BY <1>1, <1>4, <1>5, <2>3, <2>4 DEF Alike
    <2>8. CASE pointee[t] = 0
      <3>1. UNCHANGED <<pointee, refCount, deleted, size>>
        BY <1>5, <2>3, <2>4, <2>8 DEF Added
      <3>2. Counted'
        BY <1>5, <3>1 DEF Counted, HandleTypes, NoHandleDangles, CountIsHandles, HandlesOf
      <3> QED
        BY <1>1, <1>6, <2>3, <2>4, <2>7, <3>2
    <2>9. CASE pointee[t] # 0
      <3>1. Counted'
        BY <1>5, <2>3, <2>4, <2>5, <2>6, <2>9, CountMove
      <3> QED
        BY <1>1, <1>6, <2>3, <2>4, <2>7, <3>1
    <2> QED
      BY <2>8, <2>9
  <1>9. CASE AssignHandle
    <2>1. op[1] = "assign"
      BY <1>9 DEF AssignHandle, Step
    <2>2. op[3] \in Slots /\ Puts(c, op[2], h[op[3]], d)
      BY <1>3, <2>1 DEF Does
    <2> DEFINE s == op[2]
               t == op[3]
    <2>3. s \in Slots /\ t \in Slots /\ d.size = c.size /\ d.holds = [h EXCEPT ![s] = h[t]]
      BY <2>2 DEF Put, Puts
    <2>4. /\ pointee' = [pointee EXCEPT ![s] = pointee[t]] /\ size' = size
          /\ IF pointee[s] = pointee[t] THEN UNCHANGED <<refCount, deleted>>
             ELSE /\ refCount' = Added(Removed(refCount, pointee[s]), pointee[t])
                  /\ deleted' = DeletedAfter(Removed(refCount, pointee[s]), pointee[s])
      BY <1>9 DEF AssignHandle
    <2> HIDE DEF s, t, op
    <2>5. pointee[t] \in (Buckets \ deleted) \cup {0}
      BY <1>5, <2>3 DEF Counted, NoHandleDangles
    <2>6. Alike(d.holds, pointee)'
      BY <1>1, <1>4, <1>5, <2>3, <2>4 DEF Alike
    <2>7. CASE pointee[s] = pointee[t]
      <3>1. UNCHANGED <<pointee, refCount, deleted, size>>
        BY <1>5, <2>3, <2>4, <2>7
      <3>2. Counted'
        BY <1>5, <3>1 DEF Counted, HandleTypes, NoHandleDangles, CountIsHandles, HandlesOf
      <3> QED
        BY <1>1, <1>6, <2>3, <2>4, <2>6, <3>2
    <2>8. CASE pointee[s] # pointee[t]
      <3>1. Counted'
        BY <1>5, <2>3, <2>4, <2>5, <2>8, CountMove
      <3> QED
        BY <1>1, <1>6, <2>3, <2>4, <2>6, <3>1
    <2> QED
      BY <2>7, <2>8
  <1>10. CASE DropHandle
    <2>1. op[1] = "drop"
      BY <1>10 DEF DropHandle, Step
    <2>2. Puts(c, op[2], 0, d)
      BY <1>3, <2>1 DEF Does
    <2> DEFINE s == op[2]
    <2>3. s \in Slots /\ d.size = c.size /\ d.holds = [h EXCEPT ![s] = 0]
      BY <2>2 DEF Put, Puts
    <2>4. /\ pointee' = [pointee EXCEPT ![s] = 0] /\ refCount' = Removed(refCount, pointee[s])
          /\ deleted' = DeletedAfter(Removed(refCount, pointee[s]), pointee[s]) /\ size' = size
      BY <1>10 DEF DropHandle
    <2> HIDE DEF s, op
    <2>5. Alike(d.holds, pointee)'
      BY <1>1, <1>4, <1>5, <2>3, <2>4 DEF Alike
    <2>6. CASE pointee[s] = 0
      <3>1. UNCHANGED <<pointee, refCount, deleted, size>>
        BY <1>5, <2>3, <2>4, <2>6 DEF Removed, DeletedAfter
      <3>2. Counted'
        BY <1>5, <3>1 DEF Counted, HandleTypes, NoHandleDangles, CountIsHandles, HandlesOf
      <3> QED
        BY <1>1, <1>6, <2>3, <2>4, <2>5, <3>2
    <2>7. CASE pointee[s] # 0
      <3>1. refCount' = Added(Removed(refCount, pointee[s]), 0)
        BY <2>4 DEF Added
      <3>2. Counted'
        BY <1>5, <2>3, <2>4, <2>7, <3>1, CountMove
      <3> QED
        BY <1>1, <1>6, <2>3, <2>4, <2>5, <3>2
    <2> QED
      BY <2>6, <2>7
  <1>11. CASE SetSize
    <2>1. op[1] = "size" /\ size' = op[2] /\ UNCHANGED <<pointee, refCount, deleted>>
      BY <1>11 DEF SetSize, Step
    <2>2. d.holds = h /\ d.size = op[2]
      BY <1>3, <2>1 DEF Does
    <2>3. Counted'
      BY <1>4, <1>5, <2>1, <2>2 DEF Counted, HandleTypes, NoHandleDangles, CountIsHandles, HandlesOf
    <2> QED
      BY <1>1, <1>6, <2>1, <2>2, <2>3
  <1>12. CASE TakeStorage
    <2>1. op[1] = "storage" /\ size' = size
      BY <1>12 DEF TakeStorage, Step
    <2>2. d.holds = Taken(h) /\ d.size = c.size /\ \A i \in Places : h[Vec(i)] = 0
      BY <1>3, <2>1 DEF Does
    <2>3. \A i \in Places : pointee[Vec(i)] = 0
      BY <1>1, <2>2, SlotNames DEF Alike
    <2>4. Counted'
      BY <1>5, <1>12, <2>3, CountTaken
    <2>5. /\ \A i \in Places : /\ pointee'[Vec(i)] = pointee[Larger(i)] /\ pointee'[Larger(i)] = 0
                               /\ Taken(h)[Vec(i)] = h[Larger(i)] /\ Taken(h)[Larger(i)] = 0
          /\ \A x \in LocalNames : /\ pointee'[Local(x)] = pointee[Local(x)]
                                   /\ Taken(h)[Local(x)] = h[Local(x)]
      BY <1>12, SlotNames, SlotParts DEF TakeStorage, LocalNames, Taken
    <2> DEFINE from(s, u) == /\ u \in Slots /\ pointee'[s] = pointee[u] /\ Taken(h)[s] = h[u]
    <2>6. \A s \in Slots : (pointee'[s] = 0 /\ Taken(h)[s] = 0) \/ \E u \in Slots : from(s, u)
      BY <2>5, SlotNames
    <2>7. \A s \in Slots : Taken(h)[s] = 0 <=> pointee'[s] = 0
      BY <1>1, <2>6 DEF Alike
    <2>8. \A s, t \in Slots : Taken(h)[s] = Taken(h)[t] <=> pointee'[s] = pointee'[t]
      BY <1>1, <2>6, <2>7 DEF Alike
    <2>9. Alike(d.holds, pointee)'
      BY <2>2, <2>7, <2>8 DEF Alike
    <2> QED
      BY <1>1, <1>6, <2>1, <2>2, <2>4, <2>9
  <1> QED
    BY <1>7, <1>8, <1>9, <1>10, <1>11, <1>12

-----------------------------------------------------------------------------
(* The slots as three rows: the vector, the larger storage, the locals.    *)

Rows == [Places -> Nat]
LocalRows == [LocalNames -> Nat]
NoRow == [i \in Places |-> 0]

Table(v, w, l) ==
    [s \in Slots |-> IF s[1] = "vec" THEN v[s[2]] ELSE IF s[1] = "larger" THEN w[s[2]] ELSE l[s[1]]]

State(v, w, l, n) == [holds |-> Table(v, w, l), size |-> n]

LEMMA TableIs ==
    ASSUME NEW v \in Rows, NEW w \in Rows, NEW l \in LocalRows
    PROVE  /\ Table(v, w, l) \in [Slots -> Nat]
           /\ \A i \in Places : Table(v, w, l)[Vec(i)] = v[i] /\ Table(v, w, l)[Larger(i)] = w[i]
           /\ \A x \in LocalNames : Table(v, w, l)[Local(x)] = l[x]
           /\ \A n \in 0 .. MaxBuckets : State(v, w, l, n) \in Contents
  <1> DEFINE T == Table(v, w, l)
  <1>1. /\ \A i \in Places : T[Vec(i)] = v[i] /\ T[Larger(i)] = w[i]
        /\ \A x \in LocalNames : T[Local(x)] = l[x]
    BY SlotNames, SlotParts DEF Table, LocalNames
  <1>2. \A s \in Slots : T[s] \in Nat
    BY <1>1, SlotNames DEF Rows, LocalRows
  <1>3. T = [s \in Slots |-> T[s]]
    BY DEF Table
  <1>4. T \in [Slots -> Nat]
    BY <1>2, <1>3
  <1> QED
    BY <1>1, <1>4 DEF State, Contents

LEMMA SameTable ==
    ASSUME NEW g \in [Slots -> Nat], NEW v \in Rows, NEW w \in Rows, NEW l \in LocalRows,
           \A i \in Places : g[Vec(i)] = v[i] /\ g[Larger(i)] = w[i],
           \A x \in LocalNames : g[Local(x)] = l[x]
    PROVE  g = Table(v, w, l)
  <1>1. Table(v, w, l) \in [Slots -> Nat]
    BY TableIs
  <1>2. \A s \in Slots : g[s] = Table(v, w, l)[s]
    BY TableIs, SlotNames
  <1> QED
    BY <1>1, <1>2

LEMMA TablePut ==
    ASSUME NEW v \in Rows, NEW w \in Rows, NEW l \in LocalRows, NEW t \in Nat
    PROVE  /\ \A i \in Places :
                 /\ Put(v, i, t) \in Rows /\ Put(w, i, t) \in Rows
                 /\ Put(Table(v, w, l), Vec(i), t) = Table(Put(v, i, t), w, l)
                 /\ Put(Table(v, w, l), Larger(i), t) = Table(v, Put(w, i, t), l)
           /\ \A x \in LocalNames :
                 /\ Put(l, x, t) \in LocalRows
                 /\ Put(Table(v, w, l), Local(x), t) = Table(v, w, Put(l, x, t))
  <1> DEFINE T == Table(v, w, l)
  <1>0. T \in [Slots -> Nat] /\ \A s \in Slots : Put(T, s, t) \in [Slots -> Nat]
    BY TableIs DEF Put
  <1>1. ASSUME NEW i \in Places
        PROVE  /\ Put(v, i, t) \in Rows /\ Put(w, i, t) \in Rows
               /\ Put(T, Vec(i), t) = Table(Put(v, i, t), w, l)
               /\ Put(T, Larger(i), t) = Table(v, Put(w, i, t), l)
    <2>1. Put(v, i, t) \in Rows /\ Put(w, i, t) \in Rows
      BY DEF Put, Rows
    <2> DEFINE g == Put(T, Vec(i), t)
               k == Put(T, Larger(i), t)
    <2>2. /\ \A j \in Places : g[Vec(j)] = (IF j = i THEN t ELSE v[j]) /\ g[Larger(j)] = w[j]
          /\ \A x \in LocalNames : g[Local(x)] = l[x]
      BY <1>0, TableIs, SlotNames DEF Put
    <2>3. /\ \A j \in Places : k[Larger(j)] = (IF j = i THEN t ELSE w[j]) /\ k[Vec(j)] = v[j]
          /\ \A x \in LocalNames : k[Local(x)] = l[x]
      BY <1>0, TableIs, SlotNames DEF Put
    <2>4. g \in [Slots -> Nat] /\ k \in [Slots -> Nat]
      BY <1>0, SlotNames
    <2>5. \A j \in Places : /\ Put(v, i, t)[j] = (IF j = i THEN t ELSE v[j])
                            /\ Put(w, i, t)[j] = (IF j = i THEN t ELSE w[j])
      BY DEF Put, Rows
    <2> HIDE DEF g, k
    <2>6. g = Table(Put(v, i, t), w, l)
      <3> DEFINE u == Put(v, i, t)
      <3>1. u \in Rows /\ \A j \in Places : g[Vec(j)] = u[j] /\ g[Larger(j)] = w[j]
        BY <2>1, <2>2, <2>5
      <3> HIDE DEF u
      <3>2. g = Table(u, w, l)
        BY <2>2, <2>4, <3>1, SameTable
      <3> QED
        BY <3>2 DEF u
    <2>7. k = Table(v, Put(w, i, t), l)
      <3> DEFINE u == Put(w, i, t)
      <3>1. u \in Rows /\ \A j \in Places : k[Vec(j)] = v[j] /\ k[Larger(j)] = u[j]
        BY <2>1, <2>3, <2>5
      <3> HIDE DEF u
      <3>2. k = Table(v, u, l)
        BY <2>3, <2>4, <3>1, SameTable
      <3> QED
        BY <3>2 DEF u
    <2> QED
      BY <2>1, <2>6, <2>7 DEF g, k
  <1>2. ASSUME NEW x \in LocalNames
        PROVE  /\ Put(l, x, t) \in LocalRows
               /\ Put(T, Local(x), t) = Table(v, w, Put(l, x, t))
    <2>1. Put(l, x, t) \in LocalRows
      BY DEF Put, LocalRows
    <2> DEFINE g == Put(T, Local(x), t)
    <2>2. /\ \A j \in Places : g[Vec(j)] = v[j] /\ g[Larger(j)] = w[j]
          /\ \A y \in LocalNames : g[Local(y)] = IF y = x THEN t ELSE l[y]
      BY <1>0, TableIs, SlotNames DEF Put
    <2>3. g \in [Slots -> Nat]
      BY <1>0, SlotNames
    <2>4. \A y \in LocalNames : Put(l, x, t)[y] = IF y = x THEN t ELSE l[y]
      BY DEF Put, LocalRows
    <2> HIDE DEF g
    <2>5. g = Table(v, w, Put(l, x, t))
      <3> DEFINE u == Put(l, x, t)
      <3>1. u \in LocalRows /\ \A y \in LocalNames : g[Local(y)] = u[y]
        BY <2>1, <2>2, <2>4
      <3> HIDE DEF u
      <3>2. g = Table(v, w, u)
        BY <2>2, <2>3, <3>1, SameTable
      <3> QED
        BY <3>2 DEF u
    <2> QED
      BY <2>1, <2>5 DEF g
  <1> QED
    BY <1>1, <1>2

LEMMA TableTaken ==
    ASSUME NEW v \in Rows, NEW w \in Rows, NEW l \in LocalRows
    PROVE  Taken(Table(v, w, l)) = Table(w, NoRow, l)
  <1> DEFINE T == Table(v, w, l)
             g == Taken(T)
  <1>1. NoRow \in Rows /\ \A i \in Places : NoRow[i] = 0
    BY DEF NoRow, Rows
  <1>2. /\ \A i \in Places : g[Vec(i)] = w[i] /\ g[Larger(i)] = 0
        /\ \A x \in LocalNames : g[Local(x)] = l[x]
    <2>1. /\ \A i \in Places : g[Vec(i)] = T[Larger(i)] /\ g[Larger(i)] = 0
          /\ \A x \in LocalNames : g[Local(x)] = T[Local(x)]
      BY SlotNames, SlotParts DEF Taken, LocalNames
    <2> QED
      BY <2>1, TableIs
  <1>3. g \in [Slots -> Nat]
    <2>1. g = [s \in Slots |-> g[s]]
      BY DEF Taken
    <2>2. \A s \in Slots : g[s] \in Nat
      BY <1>2, SlotNames DEF Rows, LocalRows
    <2> QED
      BY <2>1, <2>2
  <1> HIDE DEF g
  <1>4. g = Table(w, NoRow, l)
    BY <1>1, <1>2, <1>3, SameTable
  <1> QED
    BY <1>4 DEF g

-----------------------------------------------------------------------------
(* The operations on the rows.                                             *)

LEMMA OperationsAre ==
    /\ \A s \in Slots : <<"new", s>> \in Operations /\ <<"drop", s>> \in Operations
    /\ \A s, t \in Slots : <<"copy", s, t>> \in Operations /\ <<"assign", s, t>> \in Operations
    /\ \A n \in 0 .. MaxBuckets : <<"size", n>> \in Operations
    /\ <<"storage">> \in Operations
  BY DEF Operations

LEMMA RowSteps ==
    ASSUME NEW v \in Rows, NEW w \in Rows, NEW l \in LocalRows, NEW n \in 0 .. MaxBuckets
    PROVE  /\ \A i \in Places, s \in Slots :
                 LET t == Table(v, w, l)[s] IN
                 /\ v[i] = 0 => Does(<<"copy", Vec(i), s>>, State(v, w, l, n), State(Put(v, i, t), w, l, n))
                 /\ w[i] = 0 => Does(<<"copy", Larger(i), s>>, State(v, w, l, n), State(v, Put(w, i, t), l, n))
                 /\ Does(<<"assign", Vec(i), s>>, State(v, w, l, n), State(Put(v, i, t), w, l, n))
           /\ \A i \in Places : Does(<<"drop", Vec(i)>>, State(v, w, l, n), State(Put(v, i, 0), w, l, n))
           /\ \A x \in LocalNames :
                 /\ Does(<<"drop", Local(x)>>, State(v, w, l, n), State(v, w, Put(l, x, 0), n))
                 /\ \A s \in Slots :
                      l[x] = 0 => Does(<<"copy", Local(x), s>>, State(v, w, l, n),
                                       State(v, w, Put(l, x, Table(v, w, l)[s]), n))
                 /\ \A t \in Nat \ {0} :
                      l[x] = 0 /\ (\A i \in Places : v[i] # t /\ w[i] # t) /\ (\A y \in LocalNames : l[y] # t)
                      => Does(<<"new", Local(x)>>, State(v, w, l, n), State(v, w, Put(l, x, t), n))
           /\ \A m \in 0 .. MaxBuckets : Does(<<"size", m>>, State(v, w, l, n), State(v, w, l, m))
           /\ (\A i \in Places : v[i] = 0) => Does(<<"storage">>, State(v, w, l, n), State(w, NoRow, l, n))
  <1> DEFINE T == Table(v, w, l)
  <1>1. /\ T \in [Slots -> Nat]
        /\ \A i \in Places : T[Vec(i)] = v[i] /\ T[Larger(i)] = w[i]
        /\ \A x \in LocalNames : T[Local(x)] = l[x]
    BY TableIs
  <1>2. \A a, b, d, m : State(a, b, d, m).holds = Table(a, b, d) /\ State(a, b, d, m).size = m
    BY DEF State
  <1>3. ASSUME NEW s \in Slots, NEW t \in Nat, NEW a, NEW b, NEW d, Put(T, s, t) = Table(a, b, d)
        PROVE  Puts(State(v, w, l, n), s, t, State(a, b, d, n))
    BY <1>2, <1>3 DEF Puts
  <1>4. ASSUME NEW i \in Places, NEW s \in Slots
        PROVE  /\ v[i] = 0 => Does(<<"copy", Vec(i), s>>, State(v, w, l, n), State(Put(v, i, T[s]), w, l, n))
               /\ w[i] = 0 => Does(<<"copy", Larger(i), s>>, State(v, w, l, n), State(v, Put(w, i, T[s]), l, n))
               /\ Does(<<"assign", Vec(i), s>>, State(v, w, l, n), State(Put(v, i, T[s]), w, l, n))
    <2>1. /\ Puts(State(v, w, l, n), Vec(i), T[s], State(Put(v, i, T[s]), w, l, n))
          /\ Puts(State(v, w, l, n), Larger(i), T[s], State(v, Put(w, i, T[s]), l, n))
      <3>1. T[s] \in Nat /\ Vec(i) \in Slots /\ Larger(i) \in Slots
        BY <1>1, SlotNames
      <3>2. /\ Put(T, Vec(i), T[s]) = Table(Put(v, i, T[s]), w, l)
            /\ Put(T, Larger(i), T[s]) = Table(v, Put(w, i, T[s]), l)
        BY <3>1, TablePut
      <3> QED
        BY <1>3, <3>1, <3>2
    <2> QED
      BY <1>1, <1>2, <2>1 DEF Does
  <1>5. ASSUME NEW i \in Places
        PROVE  Does(<<"drop", Vec(i)>>, State(v, w, l, n), State(Put(v, i, 0), w, l, n))
    <2>1. Puts(State(v, w, l, n), Vec(i), 0, State(Put(v, i, 0), w, l, n))
      <3>1. Vec(i) \in Slots /\ Put(T, Vec(i), 0) = Table(Put(v, i, 0), w, l)
        BY SlotNames, TablePut
      <3> QED
        BY <1>3, <3>1
    <2> QED
      BY <2>1 DEF Does
  <1>6. ASSUME NEW x \in LocalNames, NEW t \in Nat
        PROVE  Puts(State(v, w, l, n), Local(x), t, State(v, w, Put(l, x, t), n))
    <2>1. Local(x) \in Slots /\ Put(T, Local(x), t) = Table(v, w, Put(l, x, t))
      BY SlotNames, TablePut
    <2> QED
      BY <1>3, <2>1
  <1>7. ASSUME NEW x \in LocalNames
        PROVE  /\ Does(<<"drop", Local(x)>>, State(v, w, l, n), State(v, w, Put(l, x, 0), n))
               /\ \A s \in Slots :
                    l[x] = 0 => Does(<<"copy", Local(x), s>>, State(v, w, l, n),
                                     State(v, w, Put(l, x, T[s]), n))
               /\ \A t \in Nat \ {0} :
                    l[x] = 0 /\ (\A i \in Places : v[i] # t /\ w[i] # t) /\ (\A y \in LocalNames : l[y] # t)
                    => Does(<<"new", Local(x)>>, State(v, w, l, n), State(v, w, Put(l, x, t), n))
    <2>1. Does(<<"drop", Local(x)>>, State(v, w, l, n), State(v, w, Put(l, x, 0), n))
      BY <1>6 DEF Does
    <2>2. ASSUME NEW s \in Slots, l[x] = 0
          PROVE  Does(<<"copy", Local(x), s>>, State(v, w, l, n), State(v, w, Put(l, x, T[s]), n))
      <3>1. T[s] \in Nat
        BY <1>1
      <3>2. Puts(State(v, w, l, n), Local(x), T[s], State(v, w, Put(l, x, T[s]), n))
        BY <1>6, <3>1
      <3> QED
        BY <1>1, <1>2, <2>2, <3>2 DEF Does
    <2>3. ASSUME NEW t \in Nat \ {0}, l[x] = 0, \A i \in Places : v[i] # t /\ w[i] # t,
                 \A y \in LocalNames : l[y] # t
          PROVE  Does(<<"new", Local(x)>>, State(v, w, l, n), State(v, w, Put(l, x, t), n))
      <3>1. \A s \in Slots : T[s] # t
        BY <1>1, <2>3, SlotNames
      <3>2. Puts(State(v, w, l, n), Local(x), t, State(v, w, Put(l, x, t), n))
        BY <1>6
      <3> QED
        BY <1>1, <1>2, <2>3, <3>1, <3>2 DEF Does
    <2> QED
      BY <2>1, <2>2, <2>3
  <1>8. \A m \in 0 .. MaxBuckets : Does(<<"size", m>>, State(v, w, l, n), State(v, w, l, m))
    BY <1>2 DEF Does
  <1>9. (\A i \in Places : v[i] = 0) => Does(<<"storage">>, State(v, w, l, n), State(w, NoRow, l, n))
    BY <1>1, <1>2, TableTaken DEF Does
  <1> HIDE DEF T
  <1> QED
    BY <1>4, <1>5, <1>7, <1>8, <1>9 DEF T

LEMMA LeadsThrough ==
    ASSUME NEW m \in Nat, NEW ops, ops = [j \in 1 .. m |-> ops[j]], \A j \in 1 .. m : ops[j] \in Operations,
           NEW plan \in [1 .. m + 1 -> Contents], \A j \in 1 .. m : Does(ops[j], plan[j], plan[j + 1])
    PROVE  Leads(ops, plan[1], plan[m + 1])
  <1>1. ops \in Seq(Operations) /\ Len(ops) = m
    <2>1. ops \in [1 .. m -> Operations]
      OBVIOUS
    <2> QED
      BY <2>1
  <1> QED
    BY <1>1 DEF Leads

LEMMA LeadsByTwo ==
    ASSUME NEW a \in Operations, NEW b \in Operations, NEW c \in Contents, NEW d \in Contents,
           NEW e \in Contents, Does(a, c, d), Does(b, d, e)
    PROVE  Leads(<<a, b>>, c, e)
  <1> DEFINE plan == [i \in 1 .. 3 |-> IF i = 1 THEN c ELSE IF i = 2 THEN d ELSE e]
  <1>1. /\ <<a, b>> \in Seq(Operations) /\ Len(<<a, b>>) = 2 /\ <<a, b>>[1] = a /\ <<a, b>>[2] = b
        /\ plan \in [1 .. 3 -> Contents] /\ plan[1] = c /\ plan[2] = d /\ plan[3] = e
    OBVIOUS
  <1> HIDE DEF plan
  <1>2. \A i \in 1 .. 2 : i = 1 \/ i = 2
    OBVIOUS
  <1> QED
    BY <1>1, <1>2 DEF Leads

LEMMA PutIs ==
    /\ \A r \in Rows, i \in Places, t \in Nat :
          Put(r, i, t) \in Rows /\ \A j \in Places : Put(r, i, t)[j] = IF j = i THEN t ELSE r[j]
    /\ \A l \in LocalRows, x \in LocalNames, t \in Nat :
          Put(l, x, t) \in LocalRows /\ \A y \in LocalNames : Put(l, x, t)[y] = IF y = x THEN t ELSE l[y]
  BY DEF Put, Rows, LocalRows

LEMMA PutRow ==
    ASSUME NEW r \in Rows, NEW i \in Places, NEW t \in Nat, NEW q \in Rows,
           \A j \in Places : q[j] = IF j = i THEN t ELSE r[j]
    PROVE  Put(r, i, t) = q
  BY DEF Put, Rows

LEMMA PutLocal ==
    ASSUME NEW l \in LocalRows, NEW x \in LocalNames, NEW t \in Nat
    PROVE  Put(l, x, t) \in LocalRows /\ \A y \in LocalNames : Put(l, x, t)[y] = IF y = x THEN t ELSE l[y]
  BY DEF Put, LocalRows

LEMMA SameRow ==
    /\ \A r, q \in Rows : (\A j \in Places : r[j] = q[j]) => r = q
    /\ \A r, q \in LocalRows : (\A x \in LocalNames : r[x] = q[x]) => r = q
  BY DEF Rows, LocalRows

-----------------------------------------------------------------------------
(* Runs of operations of one kind, by the rows that they pass through.     *)

LEMMA Assigns ==
    ASSUME NEW m \in Nat, NEW to \in [1 .. m -> Places], NEW from \in [1 .. m -> Places],
           NEW rows \in [1 .. m + 1 -> Rows], NEW w \in Rows, NEW l \in LocalRows,
           NEW n \in 0 .. MaxBuckets,
           \A j \in 1 .. m : \A i \in Places :
               rows[j + 1][i] = IF i = to[j] THEN rows[j][from[j]] ELSE rows[j][i]
    PROVE  Leads([j \in 1 .. m |-> <<"assign", Vec(to[j]), Vec(from[j])>>],
                 State(rows[1], w, l, n), State(rows[m + 1], w, l, n))
  <1> DEFINE ops == [j \in 1 .. m |-> <<"assign", Vec(to[j]), Vec(from[j])>>]
             plan == [j \in 1 .. m + 1 |-> State(rows[j], w, l, n)]
  <1>1. \A j \in 1 .. m + 1 : plan[j] = State(rows[j], w, l, n) /\ rows[j] \in Rows
    OBVIOUS
  <1>2. plan \in [1 .. m + 1 -> Contents]
    BY TableIs
  <1>3. ASSUME NEW j \in 1 .. m PROVE ops[j] \in Operations /\ Does(ops[j], plan[j], plan[j + 1])
    <2> DEFINE r == rows[j]
               q == rows[j + 1]
               p == to[j]
               s == Vec(from[j])
               t == rows[j][from[j]]
    <2>1. /\ r \in Rows /\ q \in Rows /\ p \in Places /\ from[j] \in Places
          /\ j \in 1 .. m + 1 /\ j + 1 \in 1 .. m + 1
      OBVIOUS
    <2>2. t \in Nat /\ s \in Slots /\ Table(r, w, l)[s] = t /\ Vec(p) \in Slots
      <3>1. t \in Nat
        BY <2>1 DEF Rows
      <3>2. \A i \in Places : Table(r, w, l)[Vec(i)] = r[i]
        BY <2>1, TableIs
      <3> QED
        BY <2>1, <3>1, <3>2, SlotNames
    <2>3. \A i \in Places : q[i] = IF i = p THEN t ELSE r[i]
      OBVIOUS
    <2>4. ops[j] = <<"assign", Vec(p), s>> /\ plan[j] = State(r, w, l, n) /\ plan[j + 1] = State(q, w, l, n)
      BY <1>1, <2>1
    <2> HIDE DEF r, q, p, s, t, ops, plan
    <2>5. Put(r, p, t) = q
      BY <2>1, <2>2, <2>3, PutRow
    <2>6. Does(<<"assign", Vec(p), s>>, State(r, w, l, n), State(q, w, l, n))
      BY <2>1, <2>2, <2>5, RowSteps
    <2> QED
      BY <2>2, <2>4, <2>6, OperationsAre
  <1>4. ops = [j \in 1 .. m |-> ops[j]] /\ plan[1] = State(rows[1], w, l, n) /\ plan[m + 1] = State(rows[m + 1], w, l, n)
    OBVIOUS
  <1> HIDE DEF ops, plan
  <1>5. Leads(ops, plan[1], plan[m + 1])
    BY <1>2, <1>3, <1>4, LeadsThrough
  <1> QED
    BY <1>4, <1>5 DEF ops

LEMMA Copies ==
    ASSUME NEW m \in Nat, NEW to \in [1 .. m -> Places], NEW from \in [1 .. m -> Places],
           NEW rows \in [1 .. m + 1 -> Rows], NEW v \in Rows, NEW l \in LocalRows,
           NEW n \in 0 .. MaxBuckets,
           \A j \in 1 .. m : rows[j][to[j]] = 0,
           \A j \in 1 .. m : \A i \in Places :
               rows[j + 1][i] = IF i = to[j] THEN v[from[j]] ELSE rows[j][i]
    PROVE  Leads([j \in 1 .. m |-> <<"copy", Larger(to[j]), Vec(from[j])>>],
                 State(v, rows[1], l, n), State(v, rows[m + 1], l, n))
  <1> DEFINE ops == [j \in 1 .. m |-> <<"copy", Larger(to[j]), Vec(from[j])>>]
             plan == [j \in 1 .. m + 1 |-> State(v, rows[j], l, n)]
  <1>1. \A j \in 1 .. m + 1 : plan[j] = State(v, rows[j], l, n) /\ rows[j] \in Rows
    OBVIOUS
  <1>2. plan \in [1 .. m + 1 -> Contents]
    BY TableIs
  <1>3. ASSUME NEW j \in 1 .. m PROVE ops[j] \in Operations /\ Does(ops[j], plan[j], plan[j + 1])
    <2> DEFINE r == rows[j]
               q == rows[j + 1]
               p == to[j]
               s == Vec(from[j])
               t == v[from[j]]
    <2>1. /\ r \in Rows /\ q \in Rows /\ p \in Places /\ from[j] \in Places /\ r[p] = 0
          /\ j \in 1 .. m + 1 /\ j + 1 \in 1 .. m + 1
      OBVIOUS
    <2>2. t \in Nat /\ s \in Slots /\ Table(v, r, l)[s] = t /\ Larger(p) \in Slots
      <3>1. t \in Nat
        BY <2>1 DEF Rows
      <3>2. \A i \in Places : Table(v, r, l)[Vec(i)] = v[i]
        BY <2>1, TableIs
      <3> QED
        BY <2>1, <3>1, <3>2, SlotNames
    <2>3. \A i \in Places : q[i] = IF i = p THEN t ELSE r[i]
      OBVIOUS
    <2>4. ops[j] = <<"copy", Larger(p), s>> /\ plan[j] = State(v, r, l, n) /\ plan[j + 1] = State(v, q, l, n)
      BY <1>1, <2>1
    <2> HIDE DEF r, q, p, s, t, ops, plan
    <2>5. Put(r, p, t) = q
      BY <2>1, <2>2, <2>3, PutRow
    <2>6. Does(<<"copy", Larger(p), s>>, State(v, r, l, n), State(v, q, l, n))
      BY <2>1, <2>2, <2>5, RowSteps
    <2>7. <<"copy", Larger(p), s>> \in Operations
      BY <2>2, OperationsAre
    <2> QED
      BY <2>4, <2>6, <2>7
  <1>4. ops = [j \in 1 .. m |-> ops[j]] /\ plan[1] = State(v, rows[1], l, n) /\ plan[m + 1] = State(v, rows[m + 1], l, n)
    OBVIOUS
  <1> HIDE DEF ops, plan
  <1>5. Leads(ops, plan[1], plan[m + 1])
    BY <1>2, <1>3, <1>4, LeadsThrough
  <1> QED
    BY <1>4, <1>5 DEF ops

\* The destructors of the first m elements.
LEMMA Drops ==
    ASSUME HandleSizes, NEW m \in 0 .. MaxBuckets, NEW v \in Rows, NEW w \in Rows, NEW l \in LocalRows,
           NEW n \in 0 .. MaxBuckets, \A i \in Places : i > m => v[i] = 0
    PROVE  Leads([j \in 1 .. m |-> <<"drop", Vec(j)>>], State(v, w, l, n), State(NoRow, w, l, n))
  <1> DEFINE ops == [j \in 1 .. m |-> <<"drop", Vec(j)>>]
             row(j) == [i \in Places |-> IF i < j THEN 0 ELSE v[i]]
             plan == [j \in 1 .. m + 1 |-> State(row(j), w, l, n)]
  <1>1. \A j \in 1 .. m + 1 : /\ row(j) \in Rows
                              /\ \A i \in Places : row(j)[i] = IF i < j THEN 0 ELSE v[i]
    BY DEF Rows
  <1> HIDE DEF row
  <1>2. plan \in [1 .. m + 1 -> Contents]
    BY <1>1, TableIs
  <1>3. ASSUME NEW j \in 1 .. m PROVE ops[j] \in Operations /\ Does(ops[j], plan[j], plan[j + 1])
    <2> DEFINE r == row(j)
               q == row(j + 1)
    <2>1. r \in Rows /\ q \in Rows /\ j \in Places /\ j \in 1 .. m + 1 /\ j + 1 \in 1 .. m + 1
      BY <1>1 DEF HandleSizes, Places
    <2>2. \A i \in Places : q[i] = IF i = j THEN 0 ELSE r[i]
      BY <1>1, <2>1 DEF HandleSizes, Places
    <2>3. ops[j] = <<"drop", Vec(j)>> /\ plan[j] = State(r, w, l, n) /\ plan[j + 1] = State(q, w, l, n)
      BY <2>1
    <2> HIDE DEF r, q, ops, plan
    <2>4. Put(r, j, 0) = q
      BY <2>1, <2>2, PutRow
    <2>5. Does(<<"drop", Vec(j)>>, State(r, w, l, n), State(q, w, l, n))
      BY <2>1, <2>4, RowSteps
    <2> QED
      BY <2>1, <2>3, <2>5, OperationsAre, SlotNames
  <1>4. ops = [j \in 1 .. m |-> ops[j]] /\ plan[1] = State(v, w, l, n) /\ plan[m + 1] = State(NoRow, w, l, n)
    <2>1. NoRow \in Rows /\ \A i \in Places : NoRow[i] = 0
      BY DEF NoRow, Rows
    <2>2. row(1) = v
      BY <1>1, SameRow DEF HandleSizes, Places
    <2>3. row(m + 1) = NoRow
      BY <1>1, <2>1, SameRow DEF HandleSizes, Places
    <2> QED
      BY <2>2, <2>3
  <1> HIDE DEF ops, plan
  <1>5. Leads(ops, plan[1], plan[m + 1])
    BY <1>2, <1>3, <1>4, LeadsThrough
  <1> QED
    BY <1>4, <1>5 DEF ops

-----------------------------------------------------------------------------
(* What std::vector does.                                                  *)

\* The first n places are in use.
Uses(v, n) == v \in Rows /\ n \in 0 .. MaxBuckets /\ \A i \in Places : i > n => v[i] = 0

Erased(v, n, k) ==
    [i \in Places |-> IF i < k THEN v[i] ELSE IF i < n THEN v[i + 1] ELSE 0]

LEMMA ErasedIs ==
    ASSUME HandleSizes, NEW v, NEW n \in 1 .. MaxBuckets, NEW k \in 1 .. n, Uses(v, n)
    PROVE  /\ Uses(Erased(v, n, k), n - 1)
           /\ \A i \in Places : Erased(v, n, k)[i] = IF i < k THEN v[i] ELSE IF i < n THEN v[i + 1] ELSE 0
  <1>1. MaxBuckets \in Nat /\ v \in Rows /\ \A i \in Places : v[i] \in Nat
    BY DEF HandleSizes, Uses, Rows
  <1>2. \A i \in Places : (IF i < k THEN v[i] ELSE IF i < n THEN v[i + 1] ELSE 0) \in Nat
    BY <1>1 DEF Places
  <1>3. Erased(v, n, k) \in Rows
    BY <1>2 DEF Erased, Rows
  <1> QED
    BY <1>1, <1>3 DEF Erased, Uses, Places

LEMMA EraseLeads ==
    ASSUME HandleSizes, NEW v, NEW n \in 1 .. MaxBuckets, NEW k \in 1 .. n, Uses(v, n),
           NEW w \in Rows, NEW l \in LocalRows
    PROVE  Leads(Erase(n, k), State(v, w, l, n), State(Erased(v, n, k), w, l, n - 1))
  <1> DEFINE row(j) == [i \in Places |-> IF k <= i /\ i < k + j - 1 THEN v[i + 1] ELSE v[i]]
             m == n - k
             to == [j \in 1 .. m |-> k + j - 1]
             from == [j \in 1 .. m |-> k + j]
             rows == [j \in 1 .. m + 1 |-> row(j)]
             a == [j \in 1 .. m |-> <<"assign", Vec(k + j - 1), Vec(k + j)>>]
             last == row(m + 1)
             erased == Erased(v, n, k)
  <1>1. /\ n \in Nat /\ k \in Nat /\ m \in Nat /\ MaxBuckets \in Nat /\ n \in 0 .. MaxBuckets
        /\ n - 1 \in 0 .. MaxBuckets /\ n \in Places /\ Vec(n) \in Slots
        /\ v \in Rows /\ \A i \in Places : v[i] \in Nat
    BY SlotNames DEF HandleSizes, Uses, Rows, Places
  <1>2. \A j \in 1 .. m + 1 : /\ row(j) \in Rows
                              /\ \A i \in Places : row(j)[i] = IF k <= i /\ i < k + j - 1 THEN v[i + 1] ELSE v[i]
    <2> TAKE j \in 1 .. m + 1
    <2>1. \A i \in Places : (IF k <= i /\ i < k + j - 1 THEN v[i + 1] ELSE v[i]) \in Nat
      BY <1>1 DEF Places
    <2> QED
      BY <2>1 DEF Rows
  <1> HIDE DEF row
  <1>3. Leads(a, State(v, w, l, n), State(last, w, l, n))
    <2>1. to \in [1 .. m -> Places] /\ from \in [1 .. m -> Places] /\ rows \in [1 .. m + 1 -> Rows]
      BY <1>1, <1>2 DEF Places
    <2>2. \A j \in 1 .. m : \A i \in Places :
             rows[j + 1][i] = IF i = to[j] THEN rows[j][from[j]] ELSE rows[j][i]
      <3> TAKE j \in 1 .. m
      <3>1. /\ rows[j] = row(j) /\ rows[j + 1] = row(j + 1) /\ to[j] = k + j - 1 /\ from[j] = k + j
            /\ k + j - 1 \in Places /\ k + j \in Places /\ j \in 1 .. m + 1 /\ j + 1 \in 1 .. m + 1
        BY <1>1 DEF Places
      <3>2. \A i \in Places : row(j + 1)[i] = IF i = k + j - 1 THEN row(j)[k + j] ELSE row(j)[i]
        BY <1>1, <1>2, <3>1 DEF Places
      <3> QED
        BY <3>1, <3>2
    <2>3. [j \in 1 .. m |-> <<"assign", Vec(to[j]), Vec(from[j])>>] = a
      OBVIOUS
    <2>4. rows[1] = v /\ rows[m + 1] = last
      <3>1. row(1) = v
        BY <1>1, <1>2, SameRow DEF Places
      <3> QED
        BY <1>1, <3>1
    <2> HIDE DEF m, to, from, rows, a, last
    <2>5. Leads([j \in 1 .. m |-> <<"assign", Vec(to[j]), Vec(from[j])>>],
                State(rows[1], w, l, n), State(rows[m + 1], w, l, n))
      <3>1. m \in Nat /\ n \in 0 .. MaxBuckets /\ w \in Rows /\ l \in LocalRows
        BY <1>1
      <3> QED
        BY <2>1, <2>2, <3>1, Assigns, Zenon
    <2> QED
      BY <2>3, <2>4, <2>5
  <1>4. Leads(<< <<"drop", Vec(n)>>, <<"size", n - 1>> >>, State(last, w, l, n), State(erased, w, l, n - 1))
    <2>1. last \in Rows /\ erased \in Rows /\ \A i \in Places : erased[i] = IF i = n THEN 0 ELSE last[i]
      BY <1>1, <1>2, ErasedIs DEF Uses, Places
    <2> HIDE DEF last, erased
    <2>2. Put(last, n, 0) = erased
      BY <1>1, <2>1, PutRow
    <2>3. Does(<<"drop", Vec(n)>>, State(last, w, l, n), State(erased, w, l, n))
      BY <1>1, <2>1, <2>2, RowSteps
    <2>4. Does(<<"size", n - 1>>, State(erased, w, l, n), State(erased, w, l, n - 1))
      BY <1>1, <2>1, RowSteps
    <2>5. /\ State(last, w, l, n) \in Contents /\ State(erased, w, l, n) \in Contents
          /\ State(erased, w, l, n - 1) \in Contents
      BY <1>1, <2>1, TableIs
    <2> QED
      BY <1>1, <2>3, <2>4, <2>5, OperationsAre, LeadsByTwo
  <1>5. Erase(n, k) = a \o << <<"drop", Vec(n)>>, <<"size", n - 1>> >>
    BY DEF Erase
  <1> QED
    BY <1>3, <1>4, <1>5, LeadsOn

Inserted(v, k, t) ==
    [i \in Places |-> IF i < k THEN v[i] ELSE IF i = k THEN t ELSE v[i - 1]]

LEMMA InsertedIs ==
    ASSUME HandleSizes, NEW v, NEW n \in 0 .. MaxBuckets - 1, NEW k \in 1 .. n + 1, Uses(v, n), NEW t \in Nat
    PROVE  /\ Uses(Inserted(v, k, t), n + 1)
           /\ \A i \in Places : Inserted(v, k, t)[i] = IF i < k THEN v[i] ELSE IF i = k THEN t ELSE v[i - 1]
  <1>1. /\ MaxBuckets \in Nat /\ n \in Nat /\ k \in Nat /\ v \in Rows /\ \A i \in Places : v[i] \in Nat
    BY DEF HandleSizes, Uses, Rows
  <1>2. \A i \in Places : (IF i < k THEN v[i] ELSE IF i = k THEN t ELSE v[i - 1]) \in Nat
    BY <1>1 DEF Places
  <1>3. Inserted(v, k, t) \in Rows
    BY <1>2 DEF Inserted, Rows
  <1>4. \A i \in Places : Inserted(v, k, t)[i] = IF i < k THEN v[i] ELSE IF i = k THEN t ELSE v[i - 1]
    BY DEF Inserted
  <1>5. \A i \in Places : i > n + 1 => Inserted(v, k, t)[i] = 0
    BY <1>1, <1>4 DEF Uses, Places
  <1> QED
    BY <1>1, <1>3, <1>4, <1>5 DEF Uses

LEMMA InsertMovingLeads ==
    ASSUME HandleSizes, NEW v, NEW n \in 0 .. MaxBuckets - 1, NEW k \in 1 .. n + 1, Uses(v, n),
           NEW l \in LocalRows, NEW x \in LocalNames
    PROVE  Leads(InsertMoving(n, k, Local(x)), State(v, NoRow, l, n),
                 State(Inserted(v, k, l[x]), NoRow, l, n + 1))
  <1> DEFINE t == l[x]
             first(j) == [i \in Places |-> IF i < j THEN v[i] ELSE 0]
             then(j) == [i \in Places |-> IF i < k THEN v[i] ELSE IF i = k THEN t
                                          ELSE IF i < k + j THEN v[i - 1] ELSE 0]
             firsts == [j \in 1 .. k - 1 + 1 |-> first(j)]
             thens == [j \in 1 .. n + 1 - k + 1 |-> then(j)]
             ins == Inserted(v, k, t)
  <1>1. /\ MaxBuckets \in Nat /\ n \in Nat /\ k \in Nat /\ n \in 0 .. MaxBuckets /\ n + 1 \in 0 .. MaxBuckets
        /\ v \in Rows /\ \A i \in Places : v[i] \in Nat
    BY DEF HandleSizes, Uses, Rows
  <1>2. t \in Nat /\ Local(x) \in Slots
    BY SlotNames DEF LocalRows
  <1>3. NoRow \in Rows /\ \A i \in Places : NoRow[i] = 0
    BY DEF NoRow, Rows
  <1> HIDE DEF t
  <1>4. ins \in Rows /\ \A i \in Places : ins[i] = IF i < k THEN v[i] ELSE IF i = k THEN t ELSE v[i - 1]
    BY <1>2, InsertedIs DEF Uses
  <1>5. \A j \in Nat : first(j) \in Rows /\ \A i \in Places : first(j)[i] = IF i < j THEN v[i] ELSE 0
    BY <1>1 DEF Rows
  <1>6. \A j \in Nat : /\ then(j) \in Rows
                       /\ \A i \in Places : then(j)[i] = IF i < k THEN v[i] ELSE IF i = k THEN t
                                                         ELSE IF i < k + j THEN v[i - 1] ELSE 0
    <2> TAKE j \in Nat
    <2>1. \A i \in Places : (IF i < k THEN v[i] ELSE IF i = k THEN t
                             ELSE IF i < k + j THEN v[i - 1] ELSE 0) \in Nat
      BY <1>1, <1>2 DEF Places
    <2> QED
      BY <2>1 DEF Rows
  <1> HIDE DEF first, then, ins
  <1>7. Leads([j \in 1 .. k - 1 |-> <<"copy", Larger(j), Vec(j)>>],
              State(v, NoRow, l, n), State(v, first(k), l, n))
    <2> DEFINE m == k - 1
               to == [j \in 1 .. m |-> j]
    <2>1. m \in Nat /\ to \in [1 .. m -> Places] /\ firsts \in [1 .. m + 1 -> Rows]
      BY <1>1, <1>5 DEF Places
    <2>2. /\ \A j \in 1 .. m : firsts[j][to[j]] = 0
          /\ \A j \in 1 .. m : \A i \in Places : firsts[j + 1][i] = IF i = to[j] THEN v[to[j]] ELSE firsts[j][i]
      BY <1>1, <1>5 DEF Places
    <2>3. [j \in 1 .. m |-> <<"copy", Larger(to[j]), Vec(to[j])>>] = [j \in 1 .. k - 1 |-> <<"copy", Larger(j), Vec(j)>>]
      OBVIOUS
    <2>4. firsts[1] = NoRow /\ firsts[m + 1] = first(k)
      <3>1. first(1) = NoRow
        BY <1>3, <1>5, SameRow DEF Places
      <3> QED
        BY <1>1, <3>1
    <2> HIDE DEF m, to, firsts
    <2>5. Leads([j \in 1 .. m |-> <<"copy", Larger(to[j]), Vec(to[j])>>],
                State(v, firsts[1], l, n), State(v, firsts[m + 1], l, n))
      BY <1>1, <2>1, <2>2, Copies
    <2> QED
      BY <2>3, <2>4, <2>5
  <1>8. Leads(<< <<"copy", Larger(k), Local(x)>> >>, State(v, first(k), l, n), State(v, then(1), l, n))
    <2>1. k \in Places /\ Larger(k) \in Slots /\ first(k) \in Rows /\ then(1) \in Rows /\ first(k)[k] = 0
      BY <1>1, <1>5, <1>6, SlotNames DEF Places
    <2>2. \A i \in Places : then(1)[i] = IF i = k THEN t ELSE first(k)[i]
      BY <1>1, <1>5, <1>6 DEF Places
    <2>3. Put(first(k), k, t) = then(1)
      BY <1>2, <2>1, <2>2, PutRow
    <2>4. Table(v, first(k), l)[Local(x)] = t
      BY <1>1, <2>1, TableIs DEF t
    <2>5. Does(<<"copy", Larger(k), Local(x)>>, State(v, first(k), l, n), State(v, then(1), l, n))
      BY <1>1, <1>2, <2>1, <2>3, <2>4, RowSteps
    <2> QED
      BY <1>1, <1>2, <2>1, <2>5, LeadsByOne, OperationsAre, TableIs
  <1>9. Leads([j \in 1 .. n + 1 - k |-> <<"copy", Larger(k + j), Vec(k + j - 1)>>],
              State(v, then(1), l, n), State(v, ins, l, n))
    <2> DEFINE m == n + 1 - k
               to == [j \in 1 .. m |-> k + j]
               from == [j \in 1 .. m |-> k + j - 1]
    <2>1. /\ m \in Nat /\ to \in [1 .. m -> Places] /\ from \in [1 .. m -> Places]
          /\ thens \in [1 .. m + 1 -> Rows]
      BY <1>1, <1>6 DEF Places
    <2>2. \A j \in 1 .. m :
             /\ thens[j][to[j]] = 0
             /\ \A i \in Places : thens[j + 1][i] = IF i = to[j] THEN v[from[j]] ELSE thens[j][i]
      <3> TAKE j \in 1 .. m
      <3>1. /\ thens[j] = then(j) /\ thens[j + 1] = then(j + 1) /\ to[j] = k + j /\ from[j] = k + j - 1
            /\ j \in Nat /\ j + 1 \in Nat /\ k + j \in Places
        BY <1>1 DEF Places
      <3>2. /\ then(j)[k + j] = 0
            /\ \A i \in Places : then(j + 1)[i] = IF i = k + j THEN v[k + j - 1] ELSE then(j)[i]
        <4>1. \A i \in Places :
                 /\ then(j)[i] = IF i < k THEN v[i] ELSE IF i = k THEN t ELSE IF i < k + j THEN v[i - 1] ELSE 0
                 /\ then(j + 1)[i] = IF i < k THEN v[i] ELSE IF i = k THEN t
                                     ELSE IF i < k + (j + 1) THEN v[i - 1] ELSE 0
          BY <1>6, <3>1
        <4>2. then(j)[k + j] = 0
          BY <1>1, <3>1, <4>1
        <4>3. ASSUME NEW i \in Places PROVE then(j + 1)[i] = IF i = k + j THEN v[k + j - 1] ELSE then(j)[i]
          <5>1. CASE i = k + j
            BY <1>1, <3>1, <4>1, <5>1 DEF Places
          <5>2. CASE i # k + j
            <6>1. i < k + (j + 1) <=> i < k + j
              BY <1>1, <5>2 DEF Places
            <6> QED
              BY <4>1, <5>2, <6>1
          <5> QED
            BY <5>1, <5>2
        <4> QED
          BY <4>2, <4>3
      <3> QED
        BY <3>1, <3>2
    <2>3. [j \in 1 .. m |-> <<"copy", Larger(to[j]), Vec(from[j])>>]
            = [j \in 1 .. n + 1 - k |-> <<"copy", Larger(k + j), Vec(k + j - 1)>>]
      OBVIOUS
    <2>4. thens[1] = then(1) /\ thens[m + 1] = ins
      <3>1. then(m + 1) = ins
        <4>1. m + 1 \in Nat /\ then(m + 1) \in Rows
          BY <1>1, <1>6
        <4>2. \A i \in Places : then(m + 1)[i] = ins[i]
          BY <1>1, <1>4, <1>6, <4>1 DEF Places, Uses
        <4> QED
          BY <1>4, <4>1, <4>2, SameRow
      <3> QED
        BY <1>1, <3>1
    <2> HIDE DEF m, to, from, thens
    <2>5. Leads([j \in 1 .. m |-> <<"copy", Larger(to[j]), Vec(from[j])>>],
                State(v, thens[1], l, n), State(v, thens[m + 1], l, n))
      <3>1. \A j \in 1 .. m : thens[j][to[j]] = 0
        BY <2>2
      <3>2. \A j \in 1 .. m : \A i \in Places : thens[j + 1][i] = IF i = to[j] THEN v[from[j]] ELSE thens[j][i]
        BY <2>2
      <3> QED
        BY <1>1, <2>1, <3>1, <3>2, Copies
    <2> QED
      BY <2>3, <2>4, <2>5
  <1>10. Leads([j \in 1 .. n |-> <<"drop", Vec(j)>>], State(v, ins, l, n), State(NoRow, ins, l, n))
    BY <1>1, <1>4, Drops DEF Uses
  <1>11. Leads(<< <<"storage">>, <<"size", n + 1>> >>, State(NoRow, ins, l, n), State(ins, NoRow, l, n + 1))
    <2>1. /\ Does(<<"storage">>, State(NoRow, ins, l, n), State(ins, NoRow, l, n))
          /\ Does(<<"size", n + 1>>, State(ins, NoRow, l, n), State(ins, NoRow, l, n + 1))
      BY <1>1, <1>3, <1>4, RowSteps
    <2>2. /\ State(NoRow, ins, l, n) \in Contents /\ State(ins, NoRow, l, n) \in Contents
          /\ State(ins, NoRow, l, n + 1) \in Contents
      BY <1>1, <1>3, <1>4, TableIs
    <2> QED
      BY <1>1, <2>1, <2>2, OperationsAre, LeadsByTwo
  <1> DEFINE a == [j \in 1 .. k - 1 |-> <<"copy", Larger(j), Vec(j)>>]
             b == << <<"copy", Larger(k), Local(x)>> >>
             c == [j \in 1 .. n + 1 - k |-> <<"copy", Larger(k + j), Vec(k + j - 1)>>]
             d == [j \in 1 .. n |-> <<"drop", Vec(j)>>]
             e == << <<"storage">>, <<"size", n + 1>> >>
  <1>12. InsertMoving(n, k, Local(x)) = (((a \o b) \o c) \o d) \o e
    BY DEF InsertMoving
  <1> HIDE DEF a, b, c, d, e
  <1>13. Leads(a \o b, State(v, NoRow, l, n), State(v, then(1), l, n))
    BY <1>7, <1>8, LeadsOn DEF a, b
  <1>14. Leads((a \o b) \o c, State(v, NoRow, l, n), State(v, ins, l, n))
    BY <1>9, <1>13, LeadsOn DEF c
  <1>15. Leads(((a \o b) \o c) \o d, State(v, NoRow, l, n), State(NoRow, ins, l, n))
    BY <1>10, <1>14, LeadsOn DEF d
  <1>16. Leads((((a \o b) \o c) \o d) \o e, State(v, NoRow, l, n), State(ins, NoRow, l, n + 1))
    BY <1>11, <1>15, LeadsOn DEF e
  <1> QED
    BY <1>12, <1>16 DEF ins, t

LEMMA InsertInPlaceLeads ==
    ASSUME HandleSizes, NEW v, NEW n \in 0 .. MaxBuckets - 1, NEW k \in 1 .. n + 1, Uses(v, n),
           NEW l \in LocalRows, NEW x \in LocalNames \ {"x_copy"}, l["x_copy"] = 0
    PROVE  Leads(InsertInPlace(n, k, Local(x)), State(v, NoRow, l, n),
                 State(Inserted(v, k, l[x]), NoRow, l, n + 1))
  <1> DEFINE t == l[x]
             row(j) == [i \in Places |-> IF i <= n + 1 - j THEN v[i] ELSE v[i - 1]]
             m == n - k
             rows == [j \in 1 .. m + 1 |-> row(j)]
             ins == Inserted(v, k, t)
             held == Put(l, "x_copy", t)
             c == State(v, NoRow, l, n)
             e == State(ins, NoRow, l, n)
             f == State(ins, NoRow, l, n + 1)
  <1>1. /\ MaxBuckets \in Nat /\ n \in Nat /\ k \in Nat /\ n \in 0 .. MaxBuckets /\ n + 1 \in 0 .. MaxBuckets
        /\ v \in Rows /\ \A i \in Places : v[i] \in Nat
    BY DEF HandleSizes, Uses, Rows
  <1>2. t \in Nat /\ Local(x) \in Slots /\ "x_copy" \in LocalNames /\ Local("x_copy") \in Slots
    BY SlotNames DEF LocalRows, LocalNames
  <1>3. NoRow \in Rows /\ held \in LocalRows /\ held["x_copy"] = t /\ Put(held, "x_copy", 0) = l
    <2>1. held \in LocalRows /\ held["x_copy"] = t
      BY <1>2 DEF Put, LocalRows
    <2>2. Put(held, "x_copy", 0) \in LocalRows /\ \A y \in LocalNames : Put(held, "x_copy", 0)[y] = l[y]
      BY <1>2 DEF Put, LocalRows
    <2> QED
      BY <2>1, <2>2, SameRow DEF NoRow, Rows
  <1> HIDE DEF held
  <1>4. ins \in Rows /\ \A i \in Places : ins[i] = IF i < k THEN v[i] ELSE IF i = k THEN t ELSE v[i - 1]
    BY <1>2, InsertedIs DEF Uses
  <1>5. c \in Contents /\ e \in Contents /\ f \in Contents
    BY <1>1, <1>3, <1>4, TableIs
  <1>6. Leads(<< <<"size", n + 1>> >>, e, f)
    BY <1>1, <1>3, <1>4, <1>5, RowSteps, LeadsByOne, OperationsAre
  <1>7. CASE k > n
    <2>1. k \in Places /\ v[k] = 0 /\ Vec(k) \in Slots /\ Table(v, NoRow, l)[Local(x)] = t
      BY <1>1, <1>3, <1>7, TableIs, SlotNames DEF Uses, Places
    <2>2. Put(v, k, t) = ins
      <3>1. \A i \in Places : ins[i] = IF i = k THEN t ELSE v[i]
        BY <1>1, <1>4, <1>7 DEF Uses, Places
      <3> HIDE DEF t, ins
      <3> QED
        BY <1>1, <1>2, <1>4, <2>1, <3>1, PutRow
    <2>3. Does(<<"copy", Vec(k), Local(x)>>, c, e)
      BY <1>1, <1>2, <1>3, <2>1, <2>2, RowSteps
    <2>4. Leads(<< <<"copy", Vec(k), Local(x)>> >>, c, e)
      BY <1>2, <1>5, <2>1, <2>3, LeadsByOne, OperationsAre
    <2>5. InsertInPlace(n, k, Local(x)) = << <<"copy", Vec(k), Local(x)>> >> \o << <<"size", n + 1>> >>
      BY <1>7 DEF InsertInPlace
    <2> HIDE DEF c, e, f
    <2>6. Leads(<< <<"copy", Vec(k), Local(x)>> >> \o << <<"size", n + 1>> >>, c, f)
      BY <1>6, <2>4, LeadsOn
    <2> QED
      BY <2>5, <2>6 DEF c, f
  <1>8. CASE k <= n
    <2> DEFINE a == << <<"copy", Vec(n + 1), Vec(n)>>, <<"copy", Local("x_copy"), Local(x)>> >>
               b == [j \in 1 .. m |-> <<"assign", Vec(n + 1 - j), Vec(n - j)>>]
               d == << <<"assign", Vec(k), Local("x_copy")>>, <<"drop", Local("x_copy")>> >>
    <2>1. /\ m \in Nat /\ n \in Places /\ n + 1 \in Places /\ k \in Places
          /\ Vec(n) \in Slots /\ Vec(n + 1) \in Slots /\ Vec(k) \in Slots
      BY <1>1, <1>8, SlotNames DEF Places
    <2>2. \A j \in 1 .. m + 1 : /\ row(j) \in Rows
                                /\ \A i \in Places : row(j)[i] = IF i <= n + 1 - j THEN v[i] ELSE v[i - 1]
      <3> TAKE j \in 1 .. m + 1
      <3>1. \A i \in Places : (IF i <= n + 1 - j THEN v[i] ELSE v[i - 1]) \in Nat
        BY <1>1, <1>8 DEF Places
      <3> QED
        BY <3>1 DEF Rows
    <2> HIDE DEF row, m
    <2>3. Leads(a, c, State(row(1), NoRow, held, n))
      <3>1. v[n + 1] = 0 /\ Table(v, NoRow, l)[Vec(n)] = v[n] /\ v[n] \in Nat
        BY <1>1, <1>3, <2>1, TableIs DEF Uses
      <3>2. row(1) \in Rows /\ \A i \in Places : row(1)[i] = IF i <= n THEN v[i] ELSE v[i - 1]
        BY <1>1, <2>1, <2>2
      <3>3. Put(v, n + 1, v[n]) = row(1)
        <4> DEFINE r == row(1)
                   p == n + 1
                   q == v[n]
        <4>1. \A i \in Places : r[i] = IF i = p THEN q ELSE v[i]
          BY <1>1, <3>2 DEF Uses, Places
        <4>2. r \in Rows /\ p \in Places /\ q \in Nat
          BY <2>1, <3>1, <3>2
        <4> HIDE DEF r, p, q
        <4>3. Put(v, p, q) = r
          BY <1>1, <4>1, <4>2, PutRow
        <4> QED
          BY <4>3 DEF r, p, q
      <3>4. Does(<<"copy", Vec(n + 1), Vec(n)>>, c, State(row(1), NoRow, l, n))
        BY <1>1, <1>3, <2>1, <3>1, <3>3, RowSteps
      <3>5. Does(<<"copy", Local("x_copy"), Local(x)>>, State(row(1), NoRow, l, n), State(row(1), NoRow, held, n))
        <4>1. Table(row(1), NoRow, l)[Local(x)] = t
          BY <1>3, <3>2, TableIs
        <4> QED
          BY <1>1, <1>2, <1>3, <3>2, <4>1, RowSteps DEF held
      <3>6. State(row(1), NoRow, l, n) \in Contents /\ State(row(1), NoRow, held, n) \in Contents
        BY <1>1, <1>3, <3>2, TableIs
      <3>7. <<"copy", Vec(n + 1), Vec(n)>> \in Operations /\ <<"copy", Local("x_copy"), Local(x)>> \in Operations
        BY <1>2, <2>1, OperationsAre
      <3> QED
        BY <1>5, <3>4, <3>5, <3>6, <3>7, LeadsByTwo
    <2>4. Leads(b, State(row(1), NoRow, held, n), State(row(m + 1), NoRow, held, n))
      <3> DEFINE to == [j \in 1 .. m |-> n + 1 - j]
                 from == [j \in 1 .. m |-> n - j]
      <3>1. /\ to \in [1 .. m -> Places] /\ from \in [1 .. m -> Places] /\ rows \in [1 .. m + 1 -> Rows]
        BY <1>1, <1>8, <2>2 DEF m, Places
      <3>2. ASSUME NEW j \in 1 .. m, NEW i \in Places
            PROVE  rows[j + 1][i] = IF i = to[j] THEN rows[j][from[j]] ELSE rows[j][i]
        <4>1. /\ rows[j] = row(j) /\ rows[j + 1] = row(j + 1) /\ to[j] = n + 1 - j /\ from[j] = n - j
              /\ j \in Nat /\ n - j \in Places /\ n + 1 - j \in Places
          BY <1>1, <1>8 DEF m, Places
        <4>2. /\ row(j)[i] = IF i <= n + 1 - j THEN v[i] ELSE v[i - 1]
              /\ row(j + 1)[i] = IF i <= n + 1 - (j + 1) THEN v[i] ELSE v[i - 1]
              /\ row(j)[n - j] = v[n - j]
          BY <1>1, <2>1, <2>2, <4>1 DEF Places
        <4>3. CASE i = n + 1 - j
          <5>1. i - 1 = n - j /\ ~(i <= n + 1 - (j + 1))
            BY <1>1, <4>1, <4>3
          <5> QED
            BY <4>1, <4>2, <4>3, <5>1
        <4>4. CASE i # n + 1 - j
          <5>1. i <= n + 1 - (j + 1) <=> i <= n + 1 - j
            BY <1>1, <4>1, <4>4 DEF Places
          <5> QED
            BY <4>1, <4>2, <4>4, <5>1
        <4> QED
          BY <4>3, <4>4
      <3>3. [j \in 1 .. m |-> <<"assign", Vec(to[j]), Vec(from[j])>>] = b
        OBVIOUS
      <3>4. rows[1] = row(1) /\ rows[m + 1] = row(m + 1)
        BY <2>1
      <3> HIDE DEF to, from, rows, b
      <3>5. \A j \in 1 .. m : \A i \in Places :
               rows[j + 1][i] = IF i = to[j] THEN rows[j][from[j]] ELSE rows[j][i]
        BY <3>2
      <3>6. Leads([j \in 1 .. m |-> <<"assign", Vec(to[j]), Vec(from[j])>>],
                  State(rows[1], NoRow, held, n), State(rows[m + 1], NoRow, held, n))
        <4>1. m \in Nat /\ NoRow \in Rows /\ held \in LocalRows /\ n \in 0 .. MaxBuckets
          BY <1>1, <1>3, <2>1
        <4> QED
          BY <3>1, <3>5, <4>1, Assigns, Zenon
      <3> QED
        BY <3>3, <3>4, <3>6
    <2>5. Leads(d, State(row(m + 1), NoRow, held, n), e)
      <3>1. row(m + 1) \in Rows /\ \A i \in Places : row(m + 1)[i] = IF i <= k THEN v[i] ELSE v[i - 1]
        BY <1>1, <2>1, <2>2 DEF m
      <3>2. Put(row(m + 1), k, t) = ins
        <4> DEFINE r == row(m + 1)
        <4>1. r \in Rows /\ \A i \in Places : ins[i] = IF i = k THEN t ELSE r[i]
          BY <1>1, <1>4, <3>1 DEF Places
        <4> HIDE DEF r, ins, t
        <4>2. Put(r, k, t) = ins
          BY <1>2, <1>4, <2>1, <4>1, PutRow
        <4> QED
          BY <4>2 DEF r
      <3>3. Does(<<"assign", Vec(k), Local("x_copy")>>, State(row(m + 1), NoRow, held, n), State(ins, NoRow, held, n))
        <4>1. Table(row(m + 1), NoRow, held)[Local("x_copy")] = t
          BY <1>2, <1>3, <3>1, TableIs
        <4> DEFINE r == row(m + 1)
        <4>2. r \in Rows /\ Put(r, k, t) = ins /\ Table(r, NoRow, held)[Local("x_copy")] = t
          BY <3>1, <3>2, <4>1
        <4> HIDE DEF r, t, ins
        <4>3. Does(<<"assign", Vec(k), Local("x_copy")>>, State(r, NoRow, held, n), State(ins, NoRow, held, n))
          BY <1>1, <1>2, <1>3, <2>1, <4>2, RowSteps
        <4> QED
          BY <4>3 DEF r
      <3>4. Does(<<"drop", Local("x_copy")>>, State(ins, NoRow, held, n), e)
        BY <1>1, <1>2, <1>3, <1>4, RowSteps
      <3>5. State(row(m + 1), NoRow, held, n) \in Contents /\ State(ins, NoRow, held, n) \in Contents
        BY <1>1, <1>3, <1>4, <3>1, TableIs
      <3>6. <<"assign", Vec(k), Local("x_copy")>> \in Operations /\ <<"drop", Local("x_copy")>> \in Operations
        BY <1>2, <2>1, OperationsAre
      <3> QED
        BY <1>5, <3>3, <3>4, <3>5, <3>6, LeadsByTwo
    <2>6. InsertInPlace(n, k, Local(x)) = ((a \o b) \o d) \o << <<"size", n + 1>> >>
      BY <1>1, <1>8 DEF InsertInPlace, m
    <2> HIDE DEF a, b, d, c, e, f
    <2>7. Leads(a \o b, c, State(row(m + 1), NoRow, held, n))
      BY <2>3, <2>4, LeadsOn
    <2>8. Leads((a \o b) \o d, c, e)
      BY <2>5, <2>7, LeadsOn
    <2>9. Leads(((a \o b) \o d) \o << <<"size", n + 1>> >>, c, f)
      BY <1>6, <2>8, LeadsOn
    <2> QED
      BY <2>6, <2>9 DEF c, f
  <1> QED
    BY <1>1, <1>7, <1>8

LEMMA InsertLeads ==
    ASSUME HandleSizes, NEW v, NEW n \in 0 .. MaxBuckets - 1, NEW k \in 1 .. n + 1, Uses(v, n),
           NEW l \in LocalRows, NEW x \in LocalNames \ {"x_copy"}, l["x_copy"] = 0,
           NEW a \in Inserts(n, k, Local(x))
    PROVE  Leads(a, State(v, NoRow, l, n), State(Inserted(v, k, l[x]), NoRow, l, n + 1))
  BY InsertInPlaceLeads, InsertMovingLeads DEF Inserts

-----------------------------------------------------------------------------
(* The calls of the routing table.                                         *)

NoLocals == [x \in LocalNames |-> 0]

\* A vector of n elements, of which each is the only handle to its object.
First(n) == [i \in Places |-> IF i <= n THEN i ELSE 0]

LEMMA RowsAre ==
    ASSUME HandleSizes
    PROVE  /\ NoRow \in Rows /\ \A i \in Places : NoRow[i] = 0
           /\ NoLocals \in LocalRows /\ \A x \in LocalNames : NoLocals[x] = 0
           /\ \A n \in 0 .. MaxBuckets : /\ Uses(First(n), n)
                                         /\ \A i \in Places : First(n)[i] = IF i <= n THEN i ELSE 0
  <1>1. NoRow \in Rows /\ \A i \in Places : NoRow[i] = 0
    BY DEF NoRow, Rows
  <1>2. NoLocals \in LocalRows /\ \A x \in LocalNames : NoLocals[x] = 0
    BY DEF NoLocals, LocalRows
  <1>3. \A n \in 0 .. MaxBuckets : /\ First(n) \in Rows
                                   /\ \A i \in Places : First(n)[i] = IF i <= n THEN i ELSE 0
    BY DEF HandleSizes, First, Rows, Places
  <1> QED
    BY <1>1, <1>2, <1>3 DEF HandleSizes, Uses, Places

LEMMA SettledIs ==
    ASSUME HandleSizes, NEW v \in Rows, NEW n \in 0 .. MaxBuckets,
           \A i \in Places : v[i] # 0 <=> i <= n,
           \A i, j \in Places : v[i] = v[j] /\ v[i] # 0 => i = j
    PROVE  Settled(State(v, NoRow, NoLocals, n))
  <1> DEFINE h == Table(v, NoRow, NoLocals)
  <1>1. /\ \A i \in Places : h[Vec(i)] = v[i] /\ h[Larger(i)] = 0
        /\ \A x \in LocalNames : h[Local(x)] = 0
    BY RowsAre, TableIs
  <1>2. State(v, NoRow, NoLocals, n).holds = h /\ State(v, NoRow, NoLocals, n).size = n
    BY DEF State
  <1> HIDE DEF h
  <1>3. \A i \in Places : i <= n <=> i \in 1 .. n
    BY DEF HandleSizes, Places
  <1>4. \A i \in 1 .. n : i \in Places
    BY DEF HandleSizes, Places
  <1>5. ASSUME NEW s \in Slots PROVE h[s] # 0 <=> \E i \in 1 .. n : s = Vec(i)
    <2>1. CASE \E i \in Places : s = Vec(i)
      BY <1>1, <1>3, <1>4, <2>1, SlotNames
    <2>2. CASE ~\E i \in Places : s = Vec(i)
      BY <1>1, <1>4, <2>2, SlotNames
    <2> QED
      BY <2>1, <2>2
  <1>6. ASSUME NEW s \in Slots, NEW t \in Slots, h[s] = h[t], h[s] # 0 PROVE s = t
    BY <1>1, <1>4, <1>5, <1>6
  <1> QED
    BY <1>2, <1>5, <1>6 DEF Settled

LEMMA SplitLeads ==
    ASSUME HandleSizes, NEW n \in 1 .. MaxBuckets - 1, NEW k \in 1 .. n,
           NEW a \in Inserts(n - 1, k, Local("left")), NEW b \in Inserts(n, k + 1, Local("right"))
    PROVE  \E d \in Contents :
             /\ Settled(d)
             /\ Leads(<< <<"new", Local("left")>>, <<"new", Local("right")>> >>
                        \o Erase(n, k) \o a \o b
                        \o << <<"drop", Local("right")>>, <<"drop", Local("left")>> >>,
                      State(First(n), NoRow, NoLocals, n), d)
  <1> DEFINE left == MaxBuckets + 1
             right == MaxBuckets + 2
             l1 == Put(NoLocals, "left", left)
             l2 == Put(l1, "right", right)
             l3 == Put(l2, "right", 0)
             v == First(n)
             v1 == Erased(v, n, k)
             v2 == Inserted(v1, k, left)
             v3 == Inserted(v2, k + 1, right)
             news == << <<"new", Local("left")>>, <<"new", Local("right")>> >>
             drops == << <<"drop", Local("right")>>, <<"drop", Local("left")>> >>
  <1>1. /\ MaxBuckets \in Nat /\ n \in Nat /\ k \in Nat /\ n \in 0 .. MaxBuckets /\ n + 1 \in 0 .. MaxBuckets
        /\ n - 1 \in 0 .. MaxBuckets - 1 /\ n \in 0 .. MaxBuckets - 1 /\ k \in 1 .. (n - 1) + 1
        /\ k + 1 \in 1 .. n + 1 /\ n \in 1 .. MaxBuckets /\ (n - 1) + 1 = n
        /\ left \in Nat \ {0} /\ right \in Nat \ {0}
    BY DEF HandleSizes
  <1>2. /\ "left" \in LocalNames \ {"x_copy"} /\ "right" \in LocalNames \ {"x_copy"}
        /\ Local("left") \in Slots /\ Local("right") \in Slots /\ "left" # "right"
    BY SlotNames DEF LocalNames
  <1>3. /\ l1 \in LocalRows /\ l2 \in LocalRows /\ l3 \in LocalRows
        /\ \A x \in LocalNames : l1[x] = IF x = "left" THEN left ELSE 0
        /\ l2["left"] = left /\ l2["right"] = right /\ l2["x_copy"] = 0
        /\ Put(l3, "left", 0) = NoLocals
    <2>0. left \in Nat /\ right \in Nat /\ 0 \in Nat /\ "left" \in LocalNames /\ "right" \in LocalNames
          /\ NoLocals \in LocalRows /\ \A x \in LocalNames : NoLocals[x] = 0
      BY <1>1, <1>2, RowsAre
    <2> HIDE DEF left, right
    <2>1. l1 \in LocalRows /\ \A x \in LocalNames : l1[x] = IF x = "left" THEN left ELSE 0
      <3>1. l1 \in LocalRows /\ \A x \in LocalNames : l1[x] = IF x = "left" THEN left ELSE NoLocals[x]
        BY <2>0, PutLocal
      <3> HIDE DEF l1
      <3> QED
        BY <2>0, <3>1
    <2>2. l2 \in LocalRows /\ \A x \in LocalNames : l2[x] = IF x = "right" THEN right ELSE l1[x]
      <3> HIDE DEF l1
      <3> QED
        BY <2>0, <2>1, PutLocal
    <2>3. l3 \in LocalRows /\ \A x \in LocalNames : l3[x] = IF x = "right" THEN 0 ELSE l2[x]
      <3> HIDE DEF l2
      <3> QED
        BY <2>0, <2>2, PutLocal
    <2>4. Put(l3, "left", 0) = NoLocals
      <3> HIDE DEF l3
      <3>1. /\ Put(l3, "left", 0) \in LocalRows
            /\ \A x \in LocalNames : Put(l3, "left", 0)[x] = IF x = "left" THEN 0 ELSE l3[x]
        BY <1>2, <2>3, PutIs
      <3>2. \A x \in LocalNames : Put(l3, "left", 0)[x] = NoLocals[x]
        BY <2>1, <2>2, <2>3, <3>1, RowsAre
      <3> QED
        BY <3>1, <3>2, RowsAre, SameRow
    <2> HIDE DEF l1, l2, l3, left, right
    <2>5. l2["left"] = left /\ l2["right"] = right /\ l2["x_copy"] = 0
      BY <1>2, <2>1, <2>2 DEF LocalNames
    <2> QED
      BY <2>1, <2>2, <2>3, <2>4, <2>5
  <1>4. /\ NoRow \in Rows /\ \A i \in Places : NoRow[i] = 0
        /\ NoLocals \in LocalRows /\ \A x \in LocalNames : NoLocals[x] = 0
        /\ Uses(v, n) /\ \A i \in Places : v[i] = IF i <= n THEN i ELSE 0
    BY <1>1, RowsAre
  <1>5. v \in Rows
    BY <1>4 DEF Uses
  <1>6. Uses(v1, n - 1) /\ \A i \in Places : v1[i] = IF i < k THEN v[i] ELSE IF i < n THEN v[i + 1] ELSE 0
    BY <1>1, <1>4, ErasedIs
  <1> HIDE DEF v, v1, v2, v3
  <1>7. Uses(v2, n) /\ \A i \in Places : v2[i] = IF i < k THEN v1[i] ELSE IF i = k THEN left ELSE v1[i - 1]
    <2>1. /\ Uses(Inserted(v1, k, left), (n - 1) + 1)
          /\ \A i \in Places : Inserted(v1, k, left)[i] = IF i < k THEN v1[i] ELSE IF i = k THEN left ELSE v1[i - 1]
      BY <1>1, <1>6, InsertedIs
    <2> QED
      BY <1>1, <2>1 DEF v2
  <1>8. /\ Uses(v3, n + 1)
        /\ \A i \in Places : v3[i] = IF i < k + 1 THEN v2[i] ELSE IF i = k + 1 THEN right ELSE v2[i - 1]
    BY <1>1, <1>7, InsertedIs DEF v3
  <1>9. Leads(news, State(v, NoRow, NoLocals, n), State(v, NoRow, l2, n))
    <2>1. Does(<<"new", Local("left")>>, State(v, NoRow, NoLocals, n), State(v, NoRow, l1, n))
      <3>1. \A i \in Places : v[i] # left /\ NoRow[i] # left
        BY <1>1, <1>4 DEF HandleSizes, Places
      <3>2. \A x \in LocalNames : NoLocals[x] # left
        BY <1>1, <1>4
      <3> HIDE DEF left
      <3> QED
        BY <1>1, <1>2, <1>4, <1>5, <3>1, <3>2, RowSteps
    <2>2. Does(<<"new", Local("right")>>, State(v, NoRow, l1, n), State(v, NoRow, l2, n))
      <3>1. \A i \in Places : v[i] # right /\ NoRow[i] # right
        BY <1>1, <1>4 DEF HandleSizes, Places
      <3>2. l1["right"] = 0 /\ \A x \in LocalNames : l1[x] # right
        <4>1. left # right /\ right # 0
          BY <1>1
        <4> HIDE DEF left, right, l1
        <4> QED
          BY <1>2, <1>3, <4>1
      <3> HIDE DEF right, l1
      <3> QED
        BY <1>1, <1>2, <1>3, <1>4, <1>5, <3>1, <3>2, RowSteps
    <2>3. /\ State(v, NoRow, NoLocals, n) \in Contents /\ State(v, NoRow, l1, n) \in Contents
          /\ State(v, NoRow, l2, n) \in Contents
      BY <1>1, <1>3, <1>4, <1>5, TableIs
    <2>4. <<"new", Local("left")>> \in Operations /\ <<"new", Local("right")>> \in Operations
      BY <1>2, OperationsAre
    <2> QED
      BY <2>1, <2>2, <2>3, <2>4, LeadsByTwo
  <1> HIDE DEF l1, l2, l3, left, right
  <1>10. Leads(Erase(n, k), State(v, NoRow, l2, n), State(v1, NoRow, l2, n - 1))
    BY <1>1, <1>3, <1>4, EraseLeads DEF v1
  <1>11. Leads(a, State(v1, NoRow, l2, n - 1), State(v2, NoRow, l2, n))
    <2>1. Leads(a, State(v1, NoRow, l2, n - 1), State(Inserted(v1, k, l2["left"]), NoRow, l2, (n - 1) + 1))
      BY <1>1, <1>2, <1>3, <1>6, InsertLeads
    <2> QED
      BY <1>1, <1>3, <2>1 DEF v2
  <1>12. Leads(b, State(v2, NoRow, l2, n), State(v3, NoRow, l2, n + 1))
    <2>1. Leads(b, State(v2, NoRow, l2, n), State(Inserted(v2, k + 1, l2["right"]), NoRow, l2, n + 1))
      BY <1>1, <1>2, <1>3, <1>7, InsertLeads
    <2> QED
      BY <1>3, <2>1 DEF v3
  <1> DEFINE d == State(v3, NoRow, NoLocals, n + 1)
  <1>13. Leads(drops, State(v3, NoRow, l2, n + 1), d)
    <2>0. v3 \in Rows
      BY <1>8 DEF Uses
    <2>1. /\ Does(<<"drop", Local("right")>>, State(v3, NoRow, l2, n + 1), State(v3, NoRow, l3, n + 1))
          /\ Does(<<"drop", Local("left")>>, State(v3, NoRow, l3, n + 1), d)
      BY <1>1, <1>2, <1>3, <1>4, <2>0, RowSteps DEF l3
    <2>2. /\ State(v3, NoRow, l2, n + 1) \in Contents /\ State(v3, NoRow, l3, n + 1) \in Contents
          /\ d \in Contents
      BY <1>1, <1>3, <1>4, <2>0, TableIs
    <2>3. <<"drop", Local("right")>> \in Operations /\ <<"drop", Local("left")>> \in Operations
      BY <1>2, OperationsAre
    <2> QED
      BY <2>1, <2>2, <2>3, LeadsByTwo
  <1>14. Settled(d)
    <2>1. \A i \in Places : v3[i] = IF i < k THEN i ELSE IF i = k THEN left ELSE IF i = k + 1 THEN right
                                    ELSE IF i <= n + 1 THEN i - 1 ELSE 0
      <3> TAKE i \in Places
      <3>0. i \in Nat \ {0} /\ i <= MaxBuckets
        BY <1>1 DEF Places
      <3>1. CASE i < k
        BY <1>1, <1>4, <1>6, <1>7, <1>8, <3>0, <3>1
      <3>2. CASE i = k
        BY <1>1, <1>7, <1>8, <3>0, <3>2
      <3>3. CASE i = k + 1
        BY <1>1, <1>8, <3>0, <3>3
      <3>4. CASE i > k + 1
        <4>1. v3[i] = v2[i - 1] /\ i - 1 \in Places /\ i - 2 \in Places /\ (i - 1) - 1 = i - 2
          BY <1>1, <1>8, <3>0, <3>4 DEF Places
        <4>2. v2[i - 1] = v1[i - 2]
          BY <1>1, <1>7, <3>0, <3>4, <4>1
        <4>3. v1[i - 2] = IF i - 2 < n THEN v[i - 1] ELSE 0
          BY <1>1, <1>6, <3>0, <3>4, <4>1
        <4>4. v[i - 1] = IF i - 1 <= n THEN i - 1 ELSE 0
          BY <1>4, <4>1
        <4> QED
          BY <1>1, <3>0, <3>4, <4>1, <4>2, <4>3, <4>4
      <3> QED
        BY <1>1, <3>0, <3>1, <3>2, <3>3, <3>4
    <2>2. \A i \in Places : v3[i] # 0 <=> i <= n + 1
      BY <1>1, <2>1 DEF Places
    <2>3. \A i, j \in Places : v3[i] = v3[j] /\ v3[i] # 0 => i = j
      BY <1>1, <2>1 DEF Places, left, right
    <2>4. v3 \in Rows
      BY <1>8 DEF Uses
    <2> QED
      BY <1>1, <2>2, <2>3, <2>4, SettledIs
  <1>15. d \in Contents
    BY <1>1, <1>4, <1>8, TableIs DEF Uses
  <1> HIDE DEF news, drops, d
  <1>16. Leads(news \o Erase(n, k), State(v, NoRow, NoLocals, n), State(v1, NoRow, l2, n - 1))
    BY <1>9, <1>10, LeadsOn
  <1>17. Leads((news \o Erase(n, k)) \o a, State(v, NoRow, NoLocals, n), State(v2, NoRow, l2, n))
    BY <1>11, <1>16, LeadsOn
  <1>18. Leads(((news \o Erase(n, k)) \o a) \o b, State(v, NoRow, NoLocals, n), State(v3, NoRow, l2, n + 1))
    BY <1>12, <1>17, LeadsOn
  <1>19. Leads((((news \o Erase(n, k)) \o a) \o b) \o drops, State(v, NoRow, NoLocals, n), d)
    BY <1>13, <1>18, LeadsOn
  <1> QED
    BY <1>14, <1>15, <1>19 DEF news, drops, v

\* The call that leaves the vector with one new bucket.
OneBucket == << <<"new", Local("left")>>, <<"copy", Vec(1), Local("left")>>,
                <<"size", 1>>, <<"drop", Local("left")>> >>

LEMMA OneBucketLeads ==
    ASSUME HandleSizes, NEW n \in 0 .. MaxBuckets
    PROVE  \E d \in Contents : Settled(d) /\ Leads(OneBucket, State(NoRow, NoRow, NoLocals, n), d)
  <1> DEFINE one == Put(NoRow, 1, 1)
             held == Put(NoLocals, "left", 1)
             d == State(one, NoRow, NoLocals, 1)
  <1>1. /\ MaxBuckets \in Nat /\ 1 \in Places /\ 1 \in 0 .. MaxBuckets /\ 1 \in Nat \ {0} /\ 0 \in Nat
        /\ "left" \in LocalNames /\ Local("left") \in Slots /\ Vec(1) \in Slots
    BY SlotNames DEF HandleSizes, Places, LocalNames
  <1>2. /\ NoRow \in Rows /\ \A i \in Places : NoRow[i] = 0
        /\ NoLocals \in LocalRows /\ \A x \in LocalNames : NoLocals[x] = 0
    BY RowsAre
  <1>3. one \in Rows /\ \A i \in Places : one[i] = IF i = 1 THEN 1 ELSE 0
    BY <1>1, <1>2 DEF Put, Rows
  <1>4. held \in LocalRows /\ \A x \in LocalNames : held[x] = IF x = "left" THEN 1 ELSE NoLocals[x]
    BY <1>1, <1>2, PutLocal
  <1>5. Put(held, "left", 0) = NoLocals
    <2> HIDE DEF held
    <2>1. /\ Put(held, "left", 0) \in LocalRows
          /\ \A x \in LocalNames : Put(held, "left", 0)[x] = IF x = "left" THEN 0 ELSE held[x]
      BY <1>1, <1>4, PutLocal
    <2>2. \A x \in LocalNames : Put(held, "left", 0)[x] = NoLocals[x]
      BY <1>2, <1>4, <2>1
    <2> QED
      BY <1>2, <2>1, <2>2, SameRow
  <1>6. Settled(d)
    <2>1. /\ \A i \in Places : one[i] # 0 <=> i <= 1
          /\ \A i, j \in Places : one[i] = one[j] /\ one[i] # 0 => i = j
      BY <1>1, <1>3 DEF Places
    <2> HIDE DEF one
    <2> QED
      BY <1>1, <1>3, <2>1, SettledIs
  <1>7. Leads(<< <<"new", Local("left")>>, <<"copy", Vec(1), Local("left")>> >>,
              State(NoRow, NoRow, NoLocals, n), State(one, NoRow, held, n))
    <2>1. Does(<<"new", Local("left")>>, State(NoRow, NoRow, NoLocals, n), State(NoRow, NoRow, held, n))
      <3>1. (\A i \in Places : NoRow[i] # 1) /\ \A x \in LocalNames : NoLocals[x] # 1
        BY <1>2
      <3> QED
        BY <1>1, <1>2, <3>1, RowSteps
    <2>2. Does(<<"copy", Vec(1), Local("left")>>, State(NoRow, NoRow, held, n), State(one, NoRow, held, n))
      <3> HIDE DEF held
      <3>1. Table(NoRow, NoRow, held)[Local("left")] = 1
        BY <1>1, <1>2, <1>4, TableIs
      <3>2. \A i \in Places, s \in Slots :
               NoRow[i] = 0 => Does(<<"copy", Vec(i), s>>, State(NoRow, NoRow, held, n),
                                    State(Put(NoRow, i, Table(NoRow, NoRow, held)[s]), NoRow, held, n))
        BY <1>2, <1>4, RowSteps
      <3> QED
        BY <1>1, <1>2, <3>1, <3>2
    <2> HIDE DEF one, held
    <2>3. /\ State(NoRow, NoRow, NoLocals, n) \in Contents /\ State(NoRow, NoRow, held, n) \in Contents
          /\ State(one, NoRow, held, n) \in Contents
      BY <1>2, <1>3, <1>4, TableIs
    <2> QED
      BY <1>1, <2>1, <2>2, <2>3, OperationsAre, LeadsByTwo
  <1>8. Leads(<< <<"size", 1>>, <<"drop", Local("left")>> >>, State(one, NoRow, held, n), d)
    <2> HIDE DEF one, held
    <2>1. Does(<<"size", 1>>, State(one, NoRow, held, n), State(one, NoRow, held, 1))
      BY <1>1, <1>2, <1>3, <1>4, RowSteps
    <2>2. Does(<<"drop", Local("left")>>, State(one, NoRow, held, 1), d)
      BY <1>1, <1>2, <1>3, <1>4, <1>5, RowSteps
    <2>3. /\ State(one, NoRow, held, n) \in Contents /\ State(one, NoRow, held, 1) \in Contents
          /\ d \in Contents
      BY <1>1, <1>2, <1>3, <1>4, TableIs
    <2> QED
      BY <1>1, <2>1, <2>2, <2>3, OperationsAre, LeadsByTwo
  <1>9. d \in Contents
    BY <1>1, <1>2, <1>3, TableIs
  <1>10. OneBucket = << <<"new", Local("left")>>, <<"copy", Vec(1), Local("left")>> >>
                       \o << <<"size", 1>>, <<"drop", Local("left")>> >>
    BY DEF OneBucket
  <1> HIDE DEF one, held, d
  <1> QED
    BY <1>6, <1>7, <1>8, <1>9, <1>10, LeadsOn

LEMMA ClearLeads ==
    ASSUME HandleSizes, NEW n \in 0 .. MaxBuckets
    PROVE  \E d \in Contents :
             /\ Settled(d)
             /\ Leads([j \in 1 .. n |-> <<"drop", Vec(j)>>]
                        \o << <<"size", 0>>, <<"new", Local("left")>> >>
                        \o << <<"copy", Vec(1), Local("left")>>, <<"size", 1>>, <<"drop", Local("left")>> >>,
                      State(First(n), NoRow, NoLocals, n), d)
  <1> DEFINE a == [j \in 1 .. n |-> <<"drop", Vec(j)>>]
             b == << <<"size", 0>> >>
  <1>1. /\ NoRow \in Rows /\ NoLocals \in LocalRows /\ First(n) \in Rows
        /\ \A i \in Places : i > n => First(n)[i] = 0
        /\ 0 \in 0 .. MaxBuckets
    BY RowsAre DEF Uses, HandleSizes
  <1>2. Leads(a, State(First(n), NoRow, NoLocals, n), State(NoRow, NoRow, NoLocals, n))
    BY <1>1, Drops
  <1>3. Leads(b, State(NoRow, NoRow, NoLocals, n), State(NoRow, NoRow, NoLocals, 0))
    <2>1. Does(<<"size", 0>>, State(NoRow, NoRow, NoLocals, n), State(NoRow, NoRow, NoLocals, 0))
      BY <1>1, RowSteps
    <2> QED
      BY <1>1, <2>1, TableIs, OperationsAre, LeadsByOne
  <1>4. PICK d \in Contents : Settled(d) /\ Leads(OneBucket, State(NoRow, NoRow, NoLocals, 0), d)
    BY <1>1, OneBucketLeads
  <1>5. a \o << <<"size", 0>>, <<"new", Local("left")>> >>
          \o << <<"copy", Vec(1), Local("left")>>, <<"size", 1>>, <<"drop", Local("left")>> >>
        = (a \o b) \o OneBucket
    <2> HIDE DEF a
    <2> DEFINE new == << <<"new", Local("left")>> >>
               rest == << <<"copy", Vec(1), Local("left")>>, <<"size", 1>>, <<"drop", Local("left")>> >>
    <2>1. a \in Seq(Operations) /\ b \in Seq(Operations) /\ OneBucket \in Seq(Operations)
      BY <1>2, <1>3, <1>4 DEF Leads
    <2>2. /\ << <<"size", 0>>, <<"new", Local("left")>> >> = b \o new
          /\ OneBucket = new \o rest
      BY DEF OneBucket
    <2>3. new \in Seq(Operations) /\ rest \in Seq(Operations)
      <3>1. Local("left") \in Slots /\ Vec(1) \in Slots /\ 1 \in 0 .. MaxBuckets
        BY SlotNames DEF LocalNames, Places, HandleSizes
      <3>2. /\ <<"new", Local("left")>> \in Operations /\ <<"copy", Vec(1), Local("left")>> \in Operations
            /\ <<"size", 1>> \in Operations /\ <<"drop", Local("left")>> \in Operations
        BY <3>1, OperationsAre
      <3> QED
        BY <3>2
    <2> HIDE DEF b, new, rest
    <2>4. (a \o (b \o new)) \o rest = (a \o b) \o (new \o rest)
      <3> DEFINE start == a \o b
      <3>1. start \in Seq(Operations)
        BY <2>1, ConcatProperties
      <3>2. a \o (b \o new) = start \o new
        BY <2>1, <2>3
      <3> HIDE DEF start
      <3>3. (start \o new) \o rest = start \o (new \o rest)
        BY <2>3, <3>1
      <3> QED
        BY <3>2, <3>3 DEF start
    <2> QED
      BY <2>2, <2>4 DEF rest
  <1> HIDE DEF a, b
  <1>6. Leads(a \o b, State(First(n), NoRow, NoLocals, n), State(NoRow, NoRow, NoLocals, 0))
    BY <1>2, <1>3, LeadsOn
  <1>7. Leads((a \o b) \o OneBucket, State(First(n), NoRow, NoLocals, n), d)
    BY <1>4, <1>6, LeadsOn
  <1> QED
    BY <1>4, <1>5, <1>7 DEF a

-----------------------------------------------------------------------------
(* Every bucket is counted.                                                *)

\* Between calls nothing is left to do, so the slots are as the last call has to leave them.
LEMMA IdleIs ==
    ASSUME HandleSizes, HandleInv, Idle
    PROVE  /\ \A s \in Slots : pointee[s] # 0 <=> s \in {Vec(i) : i \in 1 .. size}
           /\ \A s, t \in Slots : pointee[s] = pointee[t] /\ pointee[s] # 0 => s = t
  <1>1. PICK c \in Contents : c.size = size /\ Alike(c.holds, pointee) /\ Settled(c)
    BY LeadsNowhere DEF HandleInv, Foreseen, Idle
  <1> QED
    BY <1>1 DEF Alike, Settled

LEMMA InvSays == ASSUME HandleSizes, HandleInv PROVE BucketsAreCounted
  <1>1. NoHandleDangles /\ CountIsHandles
    BY DEF HandleInv, Counted
  <1>2. ASSUME Idle, NEW o \in Buckets \ deleted PROVE Cardinality(HandlesOf(o)) = 1
    <2>1. PICK s \in Slots : pointee[s] = o /\ o # 0
      BY DEF HandleSizes, HandleInv, Counted, HandlesOf
    <2>2. HandlesOf(o) = {s}
      BY <1>2, <2>1, IdleIs DEF HandlesOf
    <2> QED
      BY <2>2, FS_Singleton
  <1>3. OneHandleEach
    BY <1>2, IdleIs DEF OneHandleEach
  <1> QED
    BY <1>1, <1>3 DEF BucketsAreCounted

LEMMA FirstAlike ==
    ASSUME HandleSizes, HandleInv, Idle
    PROVE  /\ size \in 0 .. MaxBuckets
           /\ State(First(size), NoRow, NoLocals, size) \in Contents
           /\ Alike(State(First(size), NoRow, NoLocals, size).holds, pointee)
           /\ State(First(size), NoRow, NoLocals, size).size = size
  <1> DEFINE h == Table(First(size), NoRow, NoLocals)
  <1>1. size \in 0 .. MaxBuckets
    BY DEF HandleInv, Counted, HandleTypes
  <1>2. /\ First(size) \in Rows /\ NoRow \in Rows /\ NoLocals \in LocalRows
        /\ \A i \in Places : First(size)[i] = (IF i <= size THEN i ELSE 0) /\ NoRow[i] = 0
        /\ \A x \in LocalNames : NoLocals[x] = 0
    BY <1>1, RowsAre DEF Uses
  <1>3. /\ \A i \in Places : h[Vec(i)] = (IF i <= size THEN i ELSE 0) /\ h[Larger(i)] = 0
        /\ \A x \in LocalNames : h[Local(x)] = 0
    BY <1>2, TableIs
  <1>4. State(First(size), NoRow, NoLocals, size) \in Contents
    BY <1>1, <1>2, TableIs
  <1> HIDE DEF h
  <1>5. ASSUME NEW s \in Slots
        PROVE  \/ h[s] = 0 /\ pointee[s] = 0
               \/ \E i \in 1 .. size : s = Vec(i) /\ h[s] = i /\ i # 0 /\ pointee[s] # 0
    <2>1. pointee[s] # 0 <=> \E i \in 1 .. size : s = Vec(i)
      BY IdleIs
    <2>2. CASE \E i \in Places : s = Vec(i)
      <3>1. PICK i \in Places : s = Vec(i)
        BY <2>2
      <3>2. pointee[s] # 0 <=> i \in 1 .. size
        BY <2>1, <3>1, SlotNames
      <3>3. i \in 1 .. size <=> i <= size
        BY <1>1 DEF HandleSizes, Places
      <3>4. i # 0
        BY DEF Places
      <3> QED
        BY <1>3, <3>1, <3>2, <3>3, <3>4
    <2>3. CASE ~\E i \in Places : s = Vec(i)
      <3>1. h[s] = 0
        BY <1>3, <2>3, SlotNames
      <3>2. \A i \in 1 .. size : i \in Places
        BY <1>1 DEF HandleSizes, Places
      <3> QED
        BY <2>1, <2>3, <3>1, <3>2
    <2> QED
      BY <2>2, <2>3
  <1>6. \A s, t \in Slots : pointee[s] = pointee[t] /\ pointee[s] # 0 => s = t
    BY IdleIs
  <1>7. Alike(h, pointee)
    BY <1>5, <1>6 DEF Alike
  <1> QED
    BY <1>1, <1>4, <1>7 DEF h, State

LEMMA InvInit == ASSUME HandleSizes, Init PROVE HandleInv
  <1> DEFINE c == State(NoRow, NoRow, NoLocals, 0)
  <1>1. NoRow \in Rows /\ NoLocals \in LocalRows /\ 0 \in 0 .. MaxBuckets
    BY RowsAre DEF HandleSizes
  <1>2. c \in Contents /\ c.size = 0 /\ \A s \in Slots : c.holds[s] = 0
    <2>1. /\ \A i \in Places : c.holds[Vec(i)] = 0 /\ c.holds[Larger(i)] = 0
          /\ \A x \in LocalNames : c.holds[Local(x)] = 0
      BY <1>1, RowsAre, TableIs DEF State
    <2>2. c \in Contents /\ c.size = 0
      BY <1>1, TableIs DEF State
    <2> HIDE DEF c
    <2> QED
      BY <2>1, <2>2, SlotNames
  <1> HIDE DEF c
  <1>3. PICK d \in Contents : Settled(d) /\ Leads(OneBucket, c, d)
    BY <1>1, OneBucketLeads DEF c
  <1>4. Foreseen
    <2>1. Alike(c.holds, pointee)
      BY <1>2 DEF Init, Alike
    <2>2. todo = OneBucket /\ size = 0
      BY DEF Init, OneBucket
    <2> QED
      BY <1>2, <1>3, <2>1, <2>2 DEF Foreseen
  <1>5. Counted
    BY <1>1 DEF Init, Counted, HandleTypes, NoHandleDangles, CountIsHandles
  <1> QED
    BY <1>4, <1>5 DEF HandleInv

LEMMA InvNext == ASSUME HandleSizes, HandleInv, [Next]_vars PROVE HandleInv'
  <1>1. CASE NewHandle \/ CopyHandle \/ AssignHandle \/ DropHandle \/ SetSize \/ TakeStorage
    BY <1>1, StepGoesOn
  <1>2. ASSUME UNCHANGED <<pointee, refCount, deleted, size>>, Idle,
               NEW d \in Contents, Settled(d),
               Leads(todo', State(First(size), NoRow, NoLocals, size), d)
        PROVE  HandleInv'
    <2>1. Counted'
      BY <1>2 DEF HandleInv, Counted, HandleTypes, NoHandleDangles, CountIsHandles, HandlesOf
    <2>2. Foreseen'
      <3> DEFINE c == State(First(size), NoRow, NoLocals, size)
      <3>1. c \in Contents /\ Alike(c.holds, pointee) /\ c.size = size
        BY <1>2, FirstAlike
      <3>2. Leads(todo', c, d) /\ size' = size /\ Alike(c.holds, pointee')
        BY <1>2, <3>1
      <3> HIDE DEF c
      <3> QED
        BY <1>2, <3>1, <3>2 DEF Foreseen
    <2> QED
      BY <2>1, <2>2 DEF HandleInv
  <1>3. CASE SplitKbucket
    <2>1. size \in 0 .. MaxBuckets /\ MaxBuckets \in Nat
      BY DEF HandleSizes, HandleInv, Counted, HandleTypes
    <2>2. PICK k \in 1 .. size :
              \E a \in Inserts(size - 1, k, Local("left")), b \in Inserts(size, k + 1, Local("right")) :
                todo' = << <<"new", Local("left")>>, <<"new", Local("right")>> >>
                          \o Erase(size, k) \o a \o b
                          \o << <<"drop", Local("right")>>, <<"drop", Local("left")>> >>
      BY <1>3 DEF SplitKbucket
    <2>3. size \in 1 .. MaxBuckets - 1
      BY <1>3, <2>1 DEF SplitKbucket
    <2>4. \E d \in Contents : Settled(d) /\ Leads(todo', State(First(size), NoRow, NoLocals, size), d)
      BY <2>2, <2>3, SplitLeads
    <2> QED
      BY <1>2, <1>3, <2>4 DEF SplitKbucket
  <1>4. CASE ClearTable
    <2>1. size \in 0 .. MaxBuckets
      BY DEF HandleInv, Counted, HandleTypes
    <2>2. \E d \in Contents : Settled(d) /\ Leads(todo', State(First(size), NoRow, NoLocals, size), d)
      BY <1>4, <2>1, ClearLeads DEF ClearTable
    <2> QED
      BY <1>2, <1>4, <2>2 DEF ClearTable
  <1>5. CASE UNCHANGED vars
    BY <1>5 DEF vars, HandleInv, Counted, HandleTypes, NoHandleDangles, CountIsHandles, HandlesOf, Foreseen
  <1> QED
    BY <1>1, <1>3, <1>4, <1>5 DEF Next

\* Through any number of splits and clearings, and whichever copies the vector makes to get room, a
\* bucket's count is the number of handles to it, and it is deleted with the last (HandleClass.h:39-126).
THEOREM BucketsAreCountedHolds == HandleSizes => (Spec => []BucketsAreCounted)
  <1> SUFFICES ASSUME HandleSizes PROVE Spec => []BucketsAreCounted
    OBVIOUS
  <1>1. Init => HandleInv
    BY InvInit
  <1>2. HandleInv /\ [Next]_vars => HandleInv'
    BY InvNext
  <1>3. HandleInv => BucketsAreCounted
    BY InvSays
  <1> QED
    BY <1>1, <1>2, <1>3, PTL DEF Spec
====
