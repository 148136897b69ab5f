------------------------- MODULE RoutingTableProofs -------------------------
(***************************************************************************)
(* Theorems about RoutingTable (src/src/kademlia/kadroutingtable.cpp), for *)
(* every set of contacts and keys, every bucket size and every distance,   *)
(* and wherever the hash of KadID() puts the lower end of the table.       *)
(*                                                                         *)
(* The invariant is Ordered: while the ends ascend the ranges of           *)
(* neighbouring buckets meet in two identifiers, of these the lower bucket *)
(* has both, and every contact from the lower end on is where it belongs.  *)
(* The library's theorems by induction take an operator; the lemmas about  *)
(* Keep and Refill, which are recursive, look at a shortest counterexample *)
(* instead.                                                                *)
(***************************************************************************)
EXTENDS RoutingTable, FiniteSetTheorems, SequenceTheorems, WellFoundedInduction, TLAPS

-----------------------------------------------------------------------------
(* Sequences.                                                              *)

LEMMA LeastOf ==
    ASSUME NEW S \in SUBSET Nat, S # {}
    PROVE  \E j \in S : \A k \in S : j <= k
  <1>1. PICK j \in S : \A k \in S : ~(<<k, j>> \in OpToRel(<, Nat))
    BY WFMin, NatLessThanWellFounded, Zenon
  <1>2. \A k \in S : ~(k < j)
    BY <1>1, Zenon DEF OpToRel
  <1> QED
    BY <1>2

\* Induction over sequences, as a set of counterexamples: a shortest one is longer by
\* its last element, or by its first, than a sequence that is none.
LEMMA ShortestAppended ==
    ASSUME NEW T, NEW B \in SUBSET Seq(T), B # {}, <<>> \notin B
    PROVE  \E s \in Seq(T), x \in T : s \notin B /\ Append(s, x) \in B
  <1> DEFINE lens == {Len(s) : s \in B}
  <1>1. lens \in SUBSET Nat /\ lens # {}
    <2>1. \A s \in B : Len(s) \in Nat
      BY LenProperties
    <2> QED
      BY <2>1
  <1>2. PICK s \in B : \A u \in B : Len(s) <= Len(u)
    <2>1. PICK n \in lens : \A k \in lens : n <= k
      BY <1>1, LeastOf
    <2> QED
      BY <2>1
  <1>3. s \in Seq(T) /\ s # <<>> /\ Len(s) \in Nat /\ Len(s) > 0
    BY EmptySeq, LenProperties
  <1>0. PICK m \in Nat : Len(s) = m + 1
    <2>1. \A n \in Nat : n > 0 => n - 1 \in Nat /\ n = (n - 1) + 1
      OBVIOUS
    <2> QED
      BY <1>3, <2>1, Zenon
  <1> DEFINE front == SubSeq(s, 1, m)
             last  == s[Len(s)]
  <1>4. front \in Seq(T) /\ Len(front) = m /\ last \in T
    <2>1. 1 \in Int /\ m \in Int /\ \A i \in 1 .. m : s[i] \in T
      BY <1>0, <1>3, ElementOfSeq
    <2>2. front \in Seq(T)
      BY <2>1, SubSeqProperties
    <2>3. Len(SubSeq(s, 1, m)) = IF 1 <= m THEN m - 1 + 1 ELSE 0
      BY <2>1, SubSeqProperties
    <2>5. last \in T
      BY <1>0, <1>3, ElementOfSeq
    <2>4. CASE m = 0
      <3>1. SubSeq(s, 1, 0) = <<>> /\ Len(<<>>) = 0
        BY SubSeqEmpty, EmptySeq
      <3>2. Len(front) = 0
        BY <3>1, <2>4, Zenon
      <3> HIDE DEF front, last
      <3> QED
        BY <2>2, <2>4, <2>5, <3>2
    <2>6. CASE 1 <= m
      BY <2>2, <2>3, <2>5, <2>6
    <2>7. m = 0 \/ 1 <= m
      OBVIOUS
    <2> QED
      BY <2>4, <2>6, <2>7
  <1>5. Append(front, last) = s
    BY <1>0, <1>3, <1>4
  <1>6. front \notin B
    <2> SUFFICES ASSUME front \in B PROVE FALSE
      OBVIOUS
    <2>1. Len(s) <= Len(front)
      BY <1>2
    <2> QED
      BY <2>1, <1>0, <1>3, <1>4
  <1> QED
    BY <1>4, <1>5, <1>6

LEMMA ShortestPrefixed ==
    ASSUME NEW T, NEW B \in SUBSET Seq(T), B # {}, <<>> \notin B
    PROVE  \E s \in Seq(T), x \in T : s \notin B /\ <<x>> \o s \in B
  <1> DEFINE lens == {Len(s) : s \in B}
  <1>1. lens \in SUBSET Nat /\ lens # {}
    <2>1. \A s \in B : Len(s) \in Nat
      BY LenProperties
    <2> QED
      BY <2>1
  <1>2. PICK s \in B : \A u \in B : Len(s) <= Len(u)
    <2>1. PICK n \in lens : \A k \in lens : n <= k
      BY <1>1, LeastOf
    <2> QED
      BY <2>1
  <1>3. s \in Seq(T) /\ s # <<>> /\ Len(s) \in Nat /\ Len(s) > 0
    BY EmptySeq, LenProperties
  <1>4. Tail(s) \in Seq(T) /\ Len(Tail(s)) = Len(s) - 1 /\ Head(s) \in T
    BY <1>3, HeadTailProperties
  <1>5. <<Head(s)>> \o Tail(s) = s
    BY <1>3, <1>4
  <1>6. Tail(s) \notin B
    <2> SUFFICES ASSUME Tail(s) \in B PROVE FALSE
      OBVIOUS
    <2>1. Len(s) <= Len(Tail(s))
      BY <1>2
    <2> QED
      BY <2>1, <1>3, <1>4
  <1> QED
    BY <1>4, <1>5, <1>6

LEMMA AppendedMembers ==
    ASSUME NEW T, NEW s \in Seq(T), NEW x \in T
    PROVE  ToSet(Append(s, x)) = ToSet(s) \cup {x}
  BY AppendProperties, LenProperties DEF ToSet

LEMMA AppendedInjective ==
    ASSUME NEW T, NEW s \in Seq(T), NEW x \in T
    PROVE  IsInjective(Append(s, x)) <=> IsInjective(s) /\ x \notin ToSet(s)
  BY AppendProperties, LenProperties DEF ToSet, IsInjective

LEMMA PrefixedMembers ==
    ASSUME NEW T, NEW s \in Seq(T), NEW x \in T
    PROVE  /\ <<x>> \o s \in Seq(T) /\ Len(<<x>> \o s) = Len(s) + 1
           /\ (<<x>> \o s)[1] = x /\ \A n \in 1 .. Len(s) : (<<x>> \o s)[n + 1] = s[n]
           /\ ToSet(<<x>> \o s) = {x} \cup ToSet(s)
           /\ IsInjective(<<x>> \o s) <=> IsInjective(s) /\ x \notin ToSet(s)
  <1> DEFINE t == <<x>> \o s
  <1>1. /\ t \in Seq(T) /\ Len(t) = Len(s) + 1 /\ Len(s) \in Nat /\ t[1] = x
        /\ \A n \in 1 .. Len(s) : t[n + 1] = s[n]
    BY LenProperties
  <1>2. DOMAIN s = 1 .. Len(s) /\ DOMAIN t = 1 .. Len(t)
    BY <1>1, LenProperties
  <1> HIDE DEF t
  <1>3. \A n \in 2 .. Len(t) : n - 1 \in 1 .. Len(s) /\ t[n] = s[n - 1]
    BY <1>1
  <1>4. ToSet(t) = {x} \cup ToSet(s)
    <2>1. \A n \in DOMAIN t : t[n] \in {x} \cup ToSet(s)
      BY <1>1, <1>2, <1>3 DEF ToSet
    <2>2. x \in ToSet(t) /\ \A n \in DOMAIN s : s[n] \in ToSet(t)
      BY <1>1, <1>2 DEF ToSet
    <2> QED
      BY <2>1, <2>2 DEF ToSet
  <1>5. ASSUME IsInjective(t)
        PROVE  IsInjective(s) /\ x \notin ToSet(s)
    <2>1. \A i, j \in 1 .. Len(t) : t[i] = t[j] => i = j
      BY <1>2, <1>5 DEF IsInjective
    <2>2. \A i, j \in 1 .. Len(s) : s[i] = s[j] => i = j
      <3> TAKE i, j \in 1 .. Len(s)
      <3>1. i + 1 \in 1 .. Len(t) /\ j + 1 \in 1 .. Len(t)
        BY <1>1
      <3> QED
        BY <1>1, <2>1, <3>1
    <2>3. \A i \in 1 .. Len(s) : s[i] # x
      <3> TAKE i \in 1 .. Len(s)
      <3>1. i + 1 \in 1 .. Len(t) /\ 1 \in 1 .. Len(t) /\ i + 1 # 1
        BY <1>1
      <3> QED
        BY <1>1, <2>1, <3>1
    <2> QED
      BY <1>2, <2>2, <2>3 DEF IsInjective, ToSet
  <1>6. ASSUME IsInjective(s), x \notin ToSet(s)
        PROVE  IsInjective(t)
    <2>1. \A i \in 2 .. Len(t) : t[i] # x
      BY <1>2, <1>3, <1>6 DEF ToSet
    <2>2. \A i, j \in 2 .. Len(t) : t[i] = t[j] => i = j
      BY <1>1, <1>2, <1>3, <1>6 DEF IsInjective
    <2> QED
      BY <1>1, <1>2, <2>1, <2>2 DEF IsInjective
  <1> QED
    BY <1>1, <1>4, <1>5, <1>6 DEF t

-----------------------------------------------------------------------------
(* Keep.                                                                   *)

\* One more value of Keep's function.
KeptAfter(f, s, S, n) ==
    IF n = 0 THEN <<>> ELSE IF s[n] \in S THEN Append(f[n - 1], s[n]) ELSE f[n - 1]

LEMMA KeepFunction ==
    ASSUME NEW T, NEW s \in Seq(T), NEW S
    PROVE  \E f : f = [n \in 0 .. Len(s) |-> KeptAfter(f, s, S, n)]
  <1> DEFINE bad == {m \in 0 .. Len(s) : ~\E f : f = [n \in 0 .. m |-> KeptAfter(f, s, S, n)]}
  <1>1. SUFFICES ASSUME bad # {} PROVE FALSE
    <2>1. Len(s) \in 0 .. Len(s) /\ Len(s) \notin bad
      BY <1>1, LenProperties
    <2> QED
      BY <2>1
  <1>2. Len(s) \in Nat /\ bad \in SUBSET Nat
    BY LenProperties
  <1>3. PICK m \in bad : \A k \in bad : m <= k
    BY <1>1, <1>2, LeastOf
  <1>4. m # 0
    <2> DEFINE g == [n \in 0 .. 0 |-> <<>>]
    <2>1. g = [n \in 0 .. 0 |-> KeptAfter(g, s, S, n)]
      BY DEF KeptAfter
    <2> QED
      BY <1>3, <2>1
  <1>5. m - 1 \in 0 .. Len(s) /\ m - 1 \notin bad
    BY <1>2, <1>3, <1>4
  <1>6. PICK f : f = [n \in 0 .. m - 1 |-> KeptAfter(f, s, S, n)]
    BY <1>5
  <1> DEFINE g == [n \in 0 .. m |-> IF n = m THEN KeptAfter(f, s, S, m) ELSE f[n]]
  <1>7. ASSUME NEW n \in 0 .. m
        PROVE  g[n] = KeptAfter(g, s, S, n)
    <2>1. CASE n = 0
      BY <2>1, <1>4, <1>6, <1>2 DEF KeptAfter
    <2>2. CASE n # 0
      <3>1. n - 1 \in 0 .. m /\ n - 1 # m /\ g[n - 1] = f[n - 1]
        BY <2>2, <1>2
      <3>2. KeptAfter(g, s, S, n) = KeptAfter(f, s, S, n)
        BY <3>1, <2>2 DEF KeptAfter
      <3>3. g[n] = KeptAfter(f, s, S, n)
        BY <1>6, <1>2
      <3> QED
        BY <3>2, <3>3
    <2> QED
      BY <2>1, <2>2
  <1>8. g = [n \in 0 .. m |-> KeptAfter(g, s, S, n)]
    BY <1>7
  <1> HIDE DEF g
  <1> QED
    BY <1>3, <1>8

LEMMA KeepIs ==
    ASSUME NEW T, NEW s \in Seq(T), NEW S
    PROVE  \E f : /\ f = [n \in 0 .. Len(s) |-> KeptAfter(f, s, S, n)]
                  /\ Keep(s, S) = f[Len(s)]
  <1> DEFINE f == CHOOSE f : f = [n \in 0 .. Len(s) |-> KeptAfter(f, s, S, n)]
  <1>1. f = [n \in 0 .. Len(s) |-> KeptAfter(f, s, S, n)]
    BY KeepFunction
  <1>2. Keep(s, S) = f[Len(s)]
    BY DEF Keep, KeptAfter
  <1> QED
    BY <1>1, <1>2

LEMMA KeepEmpty ==
    ASSUME NEW S
    PROVE  Keep(<<>>, S) = <<>>
  <1>1. <<>> \in Seq({}) /\ Len(<<>>) = 0
    BY EmptySeq
  <1>2. PICK f : f = [n \in 0 .. 0 |-> KeptAfter(f, <<>>, S, n)] /\ Keep(<<>>, S) = f[0]
    BY <1>1, KeepIs
  <1> QED
    BY <1>2 DEF KeptAfter

LEMMA KeepAppend ==
    ASSUME NEW T, NEW s \in Seq(T), NEW x \in T, NEW S
    PROVE  Keep(Append(s, x), S) = IF x \in S THEN Append(Keep(s, S), x) ELSE Keep(s, S)
  <1> DEFINE t == Append(s, x)
  <1>1. /\ t \in Seq(T) /\ Len(t) = Len(s) + 1 /\ Len(s) \in Nat
        /\ t[Len(s) + 1] = x /\ \A n \in 1 .. Len(s) : t[n] = s[n]
    BY AppendProperties, LenProperties
  <1> HIDE DEF t
  <1>2. PICK f : f = [n \in 0 .. Len(s) |-> KeptAfter(f, s, S, n)] /\ Keep(s, S) = f[Len(s)]
    BY KeepIs
  <1>3. PICK g : g = [n \in 0 .. Len(t) |-> KeptAfter(g, t, S, n)] /\ Keep(t, S) = g[Len(t)]
    BY <1>1, KeepIs
  <1>4. \A n \in 0 .. Len(s) : g[n] = f[n]
    <2> DEFINE bad == {n \in 0 .. Len(s) : g[n] # f[n]}
    <2>1. SUFFICES ASSUME bad # {} PROVE FALSE
      OBVIOUS
    <2>2. bad \in SUBSET Nat
      BY <1>1
    <2>3. PICK n \in bad : \A k \in bad : n <= k
      BY <2>1, <2>2, LeastOf
    <2>4. g[n] = KeptAfter(g, t, S, n) /\ f[n] = KeptAfter(f, s, S, n)
      <3>1. n \in 0 .. Len(s) /\ n \in 0 .. Len(t)
        BY <1>1
      <3>2. g[n] = KeptAfter(g, t, S, n)
        BY <1>3, <3>1
      <3>3. f[n] = KeptAfter(f, s, S, n)
        BY <1>2, <3>1
      <3> QED
        BY <3>2, <3>3
    <2>5. CASE n = 0
      BY <2>3, <2>4, <2>5 DEF KeptAfter
    <2>6. CASE n # 0
      <3>1. n - 1 \in 0 .. Len(s) /\ n - 1 \notin bad /\ t[n] = s[n]
        BY <1>1, <2>3, <2>6
      <3>2. g[n - 1] = f[n - 1]
        BY <3>1
      <3> QED
        BY <2>3, <2>4, <2>6, <3>1, <3>2 DEF KeptAfter
    <2> QED
      BY <2>5, <2>6
  <1>5. g[Len(t)] = KeptAfter(g, t, S, Len(t)) /\ Len(t) # 0 /\ Len(t) - 1 = Len(s)
    BY <1>1, <1>3
  <1>6. Len(s) \in 0 .. Len(s)
    BY <1>1
  <1>7. g[Len(s)] = Keep(s, S) /\ g[Len(t)] = Keep(t, S)
    BY <1>2, <1>3, <1>4, <1>6
  <1>8. Keep(t, S) = IF t[Len(t)] \in S THEN Append(g[Len(s)], t[Len(t)]) ELSE g[Len(s)]
    BY <1>5, <1>7 DEF KeptAfter
  <1>9. t[Len(t)] = x
    BY <1>1
  <1> QED
    BY <1>7, <1>8, <1>9, Zenon DEF t

\* What is kept are the elements of the sequence that are in the set, each as often.
LEMMA KeepMembers ==
    ASSUME NEW T, NEW s \in Seq(T), NEW S
    PROVE  Keep(s, S) \in Seq(T) /\ ToSet(Keep(s, S)) = ToSet(s) \cap S
  <1> DEFINE bad == {u \in Seq(T) : ~(Keep(u, S) \in Seq(T) /\ ToSet(Keep(u, S)) = ToSet(u) \cap S)}
  <1>1. SUFFICES ASSUME bad # {} PROVE FALSE
    OBVIOUS
  <1>2. <<>> \notin bad
    <2>1. ToSet(<<>>) = {} /\ <<>> \in Seq(T)
      BY EmptySeq DEF ToSet
    <2> QED
      BY <2>1, KeepEmpty
  <1>3. PICK u \in Seq(T), x \in T : u \notin bad /\ Append(u, x) \in bad
    BY <1>1, <1>2, ShortestAppended
  <1>4. Keep(u, S) \in Seq(T) /\ ToSet(Keep(u, S)) = ToSet(u) \cap S
    BY <1>3
  <1>5. \A w \in Seq(T) : ToSet(Append(w, x)) = ToSet(w) \cup {x}
    BY AppendedMembers
  <1>6. Keep(Append(u, x), S) = IF x \in S THEN Append(Keep(u, S), x) ELSE Keep(u, S)
    BY KeepAppend
  <1>7. Keep(Append(u, x), S) \in Seq(T)
    BY <1>4, <1>6
  <1>8. ToSet(Keep(Append(u, x), S)) = ToSet(Append(u, x)) \cap S
    BY <1>4, <1>5, <1>6
  <1> QED
    BY <1>3, <1>7, <1>8

LEMMA KeepInjective ==
    ASSUME NEW T, NEW s \in Seq(T), NEW S, IsInjective(s)
    PROVE  IsInjective(Keep(s, S))
  <1> DEFINE bad == {u \in Seq(T) : IsInjective(u) /\ ~IsInjective(Keep(u, S))}
  <1>1. SUFFICES ASSUME bad # {} PROVE FALSE
    OBVIOUS
  <1>2. <<>> \notin bad
    BY KeepEmpty
  <1>3. PICK u \in Seq(T), x \in T : u \notin bad /\ Append(u, x) \in bad
    BY <1>1, <1>2, ShortestAppended
  <1>4. IsInjective(u) /\ x \notin ToSet(u)
    BY <1>3, AppendedInjective
  <1>5. IsInjective(Keep(u, S))
    BY <1>3, <1>4
  <1>6. Keep(u, S) \in Seq(T) /\ x \notin ToSet(Keep(u, S))
    BY <1>4, KeepMembers
  <1>7. IsInjective(Append(Keep(u, S), x))
    BY <1>5, <1>6, AppendedInjective
  <1> QED
    BY <1>3, <1>5, <1>7, KeepAppend

\* Nothing is lost exactly if every element is in the set.
LEMMA KeepLength ==
    ASSUME NEW T, NEW s \in Seq(T), NEW S
    PROVE  /\ Len(Keep(s, S)) <= Len(s)
           /\ ToSet(s) \subseteq S => Keep(s, S) = s
           /\ Len(Keep(s, S)) = Len(s) => ToSet(s) \subseteq S
  <1> DEFINE Right(u) == /\ Len(Keep(u, S)) <= Len(u)
                         /\ ToSet(u) \subseteq S => Keep(u, S) = u
                         /\ Len(Keep(u, S)) = Len(u) => ToSet(u) \subseteq S
             bad == {u \in Seq(T) : ~Right(u)}
  <1>1. SUFFICES ASSUME bad # {} PROVE FALSE
    BY DEF bad
  <1>2. <<>> \notin bad
    <2>1. ToSet(<<>>) = {} /\ Len(<<>>) = 0
      BY EmptySeq DEF ToSet
    <2> QED
      BY <2>1, KeepEmpty
  <1>3. PICK u \in Seq(T), x \in T : u \notin bad /\ Append(u, x) \in bad
    BY <1>1, <1>2, ShortestAppended
  <1>4. Right(u)
    BY <1>3
  <1>5. ToSet(Append(u, x)) = ToSet(u) \cup {x} /\ Len(Append(u, x)) = Len(u) + 1 /\ Len(u) \in Nat
    BY AppendedMembers, AppendProperties, LenProperties
  <1>6. Keep(Append(u, x), S) = IF x \in S THEN Append(Keep(u, S), x) ELSE Keep(u, S)
    BY KeepAppend
  <1>7. Keep(u, S) \in Seq(T) /\ Len(Keep(u, S)) \in Nat
    BY KeepMembers, LenProperties
  <1>8. Len(Append(Keep(u, S), x)) = Len(Keep(u, S)) + 1
    BY <1>7, AppendProperties
  <1>9. CASE x \in S
    BY <1>3, <1>4, <1>5, <1>6, <1>7, <1>8, <1>9
  <1>10. CASE x \notin S
    BY <1>3, <1>4, <1>5, <1>6, <1>7, <1>10
  <1> QED
    BY <1>9, <1>10

LEMMA KeepTwice ==
    ASSUME NEW T, NEW s \in Seq(T), NEW S, NEW U
    PROVE  Keep(Keep(s, S), U) = Keep(s, S \cap U)
  <1> DEFINE bad == {u \in Seq(T) : Keep(Keep(u, S), U) # Keep(u, S \cap U)}
  <1>1. SUFFICES ASSUME bad # {} PROVE FALSE
    OBVIOUS
  <1>2. <<>> \notin bad
    BY KeepEmpty
  <1>3. PICK u \in Seq(T), x \in T : u \notin bad /\ Append(u, x) \in bad
    BY <1>1, <1>2, ShortestAppended
  <1>4. Keep(Keep(u, S), U) = Keep(u, S \cap U) /\ Keep(u, S) \in Seq(T)
    BY <1>3, KeepMembers
  <1>5. /\ Keep(Append(u, x), S) = IF x \in S THEN Append(Keep(u, S), x) ELSE Keep(u, S)
        /\ Keep(Append(u, x), S \cap U)
             = IF x \in S \cap U THEN Append(Keep(u, S \cap U), x) ELSE Keep(u, S \cap U)
        /\ Keep(Append(Keep(u, S), x), U)
             = IF x \in U THEN Append(Keep(Keep(u, S), U), x) ELSE Keep(Keep(u, S), U)
    <2>1. Keep(Append(u, x), S) = IF x \in S THEN Append(Keep(u, S), x) ELSE Keep(u, S)
      BY KeepAppend
    <2>2. Keep(Append(u, x), S \cap U)
            = IF x \in S \cap U THEN Append(Keep(u, S \cap U), x) ELSE Keep(u, S \cap U)
      BY KeepAppend
    <2>3. Keep(Append(Keep(u, S), x), U)
            = IF x \in U THEN Append(Keep(Keep(u, S), U), x) ELSE Keep(Keep(u, S), U)
      BY <1>4, KeepAppend
    <2> QED
      BY <2>1, <2>2, <2>3
  <1>6. Keep(Keep(Append(u, x), S), U) = Keep(Append(u, x), S \cap U)
    <2>1. CASE x \in S
      <3>1. Keep(Keep(Append(u, x), S), U) = Keep(Append(Keep(u, S), x), U)
        BY <1>5, <2>1
      <3> QED
        BY <1>4, <1>5, <2>1, <3>1
    <2>2. CASE x \notin S
      BY <1>4, <1>5, <2>2
    <2> QED
      BY <2>1, <2>2
  <1> QED
    BY <1>3, <1>6

LEMMA KeepPrefixed ==
    ASSUME NEW T, NEW s \in Seq(T), NEW x \in T, NEW S
    PROVE  Keep(<<x>> \o s, S) = IF x \in S THEN <<x>> \o Keep(s, S) ELSE Keep(s, S)
  <1> DEFINE Ahead(u) == IF x \in S THEN <<x>> \o u ELSE u
             bad == {u \in Seq(T) : Keep(<<x>> \o u, S) # Ahead(Keep(u, S))}
  <1>1. SUFFICES ASSUME bad # {} PROVE FALSE
    BY DEF bad
  <1>2. <<>> \notin bad
    <2>1. <<x>> = Append(<<>>, x) /\ <<>> \in Seq(T)
      BY EmptySeq
    <2>4. Keep(Append(<<>>, x), S)
            = IF x \in S THEN Append(Keep(<<>>, S), x) ELSE Keep(<<>>, S)
      BY <2>1, KeepAppend, Zenon
    <2>2. Keep(<<x>>, S) = IF x \in S THEN <<x>> ELSE <<>>
      BY <2>1, <2>4, KeepEmpty
    <2>3. <<x>> \o <<>> = <<x>>
      OBVIOUS
    <2> QED
      BY <2>2, <2>3, KeepEmpty
  <1>3. PICK u \in Seq(T), y \in T : u \notin bad /\ Append(u, y) \in bad
    BY <1>1, <1>2, ShortestAppended
  <1>4. Keep(<<x>> \o u, S) = Ahead(Keep(u, S)) /\ Keep(u, S) \in Seq(T)
    BY <1>3, KeepMembers
  <1>5. \A w \in Seq(T) : <<x>> \o w \in Seq(T) /\ <<x>> \o Append(w, y) = Append(<<x>> \o w, y)
    OBVIOUS
  <1>6. Keep(Append(<<x>> \o u, y), S)
          = IF y \in S THEN Append(Keep(<<x>> \o u, S), y) ELSE Keep(<<x>> \o u, S)
    BY <1>5, KeepAppend
  <1>7. Keep(Append(u, y), S) = IF y \in S THEN Append(Keep(u, S), y) ELSE Keep(u, S)
    BY KeepAppend
  <1>8. Keep(<<x>> \o Append(u, y), S) = Ahead(Keep(Append(u, y), S))
    BY <1>4, <1>5, <1>6, <1>7
  <1> QED
    BY <1>3, <1>8

-----------------------------------------------------------------------------
(* Buckets.                                                                *)

Bucket == [range_min : Nat, range_max : Nat, contacts : Seq(Ids), last_accessed : {0, Now}]

\* A list of contacts that a bucket may hold.
Holds(s) == s \in Seq(Ids) /\ Len(s) <= K /\ IsInjective(s)

Good(b) == b \in Bucket /\ Holds(b.contacts)

LEMMA WithoutIs ==
    ASSUME NEW s, Holds(s), NEW id
    PROVE  /\ Holds(Without(s, id))
           /\ ToSet(Without(s, id)) = ToSet(s) \ {id}
           /\ id \notin ToSet(s) => Without(s, id) = s
           /\ Len(Without(s, id)) = K <=> id \notin ToSet(s) /\ Len(s) = K
  <1> DEFINE rest == ToSet(s) \ {id}
  <1>1. s \in Seq(Ids) /\ Len(s) <= K /\ IsInjective(s) /\ Len(s) \in Nat /\ K \in Nat
    BY LenProperties, KBucketAssumption DEF Holds
  <1>2. Keep(s, rest) \in Seq(Ids) /\ ToSet(Keep(s, rest)) = ToSet(s) \cap rest
    BY <1>1, KeepMembers
  <1>3. /\ Len(Keep(s, rest)) <= Len(s)
        /\ ToSet(s) \subseteq rest => Keep(s, rest) = s
        /\ Len(Keep(s, rest)) = Len(s) => ToSet(s) \subseteq rest
    BY <1>1, KeepLength
  <1>4. IsInjective(Keep(s, rest)) /\ Len(Keep(s, rest)) \in Nat
    BY <1>1, <1>2, KeepInjective, LenProperties
  <1>5. ToSet(s) \subseteq rest <=> id \notin ToSet(s)
    OBVIOUS
  <1>6. Without(s, id) = Keep(s, rest)
    BY DEF Without
  <1> HIDE DEF rest
  <1>7. Len(Keep(s, rest)) = K <=> id \notin ToSet(s) /\ Len(s) = K
    BY <1>1, <1>3, <1>4, <1>5
  <1>8. Holds(Keep(s, rest))
    BY <1>1, <1>2, <1>3, <1>4 DEF Holds
  <1>9. ToSet(Keep(s, rest)) = ToSet(s) \ {id}
    BY <1>2 DEF rest
  <1> QED
    BY <1>3, <1>5, <1>6, <1>7, <1>8, <1>9

LEMMA FullIs ==
    ASSUME NEW b, Good(b), NEW id
    PROVE  Full(b, id) <=> id \notin Members(b) /\ Len(b.contacts) = K
  BY WithoutIs DEF Full, Members, Good

LEMMA RemoveFromIs ==
    ASSUME NEW b, Good(b), NEW id
    PROVE  /\ Good(RemoveFrom(b, id))
           /\ RemoveFrom(b, id) = [b EXCEPT !.contacts = Without(b.contacts, id)]
           /\ Members(RemoveFrom(b, id)) = Members(b) \ {id}
           /\ RemoveFrom(b, id).range_min = b.range_min
           /\ RemoveFrom(b, id).range_max = b.range_max
  <1>1. Holds(Without(b.contacts, id)) /\ ToSet(Without(b.contacts, id)) = ToSet(b.contacts) \ {id}
    BY WithoutIs DEF Good
  <1> DEFINE w == Without(b.contacts, id)
  <1> HIDE DEF w
  <1>2. RemoveFrom(b, id) = [b EXCEPT !.contacts = w]
    BY DEF RemoveFrom, w
  <1>3. w \in Seq(Ids)
    BY <1>1 DEF Holds, w
  <1> QED
    BY <1>1, <1>2, <1>3 DEF Good, Bucket, Members, w

\* The front of the list: the contact is put there unless the bucket is full.
LatestFirst(b, id) == <<id>> \o Without(b.contacts, id)

LEMMA AddToIs ==
    ASSUME NEW b, Good(b), NEW id \in Ids, ~Full(b, id)
    PROVE  /\ Good(AddTo(b, id))
           /\ AddTo(b, id) = [b EXCEPT !.contacts = LatestFirst(b, id)]
           /\ Holds(LatestFirst(b, id))
           /\ AddTo(b, id).contacts = LatestFirst(b, id) /\ Head(LatestFirst(b, id)) = id
           /\ Members(AddTo(b, id)) = Members(b) \cup {id}
           /\ AddTo(b, id).range_min = b.range_min
           /\ AddTo(b, id).range_max = b.range_max
  <1> DEFINE w == Without(b.contacts, id)
             f == <<id>> \o w
  <1>1. Holds(w) /\ ToSet(w) = ToSet(b.contacts) \ {id} /\ Len(w) # K
    BY WithoutIs DEF Good, Full
  <1>2. w \in Seq(Ids) /\ Len(w) \in Nat /\ K \in Nat
    BY <1>1, LenProperties, KBucketAssumption DEF Holds
  <1> HIDE DEF w
  <1>3. /\ f \in Seq(Ids) /\ Len(f) = Len(w) + 1 /\ f[1] = id
        /\ ToSet(f) = {id} \cup ToSet(w)
        /\ IsInjective(f) <=> IsInjective(w) /\ id \notin ToSet(w)
    BY <1>2, PrefixedMembers
  <1>4. AddTo(b, id) = [b EXCEPT !.contacts = f] /\ LatestFirst(b, id) = f
    BY <1>1 DEF AddTo, LatestFirst, w
  <1>5. Head(f) = id
    BY <1>3
  <1> HIDE DEF f
  <1>6. Holds(f)
    BY <1>1, <1>2, <1>3 DEF Holds
  <1>7. ToSet(f) = ToSet(b.contacts) \cup {id}
    BY <1>1, <1>3
  <1> QED
    BY <1>3, <1>4, <1>5, <1>6, <1>7 DEF Good, Bucket, Members

LEMMA WholeSubSeq ==
    ASSUME NEW T, NEW s \in Seq(T)
    PROVE  SubSeq(s, 1, Len(s)) = s
  BY LenProperties

\* All of the contacts are asked for.
LEMMA GetAll ==
    ASSUME NEW b, Good(b)
    PROVE  GetContacts(b, K, {}) = b.contacts
  <1>1. b.contacts \in Seq(Ids) /\ Len(b.contacts) <= K /\ Len(b.contacts) \in Nat /\ K \in Nat
    BY LenProperties, KBucketAssumption DEF Good, Bucket, Holds
  <1>2. Keep(b.contacts, Members(b) \ {}) = b.contacts
    BY <1>1, KeepLength DEF Members
  <1>3. (IF Len(b.contacts) < K THEN Len(b.contacts) ELSE K) = Len(b.contacts)
    BY <1>1
  <1>4. GetContacts(b, K, {}) = SubSeq(b.contacts, 1, Len(b.contacts))
    BY <1>2, <1>3, Zenon DEF GetContacts
  <1> QED
    BY <1>1, <1>4, WholeSubSeq

-----------------------------------------------------------------------------
(* Refill.                                                                 *)

FilledAfter(f, b, s, n) == IF n = 0 THEN b ELSE AddTo(f[n - 1], s[Len(s) - n + 1])

LEMMA RefillFunction ==
    ASSUME NEW T, NEW s \in Seq(T), NEW b
    PROVE  \E f : f = [n \in 0 .. Len(s) |-> FilledAfter(f, b, s, n)]
  <1> DEFINE bad == {m \in 0 .. Len(s) : ~\E f : f = [n \in 0 .. m |-> FilledAfter(f, b, s, n)]}
  <1>1. SUFFICES ASSUME bad # {} PROVE FALSE
    <2>1. Len(s) \in 0 .. Len(s) /\ Len(s) \notin bad
      BY <1>1, LenProperties
    <2> QED
      BY <2>1
  <1>2. Len(s) \in Nat /\ bad \in SUBSET Nat
    BY LenProperties
  <1>3. PICK m \in bad : \A k \in bad : m <= k
    BY <1>1, <1>2, LeastOf
  <1>4. m # 0
    <2> DEFINE g == [n \in 0 .. 0 |-> b]
    <2>1. g = [n \in 0 .. 0 |-> FilledAfter(g, b, s, n)]
      BY DEF FilledAfter
    <2> QED
      BY <1>3, <2>1
  <1>5. m - 1 \in 0 .. Len(s) /\ m - 1 \notin bad
    BY <1>2, <1>3, <1>4
  <1>6. PICK f : f = [n \in 0 .. m - 1 |-> FilledAfter(f, b, s, n)]
    BY <1>5
  <1> DEFINE g == [n \in 0 .. m |-> IF n = m THEN FilledAfter(f, b, s, m) ELSE f[n]]
  <1>7. ASSUME NEW n \in 0 .. m
        PROVE  g[n] = FilledAfter(g, b, s, n)
    <2>1. CASE n = 0
      BY <2>1, <1>4, <1>6, <1>2 DEF FilledAfter
    <2>2. CASE n # 0
      <3>1. n - 1 \in 0 .. m /\ n - 1 # m /\ g[n - 1] = f[n - 1]
        BY <2>2, <1>2
      <3>2. FilledAfter(g, b, s, n) = FilledAfter(f, b, s, n)
        BY <3>1, <2>2 DEF FilledAfter
      <3>3. g[n] = FilledAfter(f, b, s, n)
        BY <1>6, <1>2
      <3> QED
        BY <3>2, <3>3
    <2> QED
      BY <2>1, <2>2
  <1>8. g = [n \in 0 .. m |-> FilledAfter(g, b, s, n)]
    BY <1>7
  <1> HIDE DEF g
  <1> QED
    BY <1>3, <1>8

LEMMA RefillWith ==
    ASSUME NEW T, NEW s \in Seq(T), NEW b
    PROVE  \E f : /\ f = [n \in 0 .. Len(s) |-> FilledAfter(f, b, s, n)]
                  /\ Refill(b, s) = f[Len(s)]
  <1> DEFINE f == CHOOSE f : f = [n \in 0 .. Len(s) |-> FilledAfter(f, b, s, n)]
  <1>1. f = [n \in 0 .. Len(s) |-> FilledAfter(f, b, s, n)]
    BY RefillFunction
  <1>2. Refill(b, s) = f[Len(s)]
    BY DEF Refill, FilledAfter
  <1> QED
    BY <1>1, <1>2

LEMMA RefillEmpty ==
    ASSUME NEW b
    PROVE  Refill(b, <<>>) = b
  <1>1. <<>> \in Seq({}) /\ Len(<<>>) = 0
    BY EmptySeq
  <1>2. PICK f : f = [n \in 0 .. 0 |-> FilledAfter(f, b, <<>>, n)] /\ Refill(b, <<>>) = f[0]
    BY <1>1, RefillWith
  <1> QED
    BY <1>2 DEF FilledAfter

LEMMA RefillPrefixed ==
    ASSUME NEW T, NEW s \in Seq(T), NEW x \in T, NEW b
    PROVE  Refill(b, <<x>> \o s) = AddTo(Refill(b, s), x)
  <1> DEFINE t == <<x>> \o s
  <1>1. /\ t \in Seq(T) /\ Len(t) = Len(s) + 1 /\ Len(s) \in Nat
        /\ t[1] = x /\ \A n \in 1 .. Len(s) : t[n + 1] = s[n]
    BY PrefixedMembers, LenProperties
  <1> HIDE DEF t
  <1>2. PICK f : f = [n \in 0 .. Len(s) |-> FilledAfter(f, b, s, n)] /\ Refill(b, s) = f[Len(s)]
    BY RefillWith
  <1>3. PICK g : g = [n \in 0 .. Len(t) |-> FilledAfter(g, b, t, n)] /\ Refill(b, t) = g[Len(t)]
    BY <1>1, RefillWith
  <1>4. \A n \in 0 .. Len(s) : g[n] = f[n]
    <2> DEFINE bad == {n \in 0 .. Len(s) : g[n] # f[n]}
    <2>1. SUFFICES ASSUME bad # {} PROVE FALSE
      OBVIOUS
    <2>2. bad \in SUBSET Nat
      BY <1>1
    <2>3. PICK n \in bad : \A k \in bad : n <= k
      BY <2>1, <2>2, LeastOf
    <2>4. g[n] = FilledAfter(g, b, t, n) /\ f[n] = FilledAfter(f, b, s, n)
      <3>1. n \in 0 .. Len(s) /\ n \in 0 .. Len(t)
        BY <1>1
      <3>2. g[n] = FilledAfter(g, b, t, n)
        BY <1>3, <3>1
      <3>3. f[n] = FilledAfter(f, b, s, n)
        BY <1>2, <3>1
      <3> QED
        BY <3>2, <3>3
    <2>5. CASE n = 0
      BY <2>3, <2>4, <2>5 DEF FilledAfter
    <2>6. CASE n # 0
      <3>1. n - 1 \in 0 .. Len(s) /\ n - 1 \notin bad /\ Len(s) - n + 1 \in 1 .. Len(s)
        BY <1>1, <2>3, <2>6
      <3>2. g[n - 1] = f[n - 1]
        BY <3>1
      <3>3. Len(t) - n + 1 = (Len(s) - n + 1) + 1
        BY <1>1
      <3>4. t[Len(t) - n + 1] = s[Len(s) - n + 1]
        BY <1>1, <3>1, <3>3
      <3> QED
        BY <2>3, <2>4, <2>6, <3>2, <3>4 DEF FilledAfter
    <2> QED
      BY <2>5, <2>6
  <1>5. Len(t) \in 0 .. Len(t) /\ Len(t) # 0 /\ Len(t) - 1 = Len(s) /\ Len(t) - Len(t) + 1 = 1
    BY <1>1
  <1>6. g[Len(t)] = FilledAfter(g, b, t, Len(t))
    BY <1>3, <1>5
  <1>7. g[Len(t)] = AddTo(g[Len(s)], x)
    BY <1>1, <1>5, <1>6 DEF FilledAfter
  <1>8. Len(s) \in 0 .. Len(s)
    BY <1>1
  <1> QED
    BY <1>2, <1>3, <1>4, <1>7, <1>8 DEF t

\* Adding a bucket's contacts to an empty one, the last of them first, gives the same list.
LEMMA RefillIs ==
    ASSUME NEW b, Good(b), b.contacts = <<>>, NEW s, Holds(s)
    PROVE  Refill(b, s) = [b EXCEPT !.contacts = s]
  <1> DEFINE bad == {u \in Seq(Ids) : Holds(u) /\ Refill(b, u) # [b EXCEPT !.contacts = u]}
  <1>1. SUFFICES ASSUME bad # {} PROVE FALSE
    BY DEF Holds
  <1>2. <<>> \notin bad
    <2>1. [b EXCEPT !.contacts = <<>>] = b
      BY DEF Good, Bucket
    <2> QED
      BY <2>1, RefillEmpty
  <1>3. PICK u \in Seq(Ids), x \in Ids : u \notin bad /\ <<x>> \o u \in bad
    BY <1>1, <1>2, ShortestPrefixed
  <1>4. /\ Holds(<<x>> \o u) /\ Len(<<x>> \o u) = Len(u) + 1 /\ Len(u) \in Nat /\ K \in Nat
        /\ IsInjective(<<x>> \o u) <=> IsInjective(u) /\ x \notin ToSet(u)
    BY <1>3, PrefixedMembers, LenProperties, KBucketAssumption
  <1>5. Holds(u) /\ x \notin ToSet(u) /\ Len(u) # K
    BY <1>4 DEF Holds
  <1> DEFINE c == [b EXCEPT !.contacts = u]
  <1>6. Refill(b, u) = c
    BY <1>3, <1>5
  <1>7. Good(c) /\ c.contacts = u
    BY <1>5 DEF Good, Bucket
  <1> HIDE DEF c
  <1>8. ~Full(c, x) /\ Without(u, x) = u
    BY <1>5, <1>7, FullIs, WithoutIs DEF Members
  <1>9. AddTo(c, x) = [c EXCEPT !.contacts = <<x>> \o u]
    BY <1>7, <1>8, AddToIs DEF LatestFirst
  <1>10. [c EXCEPT !.contacts = <<x>> \o u] = [b EXCEPT !.contacts = <<x>> \o u]
    BY DEF c, Good, Bucket
  <1>11. Refill(b, <<x>> \o u) = AddTo(c, x)
    BY <1>6, RefillPrefixed
  <1> QED
    BY <1>3, <1>9, <1>10, <1>11

-----------------------------------------------------------------------------
(* Splitting.                                                              *)

\* The left half's share of the contacts of b, if the right half begins at m.
LeftOf(b, m) == {c \in Members(b) : b.range_min <= c /\ c <= m + 1}

LeftHalf(b, m) ==
    [range_min |-> b.range_min, range_max |-> m + 1,
     contacts |-> Keep(b.contacts, LeftOf(b, m)), last_accessed |-> 0]

RightHalf(b, m) ==
    [range_min |-> m, range_max |-> b.range_max,
     contacts |-> Keep(b.contacts, Members(b) \ LeftOf(b, m)), last_accessed |-> 0]

LEMMA HalvesAre ==
    ASSUME NEW b, Good(b), NEW s1 \in StrayBits, NEW s2 \in StrayBits, NEW m \in Nat,
           m = SplitMax1(b.range_min, b.range_max, s1, s2)
    PROVE  /\ Halves(b, s1, s2) = <<LeftHalf(b, m), RightHalf(b, m)>>
           /\ Good(LeftHalf(b, m)) /\ Good(RightHalf(b, m))
           /\ Members(LeftHalf(b, m)) = LeftOf(b, m)
           /\ Members(RightHalf(b, m)) = Members(b) \ LeftOf(b, m)
  <1> DEFINE left  == NewBucket(b.range_min, m + 1)
             right == NewBucket(m, b.range_max)
             toLeft  == Keep(b.contacts, LeftOf(b, m))
             toRight == Keep(b.contacts, Members(b) \ LeftOf(b, m))
  <1>1. Holds(b.contacts) /\ b.contacts \in Seq(Ids) /\ b.range_min \in Nat /\ b.range_max \in Nat
    BY DEF Good, Bucket
  <1>2. \A S : Holds(Keep(b.contacts, S)) /\ ToSet(Keep(b.contacts, S)) = Members(b) \cap S
    <2> TAKE S
    <2>1. Keep(b.contacts, S) \in Seq(Ids) /\ ToSet(Keep(b.contacts, S)) = Members(b) \cap S
      BY <1>1, KeepMembers DEF Members
    <2>2. IsInjective(Keep(b.contacts, S)) /\ Len(Keep(b.contacts, S)) <= Len(b.contacts)
      BY <1>1, KeepInjective, KeepLength DEF Holds
    <2>3. /\ Len(Keep(b.contacts, S)) \in Nat /\ Len(b.contacts) \in Nat /\ K \in Nat
          /\ Len(b.contacts) <= K
      BY <1>1, <2>1, LenProperties, KBucketAssumption DEF Holds
    <2> QED
      BY <2>1, <2>2, <2>3 DEF Holds
  <1>3. Good(left) /\ left.contacts = <<>> /\ Good(right) /\ right.contacts = <<>>
    <2>1. Holds(<<>>)
      BY EmptySeq, KBucketAssumption DEF Holds, IsInjective
    <2> QED
      BY <1>1, <2>1 DEF Good, Bucket, NewBucket, Holds
  <1>4. Refill(left, toLeft) = [left EXCEPT !.contacts = toLeft]
    BY <1>2, <1>3, RefillIs
  <1>5. Refill(right, toRight) = [right EXCEPT !.contacts = toRight]
    BY <1>2, <1>3, RefillIs
  <1>6. /\ LeftHalf(b, m) = [left EXCEPT !.contacts = toLeft]
        /\ RightHalf(b, m) = [right EXCEPT !.contacts = toRight]
    BY DEF NewBucket, LeftHalf, RightHalf
  <1>7. /\ {c \in Members(b) : KeyInRange(left, c)} = LeftOf(b, m)
        /\ {c \in Members(b) : ~KeyInRange(left, c)} = Members(b) \ LeftOf(b, m)
    BY DEF KeyInRange, NewBucket, LeftOf
  <1>8. Halves(b, s1, s2) = <<Refill(left, toLeft), Refill(right, toRight)>>
    BY <1>7, GetAll DEF Halves, SplitMin1
  <1>9. Holds(toLeft) /\ Holds(toRight) /\ toLeft \in Seq(Ids) /\ toRight \in Seq(Ids)
    BY <1>2 DEF Holds
  <1>10. ToSet(toLeft) = LeftOf(b, m) /\ ToSet(toRight) = Members(b) \ LeftOf(b, m)
    BY <1>2 DEF LeftOf
  <1> HIDE DEF toLeft, toRight
  <1>11. LeftHalf(b, m).contacts = toLeft /\ RightHalf(b, m).contacts = toRight
    BY DEF LeftHalf, RightHalf, toLeft, toRight
  <1>12. LeftHalf(b, m) \in Bucket /\ RightHalf(b, m) \in Bucket
    BY <1>1, <1>9 DEF LeftHalf, RightHalf, Bucket, toLeft, toRight
  <1> QED
    BY <1>4, <1>5, <1>6, <1>8, <1>9, <1>10, <1>11, <1>12 DEF Good, Members

\* x and y stand where the i-th bucket was.
Replaced(bs, i, x, y, cs) ==
    /\ cs \in Seq(Bucket) /\ Len(cs) = Len(bs) + 1
    /\ \A j \in 1 .. i - 1 : cs[j] = bs[j]
    /\ cs[i] = x /\ cs[i + 1] = y
    /\ \A j \in i + 2 .. Len(bs) + 1 : cs[j] = bs[j - 1]

Insertion(s, i, x, y) == SubSeq(s, 1, i - 1) \o <<x, y>> \o SubSeq(s, i + 1, Len(s))

LEMMA Inserted ==
    ASSUME NEW s \in Seq(Bucket), NEW i \in 1 .. Len(s), NEW x \in Bucket, NEW y \in Bucket
    PROVE  Replaced(s, i, x, y, Insertion(s, i, x, y))
  <1> DEFINE T == Bucket
             r == Insertion(s, i, x, y)
  <1> HIDE DEF T
  <1>1. Len(s) \in Nat /\ i \in Nat /\ \A j \in 1 .. Len(s) : s[j] \in T
    BY LenProperties, ElementOfSeq DEF T
  <1> DEFINE before == SubSeq(s, 1, i - 1)
             after  == SubSeq(s, i + 1, Len(s))
  <1>2. /\ before \in Seq(T) /\ Len(before) = i - 1
        /\ \A j \in 1 .. i - 1 : before[j] = s[j]
    BY <1>1
  <1>3. /\ after \in Seq(T) /\ Len(after) = Len(s) - i
        /\ \A j \in 1 .. Len(s) - i : after[j] = s[i + j]
    BY <1>1
  <1> HIDE DEF before, after
  <1>4. r = before \o <<x, y>> \o after
    BY DEF before, after, Insertion
  <1> DEFINE p == before \o <<x, y>>
  <1>5. /\ p \in Seq(T) /\ Len(p) = i + 1 /\ p[i] = x /\ p[i + 1] = y
        /\ \A j \in 1 .. i - 1 : p[j] = s[j]
    <2> DEFINE pair == <<x, y>>
    <2>1. pair \in Seq(T) /\ Len(pair) = 2 /\ pair[1] = x /\ pair[2] = y
      BY DEF T
    <2> HIDE DEF pair
    <2>2. /\ before \o pair \in Seq(T) /\ Len(before \o pair) = Len(before) + Len(pair)
          /\ \A j \in 1 .. Len(before) + Len(pair) : (before \o pair)[j] =
                IF j <= Len(before) THEN before[j] ELSE pair[j - Len(before)]
      BY <1>2, <2>1, ConcatProperties
    <2>3. Len(before) + Len(pair) = i + 1 /\ Len(before) = i - 1 /\ i - Len(before) = 1
            /\ (i + 1) - Len(before) = 2
      BY <1>1, <1>2, <2>1
    <2>4. i \in 1 .. i + 1 /\ i + 1 \in 1 .. i + 1 /\ ~(i <= i - 1) /\ ~(i + 1 <= i - 1)
      BY <1>1
    <2>5. (before \o pair)[i] = x /\ (before \o pair)[i + 1] = y
      BY <2>1, <2>2, <2>3, <2>4
    <2>6. \A j \in 1 .. i - 1 : (before \o pair)[j] = s[j]
      BY <1>1, <1>2, <2>2, <2>3
    <2> QED
      BY <2>2, <2>3, <2>5, <2>6 DEF pair
  <1> HIDE DEF p
  <1>6. r = p \o after
    BY <1>4 DEF p
  <1> HIDE DEF r
  <1>7. /\ r \in Seq(T) /\ Len(r) = Len(s) + 1
        /\ \A j \in 1 .. i + 1 : r[j] = p[j]
        /\ \A j \in i + 2 .. Len(s) + 1 : r[j] = after[j - (i + 1)]
    <2>1. /\ p \o after \in Seq(T) /\ Len(p \o after) = Len(p) + Len(after)
          /\ \A j \in 1 .. Len(p) + Len(after) : (p \o after)[j] =
                IF j <= Len(p) THEN p[j] ELSE after[j - Len(p)]
      BY <1>3, <1>5, ConcatProperties
    <2>2. Len(p) + Len(after) = Len(s) + 1 /\ Len(p) = i + 1
      BY <1>1, <1>3, <1>5
    <2>3. ASSUME NEW j \in 1 .. i + 1 PROVE r[j] = p[j]
      <3>1. j \in 1 .. Len(p) + Len(after) /\ j <= Len(p)
        BY <1>1, <2>2
      <3> QED
        BY <1>6, <2>1, <3>1
    <2>4. ASSUME NEW j \in i + 2 .. Len(s) + 1 PROVE r[j] = after[j - (i + 1)]
      <3>1. j \in 1 .. Len(p) + Len(after) /\ ~(j <= Len(p))
        BY <1>1, <2>2
      <3>2. r[j] = after[j - Len(p)]
        BY <1>6, <2>1, <3>1
      <3> QED
        BY <2>2, <3>2
    <2> QED
      BY <1>6, <2>1, <2>2, <2>3, <2>4
  <1>8. \A j \in i + 2 .. Len(s) + 1 : r[j] = s[j - 1]
    <2> TAKE j \in i + 2 .. Len(s) + 1
    <2>1. j - (i + 1) \in 1 .. Len(s) - i /\ i + (j - (i + 1)) = j - 1
      BY <1>1
    <2>2. r[j] = after[j - (i + 1)]
      BY <1>7
    <2> QED
      BY <1>3, <2>1, <2>2
  <1>9. i \in 1 .. i + 1 /\ i + 1 \in 1 .. i + 1 /\ 1 .. i - 1 \subseteq 1 .. i + 1
    BY <1>1
  <1> QED
    <2>1. \A j \in 1 .. i - 1 : r[j] = s[j]
      BY <1>5, <1>7, <1>9
    <2>2. r[i] = x /\ r[i + 1] = y
      BY <1>5, <1>7, <1>9
    <2>3. Replaced(s, i, x, y, r)
      BY <1>7, <1>8, <2>1, <2>2 DEF Replaced, T
    <2> QED
      BY <2>3 DEF r

\* The map leads from every upper address to the first bucket that ends there.
Leads(map, bs) ==
    /\ DOMAIN map = {bs[i].range_max : i \in DOMAIN bs}
    /\ \A u \in DOMAIN map : /\ map[u] \in DOMAIN bs /\ bs[map[u]].range_max = u
                             /\ \A j \in 1 .. map[u] - 1 : bs[j].range_max # u

LEMMA UpperAddressesLead ==
    ASSUME NEW bs \in Seq(Bucket)
    PROVE  Leads(UpperAddresses(bs), bs)
  <1> DEFINE us == {bs[i].range_max : i \in DOMAIN bs}
             first(u, i) == /\ bs[i].range_max = u
                            /\ \A j \in 1 .. i - 1 : bs[j].range_max # u
  <1>1. DOMAIN bs = 1 .. Len(bs) /\ Len(bs) \in Nat
    BY LenProperties
  <1>2. ASSUME NEW u \in us
        PROVE  \E i \in DOMAIN bs : first(u, i)
    <2> DEFINE hits == {i \in DOMAIN bs : bs[i].range_max = u}
    <2>1. hits \in SUBSET Nat /\ hits # {}
      BY <1>1, <1>2
    <2>2. PICK i \in hits : \A k \in hits : i <= k
      BY <2>1, LeastOf
    <2>3. ASSUME NEW j \in 1 .. i - 1 PROVE bs[j].range_max # u
      <3>1. j \in DOMAIN bs /\ ~(i <= j)
        BY <1>1, <2>2
      <3> QED
        BY <2>2, <3>1
    <2> QED
      BY <2>2, <2>3
  <1>3. UpperAddresses(bs) = [u \in us |-> CHOOSE i \in DOMAIN bs : first(u, i)]
    BY DEF UpperAddresses
  <1>4. ASSUME NEW u \in us
        PROVE  UpperAddresses(bs)[u] \in DOMAIN bs /\ first(u, UpperAddresses(bs)[u])
    <2> HIDE DEF first
    <2>1. UpperAddresses(bs)[u] = CHOOSE i \in DOMAIN bs : first(u, i)
      BY <1>3
    <2> QED
      BY <1>2, <2>1, Zenon
  <1> QED
    BY <1>3, <1>4 DEF Leads

-----------------------------------------------------------------------------
(* The types.                                                              *)

\* Buckets that cover the space up to its upper end.
Buckets(bs) ==
    /\ bs \in Seq(Bucket) /\ Len(bs) > 0
    /\ \A i \in DOMAIN bs : Good(bs[i])
    /\ bs[Len(bs)].range_max = MaxId

Typed ==
    /\ Buckets(k_buckets)
    /\ Leads(bucket_upper_address, k_buckets)
    /\ adding \in Ids \cup {NoId}
    /\ reply \in [id : Ids \cup {NoId}, code : {0, 2, 3}]
    /\ wild \in BOOLEAN

LEMMA TypedMeansTypeOK ==
    ASSUME Typed
    PROVE  TypeOK
  <1>1. DOMAIN k_buckets = 1 .. Len(k_buckets) /\ Len(k_buckets) \in Nat /\ Len(k_buckets) > 0
    BY LenProperties DEF Typed, Buckets
  <1>2. \A i \in DOMAIN k_buckets :
          IsBucket(k_buckets[i]) /\ Len(k_buckets[i].contacts) <= K /\ IsInjective(k_buckets[i].contacts)
    BY DEF Typed, Buckets, Good, Holds, IsBucket, Bucket
  <1>3. MaxId \in DOMAIN bucket_upper_address
    BY <1>1 DEF Typed, Buckets, Leads
  <1> QED
    BY <1>2, <1>3 DEF Typed, TypeOK, Leads

\* KBucketIndex finds the bucket with the least upper address that is not below the key.
LEMMA IndexFound ==
    ASSUME Typed, NEW id \in Nat, id <= MaxId
    PROVE  /\ KBucketIndex(id) \in DOMAIN k_buckets
           /\ id <= k_buckets[KBucketIndex(id)].range_max
           /\ \A j \in DOMAIN k_buckets : id <= k_buckets[j].range_max
                => k_buckets[KBucketIndex(id)].range_max <= k_buckets[j].range_max
           /\ \A j \in 1 .. KBucketIndex(id) - 1 :
                k_buckets[j].range_max # k_buckets[KBucketIndex(id)].range_max
  <1> DEFINE map == bucket_upper_address
             reach == {u \in DOMAIN map : id <= u}
             least(u) == id <= u /\ \A w \in DOMAIN map : id <= w => u <= w
  <1>1. /\ DOMAIN k_buckets = 1 .. Len(k_buckets) /\ Len(k_buckets) \in Nat /\ Len(k_buckets) > 0
        /\ k_buckets[Len(k_buckets)].range_max = MaxId
        /\ \A i \in DOMAIN k_buckets : k_buckets[i].range_max \in Nat
    BY LenProperties DEF Typed, Buckets, Good, Bucket
  <1>2. /\ DOMAIN map = {k_buckets[i].range_max : i \in DOMAIN k_buckets}
        /\ \A u \in DOMAIN map : /\ map[u] \in DOMAIN k_buckets /\ k_buckets[map[u]].range_max = u
                                 /\ \A j \in 1 .. map[u] - 1 : k_buckets[j].range_max # u
    BY DEF Typed, Leads
  <1>3. reach \in SUBSET Nat /\ reach # {}
    BY <1>1, <1>2
  <1>4. \E u \in DOMAIN map : least(u)
    <2>1. PICK u \in reach : \A w \in reach : u <= w
      BY <1>3, LeastOf
    <2> QED
      BY <2>1
  <1> DEFINE found == CHOOSE u \in DOMAIN map : least(u)
  <1>5. found \in DOMAIN map /\ least(found)
    <2> HIDE DEF least
    <2> QED
      BY <1>4, Zenon
  <1>6. KBucketIndex(id) = map[found]
    <2>1. ~(id > MaxId)
      BY TableAssumption
    <2> QED
      BY <2>1 DEF KBucketIndex
  <1> HIDE DEF found
  <1> QED
    BY <1>2, <1>5, <1>6

\* A bucket's contacts change, and no range.
SameRanges(bs, cs) ==
    /\ DOMAIN cs = DOMAIN bs /\ Len(cs) = Len(bs)
    /\ \A i \in DOMAIN bs : cs[i].range_min = bs[i].range_min /\ cs[i].range_max = bs[i].range_max

LEMMA BucketChanged ==
    ASSUME NEW bs, Buckets(bs), NEW i \in DOMAIN bs, NEW b, Good(b),
           b.range_min = bs[i].range_min, b.range_max = bs[i].range_max
    PROVE  /\ Buckets([bs EXCEPT ![i] = b])
           /\ SameRanges(bs, [bs EXCEPT ![i] = b])
           /\ \A map : Leads(map, bs) => Leads(map, [bs EXCEPT ![i] = b])
  <1> DEFINE cs == [bs EXCEPT ![i] = b]
  <1>1. bs \in Seq(Bucket) /\ DOMAIN bs = 1 .. Len(bs) /\ Len(bs) \in Nat /\ Len(bs) > 0
    BY LenProperties DEF Buckets
  <1>2. b \in Bucket
    BY DEF Good
  <1>3. cs \in Seq(Bucket) /\ DOMAIN cs = DOMAIN bs /\ Len(cs) = Len(bs)
    BY <1>1, <1>2
  <1>4. cs[i] = b /\ \A j \in DOMAIN bs : j # i => cs[j] = bs[j]
    BY <1>1
  <1> HIDE DEF cs
  <1>5. SameRanges(bs, cs)
    BY <1>3, <1>4 DEF SameRanges
  <1>6. Buckets(cs)
    BY <1>1, <1>3, <1>4, <1>5 DEF Buckets, SameRanges
  <1>7. ASSUME NEW map, Leads(map, bs) PROVE Leads(map, cs)
    <2>1. \A u \in DOMAIN map : \A j \in 1 .. map[u] - 1 : j \in DOMAIN bs
      BY <1>1, <1>7 DEF Leads
    <2> QED
      BY <1>5, <1>7, <2>1 DEF Leads, SameRanges
  <1> QED
    BY <1>5, <1>6, <1>7 DEF cs

\* AddTo in general: a full bucket only loses an equal contact, of which it has none.
LEMMA AddToGood ==
    ASSUME NEW b, Good(b), NEW id \in Ids
    PROVE  /\ Good(AddTo(b, id))
           /\ AddTo(b, id).range_min = b.range_min /\ AddTo(b, id).range_max = b.range_max
  <1>1. CASE Full(b, id)
    <2>1. AddTo(b, id) = RemoveFrom(b, id)
      BY <1>1 DEF AddTo, RemoveFrom, Full
    <2> QED
      BY <2>1, RemoveFromIs
  <1>2. CASE ~Full(b, id)
    BY <1>2, AddToIs
  <1> QED
    BY <1>1, <1>2

LEMMA SplitIs ==
    ASSUME Typed, NEW i \in DOMAIN k_buckets, SplitKbucket(i)
    PROVE  \E s1, s2 \in StrayBits, m \in Nat :
              /\ m = SplitMax1(k_buckets[i].range_min, k_buckets[i].range_max, s1, s2)
              /\ Replaced(k_buckets, i, LeftHalf(k_buckets[i], m), RightHalf(k_buckets[i], m),
                          k_buckets')
              /\ Good(LeftHalf(k_buckets[i], m)) /\ Good(RightHalf(k_buckets[i], m))
              /\ Members(LeftHalf(k_buckets[i], m)) = LeftOf(k_buckets[i], m)
              /\ Members(RightHalf(k_buckets[i], m)) = Members(k_buckets[i]) \ LeftOf(k_buckets[i], m)
              /\ Leads(bucket_upper_address', k_buckets')
              /\ bucket_of_holder' = IF KeyInRange(LeftHalf(k_buckets[i], m), Holder) THEN i ELSE i + 1
              /\ brother_bucket_of_holder'
                   = IF KeyInRange(LeftHalf(k_buckets[i], m), Holder) THEN i + 1 ELSE i
  <1> DEFINE b == k_buckets[i]
  <1>1. /\ k_buckets \in Seq(Bucket) /\ i \in 1 .. Len(k_buckets) /\ Good(b)
        /\ b.range_min \in Nat /\ b.range_max \in Nat
    BY LenProperties DEF Typed, Buckets, Good, Bucket
  <1>2. PICK s1 \in StrayBits, s2 \in StrayBits :
          /\ k_buckets' = SubSeq(k_buckets, 1, i - 1) \o Halves(b, s1, s2)
                              \o SubSeq(k_buckets, i + 1, Len(k_buckets))
          /\ bucket_upper_address' = UpperAddresses(k_buckets')
          /\ bucket_of_holder' = IF KeyInRange(Halves(b, s1, s2)[1], Holder) THEN i ELSE i + 1
          /\ brother_bucket_of_holder' = IF KeyInRange(Halves(b, s1, s2)[1], Holder) THEN i + 1 ELSE i
    BY DEF SplitKbucket
  <1>3. PICK m \in Nat : m = SplitMax1(b.range_min, b.range_max, s1, s2)
    <2>1. s1 \in Nat /\ s2 \in Nat /\ HighBit \in Nat
      BY KBucketAssumption
    <2>2. \A x, s \in Nat : x \div 2 \in Nat /\ s * HighBit \in Nat
      BY <2>1
    <2>3. /\ b.range_min \div 2 \in Nat /\ b.range_max \div 2 \in Nat
          /\ s1 * HighBit \in Nat /\ s2 * HighBit \in Nat
      BY <1>1, <2>1, <2>2
    <2>4. \A p, q, r, t \in Nat : (p + q) + (r + t) \in Nat
      OBVIOUS
    <2>5. SplitMax1(b.range_min, b.range_max, s1, s2) \in Nat
      BY <2>3, <2>4, Zenon DEF SplitMax1, HalfOf
    <2> QED
      BY <2>5
  <1>4. /\ Halves(b, s1, s2) = <<LeftHalf(b, m), RightHalf(b, m)>>
        /\ Good(LeftHalf(b, m)) /\ Good(RightHalf(b, m))
        /\ Members(LeftHalf(b, m)) = LeftOf(b, m)
        /\ Members(RightHalf(b, m)) = Members(b) \ LeftOf(b, m)
    BY <1>1, <1>3, HalvesAre
  <1> DEFINE x == LeftHalf(b, m)
             y == RightHalf(b, m)
  <1>5. x \in Bucket /\ y \in Bucket
    BY <1>4 DEF Good
  <1>6. /\ k_buckets' = SubSeq(k_buckets, 1, i - 1) \o <<x, y>>
                            \o SubSeq(k_buckets, i + 1, Len(k_buckets))
        /\ Halves(b, s1, s2)[1] = x
    BY <1>2, <1>4
  <1>7. Replaced(k_buckets, i, x, y, k_buckets')
    <2> HIDE DEF x, y
    <2>1. k_buckets' = Insertion(k_buckets, i, x, y)
      BY <1>6, Zenon DEF Insertion
    <2> QED
      BY <1>1, <1>5, <2>1, Inserted
  <1>8. Leads(bucket_upper_address', k_buckets')
    BY <1>2, <1>7, UpperAddressesLead DEF Replaced
  <1> QED
    BY <1>2, <1>3, <1>4, <1>6, <1>7, <1>8

LEMMA SplitTyped ==
    ASSUME Typed, NEW i \in DOMAIN k_buckets, SplitKbucket(i)
    PROVE  Buckets(k_buckets') /\ Leads(bucket_upper_address', k_buckets')
  <1> DEFINE b == k_buckets[i]
             n == Len(k_buckets)
  <1>1. PICK m \in Nat : /\ Replaced(k_buckets, i, LeftHalf(b, m), RightHalf(b, m), k_buckets')
                         /\ Good(LeftHalf(b, m)) /\ Good(RightHalf(b, m))
                         /\ Leads(bucket_upper_address', k_buckets')
    BY SplitIs
  <1>2. /\ n \in Nat /\ i \in 1 .. n /\ k_buckets[n].range_max = MaxId
        /\ \A j \in 1 .. n : Good(k_buckets[j])
    BY LenProperties DEF Typed, Buckets
  <1>3. k_buckets' \in Seq(Bucket) /\ Len(k_buckets') = n + 1 /\ DOMAIN k_buckets' = 1 .. n + 1
    BY <1>1, LenProperties DEF Replaced
  <1>4. ASSUME NEW j \in 1 .. n + 1 PROVE Good(k_buckets'[j])
    <2>1. j \in 1 .. i - 1 \/ j = i \/ j = i + 1 \/ (j \in i + 2 .. n + 1 /\ j - 1 \in 1 .. n)
      BY <1>2
    <2> QED
      BY <1>1, <1>2, <2>1 DEF Replaced
  <1>5. k_buckets'[n + 1].range_max = MaxId
    <2>1. CASE i = n
      BY <1>1, <1>2, <2>1 DEF Replaced, RightHalf
    <2>2. CASE i # n
      <3>1. n + 1 \in i + 2 .. n + 1 /\ (n + 1) - 1 = n
        BY <1>2, <2>2
      <3> QED
        BY <1>1, <1>2, <3>1 DEF Replaced
    <2> QED
      BY <2>1, <2>2
  <1> QED
    BY <1>1, <1>2, <1>3, <1>4, <1>5 DEF Buckets

LEMMA IdsAreNat == Ids \subseteq Nat /\ NoId \notin Nat
  BY TableAssumption

LEMMA AnswerTyped ==
    ASSUME NEW id \in Ids, NEW code \in {0, 2, 3}, Answer(id, code)
    PROVE  /\ adding' \in Ids \cup {NoId}
           /\ reply' \in [id : Ids \cup {NoId}, code : {0, 2, 3}]
  BY DEF Answer

LEMMA AddRoundTyped ==
    ASSUME Typed, NEW id \in Ids, AddRound(id)
    PROVE  Typed'
  <1> DEFINE i == KBucketIndex(id)
  <1>0. id \in Nat
    BY IdsAreNat
  <1>1. CASE AddOutOfSpace(id)
    BY <1>1, AnswerTyped DEF AddOutOfSpace, KeepRanges, Typed
  <1>2. CASE AddToBucket(id)
    <2>1. i \in DOMAIN k_buckets
      BY <1>0, <1>2, IndexFound DEF AddToBucket
    <2>2. Buckets(k_buckets) /\ Good(k_buckets[i]) /\ Leads(bucket_upper_address, k_buckets)
      BY <2>1 DEF Typed, Buckets
    <2>3. PICK b : b = AddTo(k_buckets[i], id)
      OBVIOUS
    <2>4. Good(b) /\ b.range_min = k_buckets[i].range_min /\ b.range_max = k_buckets[i].range_max
      BY <2>2, <2>3, AddToGood
    <2>5. k_buckets' = [k_buckets EXCEPT ![i] = b]
      BY <1>2, <2>3 DEF AddToBucket
    <2>6. Buckets(k_buckets') /\ Leads(bucket_upper_address, k_buckets')
      BY <2>1, <2>2, <2>4, <2>5, BucketChanged
    <2>7. UNCHANGED <<bucket_upper_address, wild>> /\ Answer(id, 0)
      BY <1>2 DEF AddToBucket, KeepRanges
    <2> QED
      BY <2>6, <2>7, AnswerTyped DEF Typed
  <1>3. CASE AddSplit(id)
    <2>1. i \in DOMAIN k_buckets
      BY <1>0, <1>3, IndexFound DEF AddSplit
    <2>2. SplitKbucket(i) /\ adding' = id /\ reply' = NoReply /\ UNCHANGED wild
      BY <1>3 DEF AddSplit
    <2>3. Buckets(k_buckets') /\ Leads(bucket_upper_address', k_buckets')
      BY <2>1, <2>2, SplitTyped
    <2> QED
      BY <2>2, <2>3 DEF Typed, NoReply
  <1>4. CASE AddRefused(id)
    BY <1>4, AnswerTyped DEF AddRefused, KeepRanges, Typed
  <1>5. CASE AddForce(id)
    <2>1. i \in DOMAIN k_buckets
      BY <1>0, <1>5, IndexFound DEF AddForce
    <2>2. Buckets(k_buckets) /\ Good(k_buckets[i]) /\ Leads(bucket_upper_address, k_buckets)
      BY <2>1 DEF Typed, Buckets
    <2>3. UNCHANGED bucket_upper_address
      BY <1>5 DEF AddForce, KeepRanges
    <2>4. ASSUME NEW x, k_buckets' = [k_buckets EXCEPT ![i] = AddTo(RemoveFrom(@, x), id)],
                 Answer(id, 0), UNCHANGED wild
          PROVE  Typed'
      <3>1. PICK b : b = AddTo(RemoveFrom(k_buckets[i], x), id)
        OBVIOUS
      <3>2. Good(b) /\ b.range_min = k_buckets[i].range_min /\ b.range_max = k_buckets[i].range_max
        BY <2>2, <3>1, AddToGood, RemoveFromIs
      <3>3. k_buckets' = [k_buckets EXCEPT ![i] = b]
        BY <2>4, <3>1
      <3>4. Buckets(k_buckets') /\ Leads(bucket_upper_address, k_buckets')
        BY <2>1, <2>2, <3>2, <3>3, BucketChanged
      <3> QED
        BY <2>3, <2>4, <3>4, AnswerTyped DEF Typed
    <2>5. ASSUME Answer(id, 2), wild' = TRUE \/ UNCHANGED wild, UNCHANGED k_buckets
          PROVE  Typed'
      BY <2>3, <2>5, AnswerTyped DEF Typed
    <2> QED
      BY <1>5, <2>4, <2>5 DEF AddForce
  <1> QED
    BY <1>1, <1>2, <1>3, <1>4, <1>5 DEF AddRound

LEMMA RemoveTyped ==
    ASSUME Typed, NEW key \in Keys, RemoveContact(key)
    PROVE  Typed'
  <1> DEFINE i == KBucketIndex(key)
  <1>1. wild' \in BOOLEAN
    BY Zenon DEF RemoveContact, Lookup
  <1>2. UNCHANGED <<bucket_upper_address, adding>> /\ reply' = NoReply
    BY DEF RemoveContact, KeepRanges
  <1>3. Buckets(k_buckets') /\ Leads(bucket_upper_address, k_buckets')
    <2>1. CASE wild'
      BY <2>1 DEF RemoveContact, Typed
    <2>2. CASE ~wild'
      <3>1. i \in DOMAIN k_buckets
        BY <2>2 DEF RemoveContact, Lookup
      <3>2. Buckets(k_buckets) /\ Good(k_buckets[i]) /\ Leads(bucket_upper_address, k_buckets)
        BY <3>1 DEF Typed, Buckets
      <3>3. PICK b : b = RemoveFrom(k_buckets[i], key)
        OBVIOUS
      <3>4. Good(b) /\ b.range_min = k_buckets[i].range_min /\ b.range_max = k_buckets[i].range_max
        BY <3>2, <3>3, RemoveFromIs
      <3>5. k_buckets' = [k_buckets EXCEPT ![i] = b]
        BY <2>2, <3>3 DEF RemoveContact
      <3> QED
        BY <3>1, <3>2, <3>4, <3>5, BucketChanged
    <2> QED
      BY <2>1, <2>2
  <1> QED
    BY <1>1, <1>2, <1>3 DEF Typed, NoReply

LEMMA TouchTyped ==
    ASSUME Typed, NEW key \in Keys, TouchKBucket(key)
    PROVE  Typed'
  <1> DEFINE i == KBucketIndex(key)
  <1>1. wild' \in BOOLEAN
    BY Zenon DEF TouchKBucket, Lookup
  <1>2. UNCHANGED <<bucket_upper_address, adding, reply>>
    BY DEF TouchKBucket, KeepRanges
  <1>3. Buckets(k_buckets') /\ Leads(bucket_upper_address, k_buckets')
    <2>1. CASE wild'
      BY <2>1 DEF TouchKBucket, Typed
    <2>2. CASE ~wild'
      <3>1. i \in DOMAIN k_buckets
        BY <2>2 DEF TouchKBucket, Lookup
      <3>2. Buckets(k_buckets) /\ Good(k_buckets[i]) /\ Leads(bucket_upper_address, k_buckets)
        BY <3>1 DEF Typed, Buckets
      <3>3. PICK b : b = [k_buckets[i] EXCEPT !.last_accessed = Now]
        OBVIOUS
      <3>4. Good(b) /\ b.range_min = k_buckets[i].range_min /\ b.range_max = k_buckets[i].range_max
        BY <3>2, <3>3 DEF Good, Bucket
      <3>5. k_buckets' = [k_buckets EXCEPT ![i] = b]
        BY <2>2, <3>3 DEF TouchKBucket
      <3> QED
        BY <3>1, <3>2, <3>4, <3>5, BucketChanged
    <2> QED
      BY <2>1, <2>2
  <1> QED
    BY <1>1, <1>2, <1>3 DEF Typed

LEMMA OneBucketTyped ==
    ASSUME NEW min \in MinIds
    PROVE  Buckets(OneBucket(min)) /\ Leads(UpperAddresses(OneBucket(min)), OneBucket(min))
  <1> DEFINE b == NewBucket(min, MaxId)
  <1>1. Good(b) /\ b.range_max = MaxId
    BY TableAssumption, KBucketAssumption, EmptySeq DEF NewBucket, Good, Bucket, Holds, IsInjective
  <1>2. b \in Bucket
    BY <1>1 DEF Good
  <1> HIDE DEF b
  <1>3. <<b>> \in Seq(Bucket) /\ Len(<<b>>) = 1 /\ DOMAIN <<b>> = {1} /\ <<b>>[1] = b
    BY <1>2
  <1>4. Buckets(<<b>>)
    BY <1>1, <1>3 DEF Buckets
  <1>5. Leads(UpperAddresses(<<b>>), <<b>>)
    BY <1>3, UpperAddressesLead
  <1> QED
    BY <1>4, <1>5 DEF OneBucket, b

LEMMA TypedKept ==
    ASSUME Typed, [Next]_vars
    PROVE  Typed'
  <1>1. ASSUME NEW id \in Ids, AddContact(id) PROVE Typed'
    BY <1>1, AddRoundTyped DEF AddContact
  <1>2. CASE AddContactAgain
    BY <1>2, AddRoundTyped DEF AddContactAgain, Typed
  <1>3. ASSUME NEW key \in Keys, RemoveContact(key) PROVE Typed'
    BY <1>3, RemoveTyped
  <1>4. ASSUME NEW key \in Keys, TouchKBucket(key) PROVE Typed'
    BY <1>4, TouchTyped
  <1>5. CASE Clear
    <2>1. PICK min \in MinIds : k_buckets' = OneBucket(min)
      BY <1>5 DEF Clear
    <2> QED
      BY <1>5, <2>1, OneBucketTyped DEF Clear, Typed, NoReply
  <1>6. CASE UNCHANGED vars
    BY <1>6 DEF vars, Typed
  <1> QED
    BY <1>1, <1>2, <1>3, <1>4, <1>5, <1>6 DEF Next

LEMMA InitTyped == Init => Typed
  <1> SUFFICES ASSUME Init PROVE Typed
    OBVIOUS
  <1>1. PICK min \in MinIds : k_buckets = OneBucket(min)
    BY DEF Init
  <1> QED
    BY <1>1, OneBucketTyped DEF Init, Typed, NoReply

\* Whatever lower end KadID() hashes and whatever bit Rossi::operator>> reads past its units, no
\* bucket holds more than K_ contacts or one twice, and bucket_upper_address_ leads to the bucket
\* that ends there (kadroutingtable.cpp:100-168, 229-238).
THEOREM TypesHold == Spec => []TypeOK
  <1>1. Typed /\ [Next]_vars => Typed'
    BY TypedKept
  <1>2. Typed => TypeOK
    BY TypedMeansTypeOK
  <1> QED
    BY InitTyped, <1>1, <1>2, PTL DEF Spec

-----------------------------------------------------------------------------
(* The holder's buckets.                                                   *)

LEMMA HolderRangesKept ==
    ASSUME Typed, HolderBucketsKnown, SameRanges(k_buckets, k_buckets'),
           UNCHANGED <<bucket_of_holder, brother_bucket_of_holder>>
    PROVE  HolderBucketsKnown'
  BY DEF HolderBucketsKnown, SameRanges, KeyInRange

\* A bucket the holder is in leaves it in one of its halves.
LEMMA HolderSplit ==
    ASSUME Typed, NEW i \in DOMAIN k_buckets, SplitKbucket(i), KeyInRange(k_buckets[i], Holder)
    PROVE  HolderBucketsKnown'
  <1> DEFINE b == k_buckets[i]
             n == Len(k_buckets)
  <1>1. PICK m \in Nat :
          /\ Replaced(k_buckets, i, LeftHalf(b, m), RightHalf(b, m), k_buckets')
          /\ bucket_of_holder' = IF KeyInRange(LeftHalf(b, m), Holder) THEN i ELSE i + 1
          /\ brother_bucket_of_holder' = IF KeyInRange(LeftHalf(b, m), Holder) THEN i + 1 ELSE i
    BY SplitIs
  <1>2. /\ n \in Nat /\ i \in 1 .. n /\ b.range_min \in Nat /\ b.range_max \in Nat
        /\ Holder \in Nat /\ b.range_min <= Holder /\ Holder <= b.range_max
    BY LenProperties, TableAssumption DEF Typed, Buckets, Good, Bucket, KeyInRange
  <1>3. /\ Len(k_buckets') = n + 1 /\ DOMAIN k_buckets' = 1 .. n + 1
        /\ k_buckets'[i] = LeftHalf(b, m) /\ k_buckets'[i + 1] = RightHalf(b, m)
    BY <1>1, LenProperties DEF Replaced
  <1>4. CASE KeyInRange(LeftHalf(b, m), Holder)
    BY <1>1, <1>2, <1>3, <1>4 DEF HolderBucketsKnown
  <1>5. CASE ~KeyInRange(LeftHalf(b, m), Holder)
    <2>1. KeyInRange(RightHalf(b, m), Holder)
      BY <1>2, <1>5 DEF KeyInRange, LeftHalf, RightHalf
    <2> QED
      BY <1>1, <1>2, <1>3, <1>5, <2>1 DEF HolderBucketsKnown
  <1> QED
    BY <1>4, <1>5

LEMMA SameRangesRefl ==
    ASSUME UNCHANGED k_buckets
    PROVE  SameRanges(k_buckets, k_buckets')
  BY DEF SameRanges

LEMMA AddRoundRanges ==
    ASSUME Typed, NEW id \in Ids, AddRound(id), ~AddSplit(id)
    PROVE  SameRanges(k_buckets, k_buckets') /\ KeepRanges
  <1> DEFINE i == KBucketIndex(id)
  <1>0. id \in Nat
    BY IdsAreNat
  <1>1. CASE AddOutOfSpace(id)
    BY <1>1, SameRangesRefl DEF AddOutOfSpace
  <1>2. CASE AddToBucket(id)
    <2>1. i \in DOMAIN k_buckets
      BY <1>0, <1>2, IndexFound DEF AddToBucket
    <2>2. Buckets(k_buckets) /\ Good(k_buckets[i])
      BY <2>1 DEF Typed, Buckets
    <2>3. PICK b : b = AddTo(k_buckets[i], id)
      OBVIOUS
    <2>4. Good(b) /\ b.range_min = k_buckets[i].range_min /\ b.range_max = k_buckets[i].range_max
      BY <2>2, <2>3, AddToGood
    <2>5. k_buckets' = [k_buckets EXCEPT ![i] = b] /\ KeepRanges
      BY <1>2, <2>3 DEF AddToBucket
    <2> QED
      BY <2>1, <2>2, <2>4, <2>5, BucketChanged
  <1>3. CASE AddRefused(id)
    BY <1>3, SameRangesRefl DEF AddRefused
  <1>4. CASE AddForce(id)
    <2>1. i \in DOMAIN k_buckets
      BY <1>0, <1>4, IndexFound DEF AddForce
    <2>2. Buckets(k_buckets) /\ Good(k_buckets[i])
      BY <2>1 DEF Typed, Buckets
    <2>3. ASSUME NEW x, k_buckets' = [k_buckets EXCEPT ![i] = AddTo(RemoveFrom(@, x), id)]
          PROVE  SameRanges(k_buckets, k_buckets')
      <3>1. PICK b : b = AddTo(RemoveFrom(k_buckets[i], x), id)
        OBVIOUS
      <3>2. Good(b) /\ b.range_min = k_buckets[i].range_min /\ b.range_max = k_buckets[i].range_max
        BY <2>2, <3>1, AddToGood, RemoveFromIs
      <3>3. k_buckets' = [k_buckets EXCEPT ![i] = b]
        BY <2>3, <3>1
      <3> QED
        BY <2>1, <2>2, <3>2, <3>3, BucketChanged
    <2> QED
      BY <1>4, <2>3, SameRangesRefl DEF AddForce
  <1> QED
    BY <1>1, <1>2, <1>3, <1>4 DEF AddRound

LEMMA RemoveEffect ==
    ASSUME Typed, NEW key \in Keys, RemoveContact(key)
    PROVE  SameRanges(k_buckets, k_buckets') /\ KeepRanges
  <1> DEFINE i == KBucketIndex(key)
  <1>1. CASE wild'
    BY <1>1, SameRangesRefl DEF RemoveContact
  <1>2. CASE ~wild'
    <2>1. i \in DOMAIN k_buckets /\ Buckets(k_buckets) /\ Good(k_buckets[i])
      BY <1>2 DEF RemoveContact, Lookup, Typed, Buckets
    <2>2. PICK b : b = RemoveFrom(k_buckets[i], key)
      OBVIOUS
    <2>3. Good(b) /\ b.range_min = k_buckets[i].range_min /\ b.range_max = k_buckets[i].range_max
      BY <2>1, <2>2, RemoveFromIs
    <2>4. k_buckets' = [k_buckets EXCEPT ![i] = b] /\ KeepRanges
      BY <1>2, <2>2 DEF RemoveContact
    <2> QED
      BY <2>1, <2>3, <2>4, BucketChanged
  <1> QED
    BY <1>1, <1>2 DEF RemoveContact

LEMMA TouchEffect ==
    ASSUME Typed, NEW key \in Keys, TouchKBucket(key)
    PROVE  /\ SameRanges(k_buckets, k_buckets') /\ KeepRanges
           /\ \A j \in DOMAIN k_buckets : k_buckets'[j].contacts = k_buckets[j].contacts
  <1> DEFINE i == KBucketIndex(key)
  <1>1. CASE wild'
    BY <1>1, SameRangesRefl DEF TouchKBucket
  <1>2. CASE ~wild'
    <2>1. i \in DOMAIN k_buckets /\ Buckets(k_buckets) /\ Good(k_buckets[i])
      BY <1>2 DEF TouchKBucket, Lookup, Typed, Buckets
    <2>2. PICK b : b = [k_buckets[i] EXCEPT !.last_accessed = Now]
      OBVIOUS
    <2>3. /\ Good(b) /\ b.range_min = k_buckets[i].range_min /\ b.range_max = k_buckets[i].range_max
          /\ b.contacts = k_buckets[i].contacts
      BY <2>1, <2>2 DEF Good, Bucket
    <2>4. k_buckets' = [k_buckets EXCEPT ![i] = b] /\ KeepRanges
      BY <1>2, <2>2 DEF TouchKBucket
    <2>5. \A j \in DOMAIN k_buckets : k_buckets'[j].contacts = k_buckets[j].contacts
      BY <2>1, <2>3, <2>4 DEF Buckets
    <2> QED
      BY <2>1, <2>3, <2>4, <2>5, BucketChanged
  <1> QED
    BY <1>1, <1>2 DEF TouchKBucket

LEMMA HolderKept ==
    ASSUME K > 2, Typed, HolderBucketsKnown, [Next]_vars
    PROVE  HolderBucketsKnown'
  <1>1. ASSUME NEW id \in Ids, AddRound(id)
        PROVE  HolderBucketsKnown'
    <2>1. CASE AddSplit(id)
      <3>1. /\ KBucketIndex(id) \in DOMAIN k_buckets
            /\ SplitKbucket(KBucketIndex(id)) /\ KeyInRange(k_buckets[KBucketIndex(id)], Holder)
        BY <2>1, IdsAreNat, IndexFound, KBucketAssumption DEF AddSplit, MaySplit
      <3> QED
        BY <3>1, HolderSplit
    <2>2. CASE ~AddSplit(id)
      BY <1>1, <2>2, AddRoundRanges, HolderRangesKept DEF KeepRanges
    <2> QED
      BY <2>1, <2>2
  <1>2. ASSUME NEW id \in Ids, AddContact(id) PROVE HolderBucketsKnown'
    BY <1>1, <1>2 DEF AddContact
  <1>3. CASE AddContactAgain
    BY <1>1, <1>3 DEF AddContactAgain, Typed
  <1>4. ASSUME NEW key \in Keys, RemoveContact(key) \/ TouchKBucket(key)
        PROVE  HolderBucketsKnown'
    BY <1>4, RemoveEffect, TouchEffect, HolderRangesKept DEF KeepRanges
  <1>5. CASE Clear
    <2>1. Len(k_buckets') = 1
      BY <1>5 DEF Clear, OneBucket
    <2> QED
      BY <2>1 DEF HolderBucketsKnown
  <1>6. CASE UNCHANGED vars
    BY <1>6 DEF vars, HolderBucketsKnown
  <1> QED
    BY <1>2, <1>3, <1>4, <1>5, <1>6 DEF Next

LEMMA InitHolder == Init => HolderBucketsKnown
  BY DEF Init, OneBucket, HolderBucketsKnown

\* Once the table has been split the two indices ForceKAcceptNewPeer reads are the holder's bucket
\* and the one beside it.  With K_ of 1 or 2 any bucket is split, and SplitKbucket then sets
\* them to halves the holder is in neither of (kadroutingtable.cpp:136-142, 153).
THEOREM HolderBucketsKnownHolds == K > 2 => (Spec => []HolderBucketsKnown)
  <1> SUFFICES ASSUME K > 2 PROVE Spec => []HolderBucketsKnown
    OBVIOUS
  <1>1. Typed /\ [Next]_vars => Typed'
    BY TypedKept
  <1>2. Typed /\ HolderBucketsKnown /\ [Next]_vars => HolderBucketsKnown'
    BY HolderKept
  <1> QED
    BY InitTyped, InitHolder, <1>1, <1>2, PTL DEF Spec

-----------------------------------------------------------------------------
(* The buckets in the order of their ranges.                               *)

\* KadID(), a hash of 160 bits, lies below KadID::KMaxID(), which has 532.
LowerEndInside == \A min \in MinIds : min < MaxId

Ascend(bs) == \A i, j \in DOMAIN bs : i < j => bs[i].range_max <= bs[j].range_max

\* Every range begins one below the end of the range before it, and ends no lower.
Meet(bs) ==
    /\ \A i \in DOMAIN bs : bs[i].range_min < bs[i].range_max
    /\ \A i \in DOMAIN bs : i > 1 => bs[i].range_min + 1 = bs[i - 1].range_max
    /\ Ascend(bs)

\* Of the identifiers in two ranges the lower bucket has them.
Belongs(bs, i, id) ==
    /\ id <= bs[i].range_max
    /\ i > 1 => bs[i - 1].range_max < id

\* The contacts from the lower end of the table on: the others go where no range has them.
AllBelong(bs) ==
    \A i \in DOMAIN bs : \A id \in Members(bs[i]) : id >= bs[1].range_min => Belongs(bs, i, id)

LEMMA MembersAreIds ==
    ASSUME NEW b, Good(b)
    PROVE  Members(b) \subseteq Ids /\ Members(b) \subseteq Nat
  <1>1. \A i \in DOMAIN b.contacts : b.contacts[i] \in Ids
    BY LenProperties, ElementOfSeq DEF Good, Holds
  <1> QED
    BY <1>1, IdsAreNat DEF Members, ToSet

LEMMA BucketNumbers ==
    ASSUME NEW bs, Buckets(bs)
    PROVE  /\ DOMAIN bs = 1 .. Len(bs) /\ Len(bs) \in Nat /\ Len(bs) > 0
           /\ \A i \in DOMAIN bs : /\ Good(bs[i])
                                   /\ bs[i].range_min \in Nat /\ bs[i].range_max \in Nat
           /\ bs[Len(bs)].range_max = MaxId
  BY LenProperties DEF Buckets, Good, Bucket

\* The index of a key is the bucket it belongs to.
LEMMA IndexBelongs ==
    ASSUME Typed, Meet(k_buckets), NEW id \in Nat, id <= MaxId
    PROVE  /\ KBucketIndex(id) \in DOMAIN k_buckets
           /\ Belongs(k_buckets, KBucketIndex(id), id)
           /\ \A i \in DOMAIN k_buckets : Belongs(k_buckets, i, id) => KBucketIndex(id) = i
  <1>1. PICK k : k = KBucketIndex(id)
    OBVIOUS
  <1>2. /\ k \in DOMAIN k_buckets /\ id <= k_buckets[k].range_max
        /\ \A j \in DOMAIN k_buckets : id <= k_buckets[j].range_max
                => k_buckets[k].range_max <= k_buckets[j].range_max
        /\ \A j \in 1 .. k - 1 : k_buckets[j].range_max # k_buckets[k].range_max
    BY <1>1, IndexFound
  <1>3. /\ DOMAIN k_buckets = 1 .. Len(k_buckets) /\ Len(k_buckets) \in Nat
        /\ \A j \in DOMAIN k_buckets : k_buckets[j].range_max \in Nat
    BY BucketNumbers DEF Typed
  <1>4. \A i, j \in DOMAIN k_buckets : i < j => k_buckets[i].range_max <= k_buckets[j].range_max
    BY DEF Meet, Ascend
  <1>5. ASSUME k > 1 PROVE k_buckets[k - 1].range_max < id
    <2>1. k - 1 \in DOMAIN k_buckets /\ k - 1 < k /\ k - 1 \in 1 .. k - 1
      BY <1>2, <1>3, <1>5
    <2>2. k_buckets[k - 1].range_max <= k_buckets[k].range_max
          /\ k_buckets[k - 1].range_max # k_buckets[k].range_max
      BY <1>2, <1>4, <2>1
    <2> QED
      BY <1>2, <1>3, <2>1, <2>2
  <1>6. ASSUME NEW i \in DOMAIN k_buckets, Belongs(k_buckets, i, id)
        PROVE  k = i
    <2>2. ~(i < k)
      <3> SUFFICES ASSUME i < k PROVE FALSE
        OBVIOUS
      <3>1. k > 1 /\ k - 1 \in DOMAIN k_buckets /\ (i = k - 1 \/ i < k - 1)
        BY <1>2, <1>3
      <3>2. k_buckets[k - 1].range_max < id /\ id <= k_buckets[i].range_max
        BY <1>5, <1>6, <3>1 DEF Belongs
      <3>3. k_buckets[i].range_max <= k_buckets[k - 1].range_max
        BY <1>2, <1>3, <1>4, <3>1
      <3> QED
        BY <1>2, <1>3, <3>1, <3>2, <3>3
    <2>3. ~(k < i)
      <3> SUFFICES ASSUME k < i PROVE FALSE
        OBVIOUS
      <3>1. i > 1 /\ i - 1 \in DOMAIN k_buckets /\ (k = i - 1 \/ k < i - 1)
        BY <1>2, <1>3
      <3>2. k_buckets[i - 1].range_max < id
        BY <1>6, <3>1 DEF Belongs
      <3>3. k_buckets[k].range_max <= k_buckets[i - 1].range_max
        BY <1>2, <1>3, <1>4, <3>1
      <3> QED
        BY <1>2, <1>3, <3>1, <3>2, <3>3
    <2> QED
      BY <1>2, <1>3, <2>2, <2>3
  <1> QED
    BY <1>1, <1>2, <1>5, <1>6 DEF Belongs

LEMMA BelongsInSpace ==
    ASSUME NEW bs, Buckets(bs), Meet(bs), NEW i \in DOMAIN bs, NEW id \in Nat, Belongs(bs, i, id)
    PROVE  id <= MaxId
  <1>1. i = Len(bs) \/ bs[i].range_max <= bs[Len(bs)].range_max
    BY BucketNumbers DEF Meet, Ascend
  <1> QED
    BY <1>1, BucketNumbers, TableAssumption DEF Belongs

\* What belongs to a bucket is in its range.
LEMMA BelongsInRange ==
    ASSUME NEW bs, Buckets(bs), Meet(bs), NEW i \in DOMAIN bs,
           NEW id \in Ids, id >= bs[1].range_min, Belongs(bs, i, id)
    PROVE  bs[i].range_min <= id /\ id <= bs[i].range_max
  <1>1. id \in Nat /\ bs[i].range_min \in Nat /\ i \in Nat /\ i > 0
    BY BucketNumbers, IdsAreNat
  <1>2. CASE i = 1
    BY <1>1, <1>2 DEF Belongs
  <1>3. CASE i > 1
    <2>1. bs[i].range_min + 1 = bs[i - 1].range_max /\ bs[i - 1].range_max < id
      BY <1>3 DEF Meet, Belongs
    <2> QED
      BY <1>1, <2>1 DEF Belongs
  <1> QED
    BY <1>1, <1>2, <1>3

\* A half ends no lower than its bucket begins, whatever bits stand past the units.
LEMMA HalvesAbove ==
    ASSUME NEW min \in Nat, NEW max \in Nat, min < max, NEW s1 \in StrayBits, NEW s2 \in StrayBits
    PROVE  min <= SplitMax1(min, max, s1, s2)
  <1>1. s1 \in Nat /\ s2 \in Nat /\ HighBit \in Nat
    BY KBucketAssumption
  <1>2. \A s \in Nat : s * HighBit \in Nat
    BY <1>1
  <1>3. s1 * HighBit \in Nat /\ s2 * HighBit \in Nat
    BY <1>1, <1>2
  <1>4. \A p, q \in Nat : min <= (min \div 2 + p) + (max \div 2 + q)
    OBVIOUS
  <1> QED
    BY <1>3, <1>4, Zenon DEF SplitMax1, HalfOf

\* A split leaves the other ranges as they are, and the right half ends where the bucket did.
LEMMA SplitAscends ==
    ASSUME Typed, NEW i \in DOMAIN k_buckets, SplitKbucket(i), Ascend(k_buckets')
    PROVE  Ascend(k_buckets)
  <1> DEFINE b == k_buckets[i]
             n == Len(k_buckets)
             at(j) == IF j < i THEN j ELSE j + 1
  <1>1. PICK m \in Nat : Replaced(k_buckets, i, LeftHalf(b, m), RightHalf(b, m), k_buckets')
    BY SplitIs
  <1>2. n \in Nat /\ i \in 1 .. n /\ DOMAIN k_buckets = 1 .. n
    BY BucketNumbers DEF Typed
  <1>3. PICK bs : bs = k_buckets'
    OBVIOUS
  <1>4. /\ DOMAIN bs = 1 .. n + 1
        /\ \A j \in 1 .. i - 1 : bs[j] = k_buckets[j]
        /\ bs[i + 1].range_max = b.range_max
        /\ \A j \in i + 2 .. n + 1 : bs[j] = k_buckets[j - 1]
    BY <1>1, <1>3, LenProperties DEF Replaced, RightHalf
  <1>5. ASSUME NEW j \in 1 .. n
        PROVE  at(j) \in 1 .. n + 1 /\ bs[at(j)].range_max = k_buckets[j].range_max
    <2>1. CASE j < i
      BY <1>2, <1>4, <2>1
    <2>2. CASE j = i
      BY <1>2, <1>4, <2>2
    <2>3. CASE j > i
      <3>1. j + 1 \in i + 2 .. n + 1 /\ (j + 1) - 1 = j /\ at(j) = j + 1
        BY <1>2, <2>3
      <3> QED
        BY <1>2, <1>4, <3>1
    <2> QED
      BY <1>2, <2>1, <2>2, <2>3
  <1>6. \A j, k \in 1 .. n : j < k => at(j) < at(k)
    BY <1>2
  <1>7. \A j, k \in 1 .. n + 1 : j < k => bs[j].range_max <= bs[k].range_max
    BY <1>3, <1>4 DEF Ascend
  <1> HIDE DEF at
  <1>8. \A j, k \in 1 .. n : j < k => k_buckets[j].range_max <= k_buckets[k].range_max
    BY <1>5, <1>6, <1>7
  <1> QED
    BY <1>2, <1>8 DEF Ascend

\* What a split makes of the ranges and of the contacts: every contact goes to the half it
\* belongs to, although both halves' ranges hold the two identifiers in the middle.
LEMMA SplitMeets ==
    ASSUME Typed, Meet(k_buckets), AllBelong(k_buckets), NEW i \in DOMAIN k_buckets,
           SplitKbucket(i), Ascend(k_buckets')
    PROVE  Meet(k_buckets') /\ AllBelong(k_buckets')
  <1> DEFINE b == k_buckets[i]
             n == Len(k_buckets)
  <1>1. PICK s1 \in StrayBits, s2 \in StrayBits, m \in Nat :
          /\ m = SplitMax1(b.range_min, b.range_max, s1, s2)
          /\ Replaced(k_buckets, i, LeftHalf(b, m), RightHalf(b, m), k_buckets')
          /\ Members(LeftHalf(b, m)) = LeftOf(b, m)
          /\ Members(RightHalf(b, m)) = Members(b) \ LeftOf(b, m)
    BY SplitIs
  <1>2. /\ n \in Nat /\ i \in 1 .. n /\ DOMAIN k_buckets = 1 .. n /\ Buckets(k_buckets)
        /\ \A j \in 1 .. n : /\ Good(k_buckets[j])
                             /\ k_buckets[j].range_min \in Nat /\ k_buckets[j].range_max \in Nat
    BY BucketNumbers DEF Typed
  <1> DEFINE left  == LeftHalf(b, m)
             right == RightHalf(b, m)
  <1>4. /\ b.range_min < b.range_max
        /\ \A j \in 1 .. n : k_buckets[j].range_min < k_buckets[j].range_max
        /\ \A j \in 1 .. n : j > 1 => k_buckets[j].range_min + 1 = k_buckets[j - 1].range_max
    BY <1>2 DEF Meet
  <1>5. /\ left.range_min = b.range_min /\ left.range_max = m + 1
        /\ right.range_min = m /\ right.range_max = b.range_max
    BY DEF LeftHalf, RightHalf
  <1>6. /\ Members(left) = LeftOf(b, m)
        /\ Members(right) = Members(b) \ LeftOf(b, m)
    BY <1>1
  <1>7. PICK bs : bs = k_buckets'
    OBVIOUS
  <1> HIDE DEF left, right
  <1>8. /\ DOMAIN bs = 1 .. n + 1 /\ Len(bs) = n + 1
        /\ \A j \in 1 .. i - 1 : bs[j] = k_buckets[j]
        /\ bs[i] = left /\ bs[i + 1] = right
        /\ \A j \in i + 2 .. n + 1 : bs[j] = k_buckets[j - 1]
    BY <1>1, <1>7, LenProperties DEF Replaced, left, right
  <1>9. ASSUME NEW j \in 1 .. n + 1
        PROVE  \/ j \in 1 .. i - 1 /\ j \in 1 .. n
               \/ j = i \/ j = i + 1
               \/ j \in i + 2 .. n + 1 /\ j - 1 \in 1 .. n
    BY <1>2
  <1>10. b.range_min <= m /\ m + 1 <= b.range_max
    <2>1. b.range_min <= m
      BY <1>1, <1>2, <1>4, HalvesAbove
    <2>2. i \in DOMAIN bs /\ i + 1 \in DOMAIN bs /\ i < i + 1
      BY <1>2, <1>8
    <2>3. bs[i].range_max <= bs[i + 1].range_max
      BY <1>7, <2>2 DEF Ascend
    <2> QED
      BY <1>5, <1>8, <2>1, <2>3
  <1>11. ASSUME NEW j \in 1 .. n + 1
         PROVE  bs[j].range_min < bs[j].range_max
    <2>1. CASE j \in 1 .. i - 1
      BY <1>2, <1>4, <1>8, <1>9, <2>1
    <2>2. CASE j = i
      BY <1>2, <1>5, <1>8, <1>10, <2>2
    <2>3. CASE j = i + 1
      BY <1>2, <1>5, <1>8, <1>10, <2>3
    <2>4. CASE j \in i + 2 .. n + 1
      <3>1. j - 1 \in 1 .. n /\ bs[j] = k_buckets[j - 1]
        BY <1>2, <1>8, <2>4
      <3>2. k_buckets[j - 1].range_min < k_buckets[j - 1].range_max
        BY <1>4, <3>1
      <3> QED
        BY <3>1, <3>2
    <2> QED
      BY <1>9, <2>1, <2>2, <2>3, <2>4
  <1>12. i > 1 => b.range_min + 1 = k_buckets[i - 1].range_max
    BY <1>2, <1>4
  <1>13. ASSUME NEW j \in 1 .. n + 1, j > 1
         PROVE  bs[j].range_min + 1 = bs[j - 1].range_max
    <2>1. CASE j \in 1 .. i - 1
      <3>1. j - 1 \in 1 .. i - 1 /\ j \in 1 .. n
        BY <1>2, <1>13, <2>1
      <3> QED
        BY <1>4, <1>8, <1>13, <2>1, <3>1
    <2>2. CASE j = i
      <3>1. i > 1 /\ j - 1 = i - 1 /\ i - 1 \in 1 .. i - 1
        BY <1>2, <1>13, <2>2
      <3>2. bs[j] = left /\ bs[j - 1] = k_buckets[i - 1]
        BY <1>8, <2>2, <3>1
      <3> QED
        BY <1>5, <1>12, <3>1, <3>2
    <2>3. CASE j = i + 1
      BY <1>2, <1>5, <1>8, <2>3
    <2>4. CASE j = i + 2
      <3>1. j - 1 = i + 1 /\ i + 1 \in 1 .. n /\ i + 1 > 1 /\ (i + 1) - 1 = i /\ j \in i + 2 .. n + 1
        BY <1>2, <1>13, <2>4
      <3>2. bs[j] = k_buckets[i + 1] /\ bs[j - 1] = right
        BY <1>8, <3>1
      <3>3. k_buckets[i + 1].range_min + 1 = b.range_max
        BY <1>4, <3>1
      <3> QED
        BY <1>5, <3>2, <3>3
    <2>5. CASE j \in i + 3 .. n + 1
      <3>1. j - 1 \in i + 2 .. n + 1 /\ j \in i + 2 .. n + 1 /\ j - 1 \in 1 .. n /\ j - 1 > 1
        BY <1>2, <2>5
      <3> QED
        BY <1>4, <1>8, <3>1
    <2> QED
      BY <1>2, <1>9, <2>1, <2>2, <2>3, <2>4, <2>5
  <1>14. Meet(bs)
    BY <1>7, <1>8, <1>11, <1>13 DEF Meet
  <1>15. bs[1].range_min = k_buckets[1].range_min
    <2>1. CASE i = 1
      BY <1>5, <1>8, <2>1
    <2>2. CASE i > 1
      BY <1>2, <1>8, <2>2
    <2> QED
      BY <1>2, <2>1, <2>2
  <1>16. \A c \in Members(b) : c >= k_buckets[1].range_min
            => c \in Ids /\ c \in Nat /\ Belongs(k_buckets, i, c) /\ b.range_min <= c
    BY <1>2, MembersAreIds, BelongsInRange DEF AllBelong
  <1>17. ASSUME NEW j \in 1 .. n + 1, NEW c \in Members(bs[j]),
                c >= k_buckets[1].range_min
         PROVE  Belongs(bs, j, c)
    <2>1. CASE j \in 1 .. i - 1
      <3>1. j \in 1 .. n /\ c \in Members(k_buckets[j])
        BY <1>2, <1>8, <1>17, <2>1
      <3>2. Belongs(k_buckets, j, c)
        BY <1>2, <1>17, <3>1 DEF AllBelong
      <3>3. j > 1 => j - 1 \in 1 .. i - 1
        BY <1>2, <2>1
      <3> QED
        BY <1>8, <2>1, <3>2, <3>3 DEF Belongs
    <2>2. CASE j = i
      <3>1. c \in LeftOf(b, m)
        BY <1>6, <1>8, <1>17, <2>2
      <3>2. c \in Members(b) /\ c <= m + 1
        BY <3>1 DEF LeftOf
      <3>3. Belongs(k_buckets, i, c)
        BY <1>16, <1>17, <3>2
      <3>4. i > 1 => i - 1 \in 1 .. i - 1
        BY <1>2
      <3> QED
        BY <1>5, <1>8, <2>2, <3>2, <3>3, <3>4 DEF Belongs
    <2>3. CASE j = i + 1
      <3>1. c \in Members(b) /\ c \notin LeftOf(b, m)
        BY <1>6, <1>8, <1>17, <2>3
      <3>2. c \in Nat /\ b.range_min <= c /\ Belongs(k_buckets, i, c)
        BY <1>16, <1>17, <3>1
      <3>3. m + 1 < c
        BY <3>1, <3>2 DEF LeftOf
      <3>4. c <= b.range_max /\ j - 1 = i
        BY <1>2, <2>3, <3>2 DEF Belongs
      <3> QED
        BY <1>5, <1>8, <2>3, <3>3, <3>4 DEF Belongs
    <2>4. CASE j \in i + 2 .. n + 1
      <3>1. j - 1 \in 1 .. n /\ c \in Members(k_buckets[j - 1]) /\ j - 1 > 1
        BY <1>2, <1>8, <1>17, <2>4
      <3>2. Belongs(k_buckets, j - 1, c)
        BY <1>2, <1>17, <3>1 DEF AllBelong
      <3>3. bs[j - 1].range_max = k_buckets[(j - 1) - 1].range_max
        <4>1. CASE j = i + 2
          BY <1>2, <1>5, <1>8, <4>1
        <4>2. CASE j # i + 2
          <5>1. j - 1 \in i + 2 .. n + 1
            BY <1>2, <2>4, <4>2
          <5> QED
            BY <1>8, <5>1
        <4> QED
          BY <4>1, <4>2
      <3> QED
        BY <1>8, <2>4, <3>1, <3>2, <3>3 DEF Belongs
    <2> QED
      BY <1>9, <2>1, <2>2, <2>3, <2>4
  <1>18. AllBelong(bs)
    BY <1>8, <1>15, <1>17 DEF AllBelong
  <1> QED
    BY <1>7, <1>14, <1>18

-----------------------------------------------------------------------------
(* The order of the distances.                                             *)

\* XOR tells two identifiers apart, from wherever their distance is taken.
DistancesDiffer ==
    \A t, x, y \in Nat : Distance(x, t) \in Nat /\ (Distance(x, t) = Distance(y, t) => x = y)

LEMMA MembersCounted ==
    ASSUME NEW b, Good(b)
    PROVE  IsFiniteSet(Members(b)) /\ Cardinality(Members(b)) = Len(b.contacts)
  <1> DEFINE s == b.contacts
             n == Len(s)
  <1>1. DOMAIN s = 1 .. n /\ n \in Nat /\ IsInjective(s) /\ s \in Seq(Ids)
    BY LenProperties DEF Good, Holds
  <1>2. s \in [1 .. n -> Members(b)] /\ Members(b) = {s[j] : j \in 1 .. n}
    BY <1>1 DEF Members, ToSet
  <1>3. s \in Bijection(1 .. n, Members(b))
    <2>1. s \in Injection(1 .. n, Members(b))
      BY <1>1, <1>2 DEF Injection, IsInjective
    <2>2. s \in Surjection(1 .. n, Members(b))
      BY <1>2 DEF Surjection
    <2> QED
      BY <2>1, <2>2 DEF Bijection
  <1>4. IsFiniteSet(1 .. n) /\ Cardinality(1 .. n) = n
    BY <1>1, FS_Interval
  <1>5. ExistsBijection(1 .. n, Members(b))
    BY <1>3 DEF ExistsBijection
  <1> QED
    BY <1>4, <1>5, FS_Bijection

\* How many members of S are closer to t than x.
CloserThan(S, x, t) == {y \in S : CloserToTarget(y, x, t)}

LEMMA RanksCount ==
    ASSUME DistancesDiffer, NEW S \in SUBSET Nat, IsFiniteSet(S), NEW t \in Nat
    PROVE  /\ \A x \in S : /\ Cardinality(CloserThan(S, x, t)) \in 0 .. Cardinality(S) - 1
                            /\ IsFiniteSet(CloserThan(S, x, t))
           /\ \A x, y \in S : CloserToTarget(x, y, t)
                => Cardinality(CloserThan(S, x, t)) < Cardinality(CloserThan(S, y, t))
           /\ \A x, y \in S :
                Cardinality(CloserThan(S, x, t)) = Cardinality(CloserThan(S, y, t)) => x = y
  <1>1. Cardinality(S) \in Nat
    BY FS_CardinalityType
  <1>2. \A x \in S : Distance(x, t) \in Nat /\ \A y \in S : Distance(x, t) = Distance(y, t) => x = y
    BY DEF DistancesDiffer
  <1>3. ASSUME NEW x \in S
        PROVE  /\ IsFiniteSet(CloserThan(S, x, t))
               /\ Cardinality(CloserThan(S, x, t)) \in 0 .. Cardinality(S) - 1
    <2> DEFINE C == CloserThan(S, x, t)
    <2>1. C \in SUBSET S /\ C # S
      BY <1>2 DEF CloserThan, CloserToTarget
    <2> HIDE DEF C
    <2>2. IsFiniteSet(C) /\ Cardinality(C) <= Cardinality(S) /\ Cardinality(C) # Cardinality(S)
      BY <2>1, FS_Subset
    <2>3. Cardinality(C) \in Nat
      BY <2>2, FS_CardinalityType
    <2>4. Cardinality(C) \in 0 .. Cardinality(S) - 1
      BY <1>1, <2>2, <2>3
    <2> QED
      BY <2>2, <2>4 DEF C
  <1>4. ASSUME NEW x \in S, NEW y \in S, CloserToTarget(x, y, t)
        PROVE  Cardinality(CloserThan(S, x, t)) < Cardinality(CloserThan(S, y, t))
    <2> DEFINE C == CloserThan(S, x, t)
               D == CloserThan(S, y, t)
    <2>1. C \in SUBSET D /\ C # D
      <3>1. Distance(x, t) \in Nat /\ Distance(y, t) \in Nat /\ Distance(x, t) < Distance(y, t)
        BY <1>2, <1>4 DEF CloserToTarget
      <3>2. x \in D /\ x \notin C
        BY <3>1 DEF CloserThan, CloserToTarget
      <3>3. ASSUME NEW z \in C PROVE z \in D
        <4>1. z \in S /\ Distance(z, t) \in Nat /\ Distance(z, t) < Distance(x, t)
          BY <1>2, <3>3 DEF CloserThan, CloserToTarget
        <4> QED
          BY <3>1, <4>1 DEF CloserThan, CloserToTarget
      <3> HIDE DEF C, D
      <3> QED
        BY <3>2, <3>3
    <2>2. IsFiniteSet(C) /\ IsFiniteSet(D)
      BY <1>3
    <2> HIDE DEF C, D
    <2>3. /\ Cardinality(C) <= Cardinality(D) /\ Cardinality(C) # Cardinality(D)
      BY <2>1, <2>2, FS_Subset
    <2>4. Cardinality(C) \in Nat /\ Cardinality(D) \in Nat
      BY <2>2, FS_CardinalityType
    <2>5. Cardinality(C) < Cardinality(D)
      BY <2>3, <2>4
    <2> QED
      BY <2>5 DEF C, D
  <1>5. ASSUME NEW x \in S, NEW y \in S,
               Cardinality(CloserThan(S, x, t)) = Cardinality(CloserThan(S, y, t))
        PROVE  x = y
    <2>1. ~CloserToTarget(x, y, t) /\ ~CloserToTarget(y, x, t)
      <3>1. Cardinality(CloserThan(S, x, t)) \in Nat
        BY <1>3
      <3> QED
        BY <1>4, <1>5, <3>1
    <2> QED
      BY <1>2, <2>1 DEF CloserToTarget
  <1> QED
    BY <1>3, <1>4, <1>5

\* ByDistance lists the members of a set, each once: the n-th has n - 1 closer ones.
LEMMA ByDistanceRanks ==
    ASSUME DistancesDiffer, NEW S \in SUBSET Nat, IsFiniteSet(S), NEW t \in Nat
    PROVE  /\ \A n \in 1 .. Cardinality(S) :
                /\ ByDistance(S, t)[n] \in S
                /\ Cardinality(CloserThan(S, ByDistance(S, t)[n], t)) = n - 1
           /\ \A x \in S : ByDistance(S, t)[Cardinality(CloserThan(S, x, t)) + 1] = x
           /\ Len(ByDistance(S, t)) = Cardinality(S)
  <1> DEFINE size == Cardinality(S)
             rank(x) == Cardinality(CloserThan(S, x, t))
             r == [x \in S |-> rank(x)]
  <1>1. size \in Nat
    BY FS_CardinalityType
  <1>2. /\ \A x \in S : rank(x) \in 0 .. size - 1
        /\ \A x, y \in S : rank(x) = rank(y) => x = y
    BY RanksCount
  <1> HIDE DEF rank
  <1>3. r \in [S -> 0 .. size - 1] /\ \A x \in S : r[x] = rank(x)
    BY <1>2
  <1> HIDE DEF r
  <1>4. r \in Injection(S, 0 .. size - 1)
    BY <1>2, <1>3 DEF Injection, IsInjective
  <1>5. IsFiniteSet(0 .. size - 1) /\ Cardinality(0 .. size - 1) = size
    <2>1. CASE size = 0
      <3>1. IsFiniteSet(0 .. size - 1) /\ 0 .. size - 1 = {}
        BY <1>1, <2>1, FS_Interval
      <3> QED
        BY <2>1, <3>1, FS_EmptySet
    <2>2. CASE size # 0
      <3>1. /\ 0 \in Int /\ size - 1 \in Int /\ ~(0 > size - 1) /\ (size - 1) - 0 + 1 = size
        BY <1>1, <2>2
      <3> QED
        BY <3>1, FS_Interval
    <2> QED
      BY <2>1, <2>2
  <1>6. r \in Surjection(S, 0 .. size - 1)
    BY <1>4, <1>5, FS_Injection
  <1>7. \A k \in 0 .. size - 1 : \E x \in S : rank(x) = k
    BY <1>3, <1>6 DEF Surjection
  <1>8. ByDistance(S, t) = [n \in 1 .. size |-> CHOOSE x \in S : rank(x) = n - 1]
    BY DEF ByDistance, rank, CloserThan
  <1>9. ASSUME NEW n \in 1 .. size
        PROVE  ByDistance(S, t)[n] \in S /\ rank(ByDistance(S, t)[n]) = n - 1
    <2>1. n - 1 \in 0 .. size - 1
      BY <1>1
    <2>2. ByDistance(S, t)[n] = CHOOSE x \in S : rank(x) = n - 1
      BY <1>8
    <2>3. \E x \in S : rank(x) = n - 1
      BY <1>7, <2>1
    <2> QED
      BY <2>2, <2>3, Zenon
  <1>10. ASSUME NEW x \in S
         PROVE  ByDistance(S, t)[rank(x) + 1] = x
    <2>1. rank(x) + 1 \in 1 .. size /\ (rank(x) + 1) - 1 = rank(x)
      BY <1>1, <1>2
    <2> QED
      BY <1>2, <1>9, <2>1
  <1>11. Len(ByDistance(S, t)) = size
    BY <1>1, <1>8
  <1> QED
    BY <1>9, <1>10, <1>11 DEF rank

-----------------------------------------------------------------------------
(* The contacts in the order of the ranges.                                *)

Ordered == Ascend(k_buckets) => Meet(k_buckets) /\ AllBelong(k_buckets)

LEMMA IdFound ==
    ASSUME Typed, NEW id \in Ids, id <= MaxId
    PROVE  /\ KBucketIndex(id) \in DOMAIN k_buckets /\ id \in Nat
           /\ Buckets(k_buckets) /\ Good(k_buckets[KBucketIndex(id)])
  <1>1. id \in Nat
    BY IdsAreNat
  <1> QED
    BY <1>1, IndexFound DEF Typed, Buckets

LEMMA IndexKept ==
    ASSUME UNCHANGED bucket_upper_address, NEW key
    PROVE  KBucketIndex(key)' = KBucketIndex(key)
  BY DEF KBucketIndex

\* One bucket's contacts change; a new one is where its index leads.
OneChanged(i, b) ==
    /\ Good(b) /\ b.range_min = k_buckets[i].range_min /\ b.range_max = k_buckets[i].range_max
    /\ k_buckets' = [k_buckets EXCEPT ![i] = b]
    /\ \A c \in Members(b) : \/ c \in Members(k_buckets[i])
                             \/ c \in Ids /\ c <= MaxId /\ KBucketIndex(c) = i

LEMMA OneChangedRanges ==
    ASSUME Typed, NEW i \in DOMAIN k_buckets, NEW b, OneChanged(i, b)
    PROVE  /\ SameRanges(k_buckets, k_buckets') /\ k_buckets'[i] = b
           /\ \A j \in DOMAIN k_buckets : j # i => k_buckets'[j] = k_buckets[j]
  <1>1. Buckets(k_buckets)
    BY DEF Typed
  <1>2. PICK bs : bs = [k_buckets EXCEPT ![i] = b]
    OBVIOUS
  <1>3. SameRanges(k_buckets, bs)
    BY <1>1, <1>2, BucketChanged DEF OneChanged
  <1>4. bs[i] = b /\ \A j \in DOMAIN k_buckets : j # i => bs[j] = k_buckets[j]
    BY <1>1, <1>2 DEF Buckets
  <1>5. k_buckets' = bs
    BY <1>2 DEF OneChanged
  <1> QED
    BY <1>3, <1>4, <1>5

\* The same ranges, in the same buckets, ascend and meet as they did.
LEMMA RangesKept ==
    ASSUME NEW bs, Buckets(bs), NEW cs, SameRanges(bs, cs)
    PROVE  /\ Ascend(cs) => Ascend(bs)
           /\ Meet(bs) => Meet(cs)
           /\ \A i \in DOMAIN bs : \A id : Belongs(bs, i, id) => Belongs(cs, i, id)
           /\ cs[1].range_min = bs[1].range_min
  <1>1. DOMAIN bs = 1 .. Len(bs) /\ Len(bs) \in Nat /\ Len(bs) > 0
    BY BucketNumbers
  <1>2. /\ DOMAIN cs = DOMAIN bs /\ 1 \in DOMAIN bs
        /\ \A j \in DOMAIN bs : cs[j].range_min = bs[j].range_min /\ cs[j].range_max = bs[j].range_max
    BY <1>1 DEF SameRanges
  <1>3. \A j \in DOMAIN bs : j > 1 => j - 1 \in DOMAIN bs
    BY <1>1
  <1>4. (Ascend(cs) => Ascend(bs)) /\ (Ascend(bs) => Ascend(cs))
    BY <1>2 DEF Ascend
  <1>5. Meet(bs) => Meet(cs)
    BY <1>2, <1>3, <1>4 DEF Meet
  <1>6. \A i \in DOMAIN bs : \A id : Belongs(bs, i, id) => Belongs(cs, i, id)
    BY <1>2, <1>3 DEF Belongs
  <1> QED
    BY <1>2, <1>4, <1>5, <1>6

LEMMA OneChangedOrdered ==
    ASSUME Typed, Ordered, NEW i \in DOMAIN k_buckets, NEW b, OneChanged(i, b)
    PROVE  Ordered'
  <1>1. PICK cs : cs = k_buckets'
    OBVIOUS
  <1>2. /\ SameRanges(k_buckets, cs) /\ cs[i] = b /\ Buckets(k_buckets)
        /\ \A j \in DOMAIN k_buckets : j # i => cs[j] = k_buckets[j]
    BY <1>1, OneChangedRanges DEF Typed
  <1>3. SUFFICES ASSUME Ascend(cs) PROVE Meet(cs) /\ AllBelong(cs)
    BY <1>1 DEF Ordered
  <1>4. Meet(k_buckets) /\ AllBelong(k_buckets)
    BY <1>2, <1>3, RangesKept DEF Ordered
  <1>5. Meet(cs) /\ DOMAIN cs = DOMAIN k_buckets /\ cs[1].range_min = k_buckets[1].range_min
    BY <1>2, <1>4, RangesKept DEF SameRanges
  <1>6. ASSUME NEW j \in DOMAIN k_buckets, NEW c \in Members(cs[j]), c >= k_buckets[1].range_min
        PROVE  Belongs(k_buckets, j, c)
    <2>1. CASE j = i
      <3>1. \/ c \in Members(k_buckets[i])
            \/ c \in Ids /\ c <= MaxId /\ KBucketIndex(c) = i
        BY <1>2, <1>6, <2>1 DEF OneChanged
      <3>2. CASE c \in Members(k_buckets[i])
        BY <1>4, <1>6, <2>1, <3>2 DEF AllBelong
      <3>3. CASE c \in Ids /\ c <= MaxId /\ KBucketIndex(c) = i
        BY <1>4, <2>1, <3>3, IdsAreNat, IndexBelongs
      <3> QED
        BY <3>1, <3>2, <3>3
    <2>2. CASE j # i
      BY <1>2, <1>4, <1>6, <2>2 DEF AllBelong
    <2> QED
      BY <2>1, <2>2
  <1>7. AllBelong(cs)
    BY <1>2, <1>5, <1>6, RangesKept DEF AllBelong
  <1> QED
    BY <1>5, <1>7

LEMMA SameContactsOrdered ==
    ASSUME Typed, Ordered, SameRanges(k_buckets, k_buckets'),
           \A j \in DOMAIN k_buckets : k_buckets'[j].contacts = k_buckets[j].contacts
    PROVE  Ordered'
  <1>1. PICK cs : cs = k_buckets'
    OBVIOUS
  <1>2. Buckets(k_buckets) /\ SameRanges(k_buckets, cs) /\ DOMAIN cs = DOMAIN k_buckets
    BY <1>1 DEF Typed, SameRanges
  <1>3. \A j \in DOMAIN k_buckets : Members(cs[j]) = Members(k_buckets[j])
    BY <1>1 DEF Members
  <1>4. Ascend(cs) => Meet(cs) /\ AllBelong(cs)
    BY <1>2, <1>3, RangesKept DEF Ordered, AllBelong
  <1> QED
    BY <1>1, <1>4 DEF Ordered

LEMMA OneBucketOrdered ==
    ASSUME LowerEndInside, NEW bs, \E min \in MinIds : bs = OneBucket(min)
    PROVE  Meet(bs) /\ AllBelong(bs)
  <1>1. PICK min \in MinIds : bs = OneBucket(min)
    OBVIOUS
  <1>2. /\ DOMAIN bs = {1} /\ bs[1].range_min = min /\ bs[1].range_max = MaxId
        /\ bs[1].contacts = <<>>
    BY <1>1 DEF OneBucket, NewBucket
  <1>3. Members(bs[1]) = {}
    BY <1>2 DEF Members, ToSet
  <1> QED
    BY <1>2, <1>3 DEF LowerEndInside, Meet, Ascend, AllBelong

\* What an addition puts into a bucket, or leaves in it.
LEMMA AddedIs ==
    ASSUME NEW b, Good(b), NEW id \in Ids
    PROVE  Members(AddTo(b, id)) \subseteq Members(b) \cup {id}
  <1>1. CASE Full(b, id)
    <2>1. AddTo(b, id) = RemoveFrom(b, id)
      BY <1>1 DEF AddTo, RemoveFrom, Full
    <2> QED
      BY <2>1, RemoveFromIs
  <1>2. CASE ~Full(b, id)
    BY <1>2, AddToIs
  <1> QED
    BY <1>1, <1>2

\* A round of AddContact splits a bucket, changes one, or changes none.
LEMMA AddRoundIs ==
    ASSUME Typed, NEW id \in Ids, AddRound(id)
    PROVE  \/ UNCHANGED k_buckets /\ KeepRanges
           \/ KeepRanges /\ \E i \in DOMAIN k_buckets : \E b : OneChanged(i, b)
           \/ \E i \in DOMAIN k_buckets : SplitKbucket(i) /\ MaySplit(i)
  <1>1. CASE AddOutOfSpace(id) \/ AddRefused(id)
    BY <1>1 DEF AddOutOfSpace, AddRefused
  <1>2. CASE AddToBucket(id)
    <2>1. PICK i : i = KBucketIndex(id)
      OBVIOUS
    <2>2. i \in DOMAIN k_buckets /\ Good(k_buckets[i]) /\ id <= MaxId
      BY <1>2, <2>1, IdFound DEF AddToBucket
    <2>3. PICK b : b = AddTo(k_buckets[i], id)
      OBVIOUS
    <2>4. OneChanged(i, b)
      BY <1>2, <2>1, <2>2, <2>3, AddToGood, AddedIs DEF OneChanged, AddToBucket
    <2> QED
      BY <1>2, <2>2, <2>4 DEF AddToBucket
  <1>3. CASE AddSplit(id)
    BY <1>3, IdFound DEF AddSplit
  <1>4. CASE AddForce(id)
    <2>1. PICK i : i = KBucketIndex(id)
      OBVIOUS
    <2>2. i \in DOMAIN k_buckets /\ Good(k_buckets[i]) /\ id <= MaxId /\ KeepRanges
      BY <1>4, <2>1, IdFound DEF AddForce
    <2>3. ASSUME NEW x, k_buckets' = [k_buckets EXCEPT ![i] = AddTo(RemoveFrom(@, x), id)]
          PROVE  \E b : OneChanged(i, b)
      <3>1. PICK r : r = RemoveFrom(k_buckets[i], x)
        OBVIOUS
      <3>2. /\ Good(r) /\ Members(r) \subseteq Members(k_buckets[i])
            /\ r.range_min = k_buckets[i].range_min /\ r.range_max = k_buckets[i].range_max
        BY <2>2, <3>1, RemoveFromIs
      <3>3. PICK b : b = AddTo(r, id)
        OBVIOUS
      <3>4. OneChanged(i, b)
        BY <2>1, <2>2, <2>3, <3>1, <3>2, <3>3, AddToGood, AddedIs DEF OneChanged
      <3> QED
        BY <3>4
    <2> QED
      BY <1>4, <2>1, <2>2, <2>3 DEF AddForce
  <1> QED
    BY <1>1, <1>2, <1>3, <1>4 DEF AddRound

LEMMA RemoveIs ==
    ASSUME Typed, NEW key \in Keys, RemoveContact(key)
    PROVE  UNCHANGED k_buckets \/ \E i \in DOMAIN k_buckets : \E b : OneChanged(i, b)
  <1>1. CASE wild'
    BY <1>1 DEF RemoveContact
  <1>2. CASE ~wild'
    <2>1. PICK i : i = KBucketIndex(key)
      OBVIOUS
    <2>2. i \in DOMAIN k_buckets /\ Good(k_buckets[i])
      BY <1>2, <2>1 DEF RemoveContact, Lookup, Typed, Buckets
    <2>3. PICK b : b = RemoveFrom(k_buckets[i], key)
      OBVIOUS
    <2>4. OneChanged(i, b)
      BY <1>2, <2>1, <2>2, <2>3, RemoveFromIs DEF OneChanged, RemoveContact
    <2> QED
      BY <2>2, <2>4
  <1> QED
    BY <1>1, <1>2

LEMMA SplitOrdered ==
    ASSUME Typed, Ordered, NEW i \in DOMAIN k_buckets, SplitKbucket(i)
    PROVE  Ordered'
  <1> SUFFICES ASSUME Ascend(k_buckets') PROVE Meet(k_buckets') /\ AllBelong(k_buckets')
    BY DEF Ordered
  <1>1. Ascend(k_buckets)
    BY SplitAscends
  <1> QED
    BY <1>1, SplitMeets DEF Ordered

LEMMA OrderedKept ==
    ASSUME LowerEndInside, Typed, Ordered, [Next]_vars
    PROVE  Ordered'
  <1>1. CASE UNCHANGED k_buckets
    BY <1>1 DEF Ordered
  <1>2. ASSUME NEW id \in Ids, AddRound(id) PROVE Ordered'
    BY <1>1, <1>2, AddRoundIs, OneChangedOrdered, SplitOrdered
  <1>3. ASSUME NEW id \in Ids, AddContact(id) PROVE Ordered'
    BY <1>2, <1>3 DEF AddContact
  <1>4. CASE AddContactAgain
    BY <1>2, <1>4 DEF AddContactAgain, Typed
  <1>5. ASSUME NEW key \in Keys, RemoveContact(key) PROVE Ordered'
    BY <1>1, <1>5, RemoveIs, OneChangedOrdered
  <1>6. ASSUME NEW key \in Keys, TouchKBucket(key) PROVE Ordered'
    BY <1>6, TouchEffect, SameContactsOrdered
  <1>7. CASE Clear
    <2>1. Meet(k_buckets') /\ AllBelong(k_buckets')
      BY <1>7, OneBucketOrdered DEF Clear
    <2> QED
      BY <2>1 DEF Ordered
  <1>8. CASE UNCHANGED vars
    BY <1>1, <1>8 DEF vars
  <1> QED
    BY <1>3, <1>4, <1>5, <1>6, <1>7, <1>8 DEF Next

LEMMA InitOrdered == LowerEndInside /\ Init => Ordered
  BY OneBucketOrdered DEF Init, Ordered

LEMMA OrderedMeansFindable ==
    ASSUME Typed, Ordered
    PROVE  EveryContactFindable
  <1> SUFFICES ASSUME Ascend(k_buckets), NEW id \in AllContacts, id >= LowerEnd
               PROVE  GetContact(id) /\ Cardinality(HeldIn(id)) = 1
    BY DEF EveryContactFindable, EndsAscend, Ascend
  <1>1. Meet(k_buckets) /\ AllBelong(k_buckets) /\ Buckets(k_buckets)
    BY DEF Ordered, Typed
  <1>2. ASSUME NEW i \in DOMAIN k_buckets, id \in Members(k_buckets[i])
        PROVE  KBucketIndex(id) = i
    <2>1. id \in Nat /\ Belongs(k_buckets, i, id)
      BY <1>1, <1>2, BucketNumbers, MembersAreIds DEF AllBelong, LowerEnd
    <2>2. id <= MaxId
      BY <1>1, <2>1, BelongsInSpace
    <2> QED
      BY <1>1, <2>1, <2>2, IndexBelongs
  <1>3. PICK i \in DOMAIN k_buckets : id \in Members(k_buckets[i])
    BY DEF AllContacts
  <1>4. HeldIn(id) = {i}
    BY <1>2, <1>3 DEF HeldIn
  <1>5. GetContact(id)
    BY <1>2, <1>3 DEF GetContact
  <1> QED
    BY <1>4, <1>5, FS_Singleton

\* The middle of a bucket wider than three lies above the end of the bucket before it: a stray
\* bit can only raise it further.
LEMMA OrderedMeansRefreshed ==
    ASSUME Typed, Ordered
    PROVE  RefreshHitsItsBucket
  <1> SUFFICES ASSUME Ascend(k_buckets), NEW i \in DOMAIN k_buckets,
                      k_buckets[i].range_max > k_buckets[i].range_min + 3,
                      NEW id \in RefreshIds(k_buckets[i]), id <= k_buckets[i].range_max
               PROVE  KBucketIndex(id) = i
    BY DEF RefreshHitsItsBucket, RefreshList, EndsAscend, Ascend
  <1> DEFINE b == k_buckets[i]
  <1>1. /\ b.range_min \in Nat /\ b.range_max \in Nat /\ i \in Nat /\ i > 0
        /\ Buckets(k_buckets) /\ Meet(k_buckets)
    BY BucketNumbers DEF Typed, Ordered
  <1>2. PICK s \in StrayBits : id = (b.range_min + b.range_max) \div 2 + s * HighBit
    BY DEF RefreshIds, Middle, HalfOf
  <1>3. s * HighBit \in Nat
    <2>1. s \in Nat /\ HighBit \in Nat
      BY KBucketAssumption
    <2>2. \A t \in Nat : t * HighBit \in Nat
      BY <2>1
    <2> QED
      BY <2>1, <2>2
  <1>4. \A p, q, r \in Nat : q > p + 3 => /\ (p + q) \div 2 + r \in Nat
                                         /\ p + 1 < (p + q) \div 2 + r
    OBVIOUS
  <1>5. id \in Nat /\ b.range_min + 1 < id
    BY <1>1, <1>2, <1>3, <1>4
  <1>6. Belongs(k_buckets, i, id)
    BY <1>1, <1>5 DEF Meet, Belongs
  <1>7. id <= MaxId
    BY <1>1, <1>5, <1>6, BelongsInSpace
  <1> QED
    BY <1>1, <1>5, <1>6, <1>7, IndexBelongs

\* Wherever KadID() puts the lower end of the table, and however its buckets have been split, the
\* identifier GetRefreshList gives for a bucket wider than three leads to that bucket, although
\* its range shares two identifiers with either neighbour (kadroutingtable.cpp:30, 197-206).
THEOREM RefreshHitsItsBucketHolds == LowerEndInside => (Spec => []RefreshHitsItsBucket)
  <1> SUFFICES ASSUME LowerEndInside PROVE Spec => []RefreshHitsItsBucket
    OBVIOUS
  <1>1. Typed /\ Ordered /\ [Next]_vars => (Typed /\ Ordered)'
    BY TypedKept, OrderedKept
  <1>2. Init => Typed /\ Ordered
    BY InitTyped, InitOrdered
  <1>3. Typed /\ Ordered => RefreshHitsItsBucket
    BY OrderedMeansRefreshed
  <1> QED
    BY <1>1, <1>2, <1>3, PTL DEF Spec
-----------------------------------------------------------------------------
(* The exchange of ForceKAcceptNewPeer.                                    *)

\* x leaves the brother bucket for id.
Exchanged(i, x, id) ==
    /\ k_buckets' = [k_buckets EXCEPT ![i] = AddTo(RemoveFrom(k_buckets[i], x), id)]
    /\ ~Full(RemoveFrom(k_buckets[i], x), id)
    /\ i = brother_bucket_of_holder /\ bucket_of_holder \in DOMAIN k_buckets /\ Room \in 1 .. K
    /\ x \in Members(k_buckets[i])
    /\ Cardinality(CloserThan(Members(k_buckets[i]), x, Holder)) >= Room - 1
    /\ ~CloserToTarget(ByHolder[Room], id, Holder)
    /\ Answer(id, 0) /\ UNCHANGED wild

LEMMA ForceEffect ==
    ASSUME DistancesDiffer, Typed, NEW id \in Ids, AddForce(id)
    PROVE  \/ UNCHANGED k_buckets /\ Answer(id, 2)
           \/ \E x : Exchanged(KBucketIndex(id), x, id)
  <1> DEFINE i == KBucketIndex(id)
             b == k_buckets[i]
             S == Members(b)
  <1>1. /\ id \in Nat /\ i \in DOMAIN k_buckets /\ Full(b, id) /\ Good(b)
        /\ i = brother_bucket_of_holder
    BY IdFound DEF AddForce
  <1>3. SUFFICES ASSUME NEW x \in Replaceable, Closer(id), bucket_of_holder \in DOMAIN k_buckets,
                        k_buckets' = [k_buckets EXCEPT ![i] = AddTo(RemoveFrom(@, x), id)],
                        Answer(id, 0), UNCHANGED wild
                 PROVE  Exchanged(i, x, id)
    BY DEF AddForce
  <1>2. Good(k_buckets[bucket_of_holder])
    BY <1>3 DEF Typed, Buckets
  <1>4. IsFiniteSet(S) /\ Cardinality(S) = K /\ S \subseteq Nat /\ K \in Nat
    BY <1>1, FullIs, MembersCounted, MembersAreIds, KBucketAssumption
  <1>5. Room \in 1 .. K
    <2>1. Len(k_buckets[bucket_of_holder].contacts) \in Nat
      BY <1>2, LenProperties DEF Good, Holds
    <2> QED
      BY <1>3, <1>4, <2>1 DEF Room, Closer
  <1>6. ByHolder = ByDistance(S, Holder)
    BY <1>1 DEF ByHolder, Brother
  <1>7. /\ \A n \in 1 .. K : /\ ByHolder[n] \in S
                             /\ Cardinality(CloserThan(S, ByHolder[n], Holder)) = n - 1
        /\ Len(ByHolder) = K
    <2>1. Holder \in Nat /\ DistancesDiffer /\ S \in SUBSET Nat
      BY <1>4, TableAssumption
    <2> HIDE DEF S
    <2> QED
      BY <1>4, <1>6, <2>1, ByDistanceRanks
  <1>8. PICK n \in Room .. K : x = ByHolder[n]
    BY <1>3, <1>7 DEF Replaceable
  <1>9. n \in 1 .. K /\ n - 1 >= Room - 1
    BY <1>4, <1>5, <1>8
  <1>10. x \in S /\ Cardinality(CloserThan(S, x, Holder)) >= Room - 1
    BY <1>7, <1>8, <1>9
  <1>11. ~Full(RemoveFrom(b, x), id)
    <2>1. Good(RemoveFrom(b, x)) /\ RemoveFrom(b, x).contacts = Without(b.contacts, x)
      BY <1>1, RemoveFromIs DEF Good, Bucket
    <2>2. Len(Without(b.contacts, x)) # K
      BY <1>1, <1>10, WithoutIs DEF Good, Members
    <2> QED
      BY <2>1, <2>2, FullIs
  <1> QED
    BY <1>1, <1>3, <1>5, <1>10, <1>11 DEF Exchanged, Closer

\* b is what the exchange makes of the bucket a.
InPlaceOf(a, x, id, b) ==
    /\ Good(b) /\ b.range_min = a.range_min /\ b.range_max = a.range_max
    /\ b.contacts = <<id>> \o Without(Without(a.contacts, x), id)
    /\ Head(b.contacts) = id
    /\ Members(b) = (Members(a) \ {x}) \cup {id}

LEMMA ExchangedBucket ==
    ASSUME Typed, NEW i \in DOMAIN k_buckets, NEW x, NEW id \in Ids, Exchanged(i, x, id)
    PROVE  \E b : /\ k_buckets' = [k_buckets EXCEPT ![i] = b]
                  /\ InPlaceOf(k_buckets[i], x, id, b)
  <1>1. Good(k_buckets[i])
    BY DEF Typed, Buckets
  <1>2. PICK r : r = RemoveFrom(k_buckets[i], x)
    OBVIOUS
  <1>3. /\ Good(r) /\ r.contacts = Without(k_buckets[i].contacts, x)
        /\ Members(r) = Members(k_buckets[i]) \ {x}
        /\ r.range_min = k_buckets[i].range_min /\ r.range_max = k_buckets[i].range_max
    BY <1>1, <1>2, RemoveFromIs DEF Good, Bucket
  <1>4. ~Full(r, id) /\ k_buckets' = [k_buckets EXCEPT ![i] = AddTo(r, id)]
    BY <1>2 DEF Exchanged
  <1>5. PICK b : b = AddTo(r, id)
    OBVIOUS
  <1>6. /\ Good(b) /\ b.contacts = LatestFirst(r, id) /\ Head(b.contacts) = id
        /\ Members(b) = Members(r) \cup {id}
        /\ b.range_min = r.range_min /\ b.range_max = r.range_max
    BY <1>3, <1>4, <1>5, AddToIs
  <1> QED
    BY <1>3, <1>4, <1>5, <1>6 DEF LatestFirst, InPlaceOf
-----------------------------------------------------------------------------
(* The answers and the indices.                                            *)

\* An answer other than "out of the address space" is about an identifier in it.
Answered ==
    reply = NoReply \/ (reply.id \in Ids /\ (reply.code = 3 \/ reply.id <= MaxId))

LEMMA AddRoundAnswered ==
    ASSUME NEW id \in Ids, AddRound(id)
    PROVE  Answered'
  <1>1. CASE AddOutOfSpace(id)
    BY <1>1 DEF AddOutOfSpace, Answer, Answered
  <1>2. CASE AddToBucket(id)
    BY <1>2 DEF AddToBucket, Answer, Answered
  <1>3. CASE AddSplit(id)
    BY <1>3 DEF AddSplit, Answered
  <1>4. CASE AddRefused(id)
    BY <1>4 DEF AddRefused, Answer, Answered
  <1>5. CASE AddForce(id)
    BY <1>5 DEF AddForce, Answer, Answered
  <1> QED
    BY <1>1, <1>2, <1>3, <1>4, <1>5 DEF AddRound

LEMMA AddRoundTrue ==
    ASSUME DistancesDiffer, Typed, NEW id \in Ids, AddRound(id)
    PROVE  AnswerIsTrue'
  <1>1. CASE AddOutOfSpace(id)
    BY <1>1 DEF AddOutOfSpace, Answer, AnswerIsTrue
  <1>2. CASE AddToBucket(id)
    <2>1. PICK i : i = KBucketIndex(id)
      OBVIOUS
    <2>2. /\ i \in DOMAIN k_buckets /\ Good(k_buckets[i]) /\ Buckets(k_buckets)
          /\ ~Full(k_buckets[i], id) /\ KBucketIndex(id)' = i
      BY <1>2, <2>1, IdFound, IndexKept DEF AddToBucket, KeepRanges
    <2>3. PICK b : b = AddTo(k_buckets[i], id)
      OBVIOUS
    <2>4. Head(b.contacts) = id
      BY <2>2, <2>3, AddToIs
    <2>5. k_buckets'[i] = b /\ reply' = [id |-> id, code |-> 0]
      BY <1>2, <2>1, <2>2, <2>3 DEF AddToBucket, Answer, Buckets
    <2> QED
      BY <2>2, <2>4, <2>5 DEF AnswerIsTrue
  <1>3. CASE AddSplit(id)
    BY <1>3 DEF AddSplit, AnswerIsTrue
  <1>4. ASSUME id <= MaxId, Full(k_buckets[KBucketIndex(id)], id),
               UNCHANGED <<k_buckets, bucket_upper_address>>, Answer(id, 2)
        PROVE  AnswerIsTrue'
    <2>1. PICK i : i = KBucketIndex(id)
      OBVIOUS
    <2>2. id \notin Members(k_buckets[i]) /\ Len(k_buckets[i].contacts) = K
      BY <1>4, <2>1, IdFound, FullIs
    <2>3. KBucketIndex(id)' = i /\ reply' = [id |-> id, code |-> 2] /\ k_buckets' = k_buckets
      BY <1>4, <2>1, IndexKept DEF Answer
    <2> QED
      BY <2>2, <2>3 DEF AnswerIsTrue
  <1>5. CASE AddRefused(id)
    BY <1>4, <1>5 DEF AddRefused, KeepRanges
  <1>6. CASE AddForce(id)
    <2>1. PICK i : i = KBucketIndex(id)
      OBVIOUS
    <2>2. /\ i \in DOMAIN k_buckets /\ Buckets(k_buckets) /\ KBucketIndex(id)' = i
      BY <1>6, <2>1, IdFound, IndexKept DEF AddForce, KeepRanges
    <2>3. CASE UNCHANGED k_buckets /\ Answer(id, 2)
      BY <1>4, <1>6, <2>3 DEF AddForce, KeepRanges
    <2>4. ASSUME NEW x, Exchanged(i, x, id)
          PROVE  AnswerIsTrue'
      <3>1. PICK b : k_buckets' = [k_buckets EXCEPT ![i] = b] /\ InPlaceOf(k_buckets[i], x, id, b)
        BY <2>2, <2>4, ExchangedBucket
      <3>2. k_buckets'[i] = b /\ Head(b.contacts) = id /\ reply' = [id |-> id, code |-> 0]
        BY <2>2, <2>4, <3>1 DEF InPlaceOf, Exchanged, Answer, Buckets
      <3> QED
        BY <2>2, <3>2 DEF AnswerIsTrue
    <2> QED
      BY <1>6, <2>1, <2>3, <2>4, ForceEffect
  <1> QED
    BY <1>1, <1>2, <1>3, <1>5, <1>6 DEF AddRound

LEMMA TouchTrue ==
    ASSUME Typed, Answered, AnswerIsTrue, NEW key \in Keys, TouchKBucket(key)
    PROVE  AnswerIsTrue'
  <1>1. /\ UNCHANGED reply /\ UNCHANGED bucket_upper_address
        /\ \A j \in DOMAIN k_buckets : k_buckets'[j].contacts = k_buckets[j].contacts
    BY TouchEffect DEF TouchKBucket, KeepRanges
  <1>2. CASE reply = NoReply
    BY <1>1, <1>2 DEF AnswerIsTrue
  <1>3. CASE reply # NoReply
    <2>1. PICK j : j = KBucketIndex(reply.id)
      OBVIOUS
    <2>2. KBucketIndex(reply.id)' = j
      BY <1>1, <2>1 DEF KBucketIndex
    <2>3. CASE reply.code = 3
      BY <1>1, <1>3, <2>3 DEF AnswerIsTrue
    <2>4. CASE reply.code # 3
      <3>1. j \in DOMAIN k_buckets
        BY <1>3, <2>1, <2>4, IdFound DEF Answered
      <3> QED
        BY <1>1, <1>3, <2>1, <2>2, <3>1 DEF AnswerIsTrue, Members
    <2> QED
      BY <2>3, <2>4
  <1> QED
    BY <1>2, <1>3

LEMMA TrueKept ==
    ASSUME DistancesDiffer, Typed, Answered, AnswerIsTrue, [Next]_vars
    PROVE  Answered' /\ AnswerIsTrue'
  <1>1. ASSUME NEW id \in Ids, AddContact(id) PROVE Answered' /\ AnswerIsTrue'
    BY <1>1, AddRoundTrue, AddRoundAnswered DEF AddContact
  <1>2. CASE AddContactAgain
    BY <1>2, AddRoundTrue, AddRoundAnswered DEF AddContactAgain, Typed
  <1>3. ASSUME NEW key \in Keys, RemoveContact(key) PROVE Answered' /\ AnswerIsTrue'
    BY <1>3 DEF RemoveContact, Answered, AnswerIsTrue
  <1>4. ASSUME NEW key \in Keys, TouchKBucket(key) PROVE Answered' /\ AnswerIsTrue'
    BY <1>4, TouchTrue DEF TouchKBucket, Answered
  <1>5. CASE Clear
    BY <1>5 DEF Clear, Answered, AnswerIsTrue
  <1>6. CASE UNCHANGED vars
    BY <1>6 DEF vars, Answered, AnswerIsTrue, KBucketIndex
  <1> QED
    BY <1>1, <1>2, <1>3, <1>4, <1>5, <1>6 DEF Next

\* A table in one bucket only asks the brother bucket if the holder is outside its range.
LEMMA ForceOutside ==
    ASSUME Typed, K > 2 => HolderBucketsKnown, NEW id \in Ids, AddForce(id),
           bucket_of_holder \notin DOMAIN k_buckets
    PROVE  Holder < LowerEnd \/ Holder > MaxId
  <1>1. PICK i : i = KBucketIndex(id)
    OBVIOUS
  <1>2. i \in DOMAIN k_buckets /\ ~KeyInRange(k_buckets[i], Holder) /\ K > 2
    BY <1>1, IdFound, KBucketAssumption DEF AddForce, MaySplit
  <1>3. /\ DOMAIN k_buckets = 1 .. Len(k_buckets) /\ Len(k_buckets) \in Nat /\ Len(k_buckets) > 0
        /\ k_buckets[Len(k_buckets)].range_max = MaxId
        /\ \A j \in DOMAIN k_buckets : k_buckets[j].range_min \in Nat
    BY BucketNumbers DEF Typed
  <1>4. Len(k_buckets) = 1
    BY <1>2, <1>3 DEF HolderBucketsKnown
  <1>5. i = 1 /\ k_buckets[1].range_max = MaxId /\ k_buckets[1].range_min \in Nat
    BY <1>2, <1>3, <1>4
  <1> QED
    BY <1>2, <1>5, TableAssumption DEF KeyInRange, LowerEnd

LEMMA LookupInSpace ==
    ASSUME Typed, NEW key \in Keys, KBucketIndex(key) \notin DOMAIN k_buckets
    PROVE  key > MaxId
  BY IndexFound, TableAssumption

LEMMA InBoundsKept ==
    ASSUME Typed, K > 2 => HolderBucketsKnown, IndexInBounds, [Next]_vars
    PROVE  IndexInBounds'
  <1>1. CASE ~wild'
    BY <1>1 DEF IndexInBounds
  <1>2. ASSUME NEW id \in Ids, AddRound(id), ~wild PROVE IndexInBounds'
    <2>1. CASE AddForce(id)
      <3>1. CASE bucket_of_holder \notin DOMAIN k_buckets
        <4>1. Holder < LowerEnd \/ Holder > MaxId
          BY <2>1, <3>1, ForceOutside
        <4>2. UNCHANGED k_buckets
          BY <2>1, <3>1 DEF AddForce
        <4> QED
          BY <4>1, <4>2 DEF IndexInBounds, LowerEnd
      <3>2. CASE bucket_of_holder \in DOMAIN k_buckets
        BY <1>1, <1>2, <2>1, <3>2 DEF AddForce
      <3> QED
        BY <3>1, <3>2
    <2>2. CASE ~AddForce(id)
      BY <1>1, <1>2, <2>2 DEF AddRound, AddOutOfSpace, AddToBucket, AddSplit, AddRefused
    <2> QED
      BY <2>1, <2>2
  <1>3. ASSUME NEW id \in Ids, AddContact(id) PROVE IndexInBounds'
    BY <1>2, <1>3 DEF AddContact
  <1>4. CASE AddContactAgain
    BY <1>2, <1>4 DEF AddContactAgain, Typed
  <1>5. ASSUME NEW key \in Keys, RemoveContact(key) \/ TouchKBucket(key) PROVE IndexInBounds'
    <2>1. wild' = (KBucketIndex(key) \notin DOMAIN k_buckets)
      BY <1>5 DEF RemoveContact, TouchKBucket, Lookup
    <2> QED
      BY <1>1, <2>1, LookupInSpace DEF IndexInBounds
  <1>6. CASE Clear
    BY <1>1, <1>6 DEF Clear
  <1>7. CASE UNCHANGED vars
    BY <1>7 DEF vars, IndexInBounds, LowerEnd
  <1> QED
    BY <1>3, <1>4, <1>5, <1>6, <1>7 DEF Next

Placed ==
    /\ Typed /\ Ordered
    /\ K > 2 => HolderBucketsKnown
    /\ IndexInBounds
    /\ Answered /\ AnswerIsTrue

LEMMA PlacedKept ==
    ASSUME LowerEndInside, DistancesDiffer, Placed, [Next]_vars
    PROVE  Placed'
  <1>1. Typed' /\ Ordered'
    BY TypedKept, OrderedKept DEF Placed
  <1>2. (K > 2 => HolderBucketsKnown') /\ IndexInBounds'
    BY HolderKept, InBoundsKept DEF Placed
  <1>3. Answered' /\ AnswerIsTrue'
    BY TrueKept DEF Placed
  <1> QED
    BY <1>1, <1>2, <1>3 DEF Placed

LEMMA InitPlaced == LowerEndInside /\ Init => Placed
  <1> SUFFICES ASSUME LowerEndInside, Init PROVE Placed
    OBVIOUS
  <1>1. IndexInBounds /\ Answered /\ AnswerIsTrue
    BY DEF Init, IndexInBounds, Answered, AnswerIsTrue
  <1> QED
    BY <1>1, InitTyped, InitOrdered, InitHolder DEF Placed

\* Wherever the hash of KadID() puts the lower end, every contact from there on is in the one
\* bucket where GetContact looks for it, through any sequence of splits, exchanges, removals and
\* clearings, AddContact's answer is true, and the indices leave k_buckets_ only in the two
\* cases named: a stale index for a holder outside the range, and a key beyond the space
\* (kadroutingtable.cpp:30, 83-168, 308-349).
THEOREM ContactsAreFindableHolds ==
    LowerEndInside /\ DistancesDiffer => (Spec => []ContactsAreFindable)
  <1> SUFFICES ASSUME LowerEndInside, DistancesDiffer PROVE Spec => []ContactsAreFindable
    OBVIOUS
  <1>1. Placed /\ [Next]_vars => Placed'
    BY PlacedKept
  <1>2. Init => Placed
    BY InitPlaced
  <1>3. Placed => ContactsAreFindable
    BY OrderedMeansFindable DEF Placed, ContactsAreFindable
  <1> QED
    BY <1>1, <1>2, <1>3, PTL DEF Spec
-----------------------------------------------------------------------------
(* What an addition leaves as it was.                                      *)

\* t holds some of s in their order, perhaps behind r.
Derived(s, t, r) == \E S : t = Keep(s, S) \/ t = <<r>> \o Keep(s, S)

LEMMA DerivedMembers ==
    ASSUME NEW s \in Seq(Ids), NEW t, NEW r, Derived(s, t, r)
    PROVE  ToSet(t) \subseteq ToSet(s) \cup {r}
  <1>1. PICK S : t = Keep(s, S) \/ t = <<r>> \o Keep(s, S)
    BY DEF Derived
  <1>2. Keep(s, S) \in Seq(Ids) /\ ToSet(Keep(s, S)) = ToSet(s) \cap S
    BY KeepMembers
  <1>3. CASE t = Keep(s, S)
    BY <1>2, <1>3
  <1>4. CASE t = <<r>> \o Keep(s, S)
    <2> DEFINE k == Keep(s, S)
    <2> HIDE DEF k
    <2>1. k \in Seq(Ids) /\ k \in Seq(Ids \cup {r}) /\ r \in Ids \cup {r} /\ t = <<r>> \o k
      BY <1>2, <1>4 DEF k
    <2>2. ToSet(t) = {r} \cup ToSet(k)
      BY <2>1, PrefixedMembers
    <2> QED
      BY <1>2, <2>2 DEF k
  <1> QED
    BY <1>1, <1>3, <1>4

\* Of what both have, r apart, the order is the same.
LEMMA DerivedOrder ==
    ASSUME NEW s \in Seq(Ids), NEW t, NEW r, Derived(s, t, r)
    PROVE  Keep(s, (ToSet(s) \cap ToSet(t)) \ {r}) = Keep(t, (ToSet(s) \cap ToSet(t)) \ {r})
  <1> DEFINE both == (ToSet(s) \cap ToSet(t)) \ {r}
  <1>1. PICK S : t = Keep(s, S) \/ t = <<r>> \o Keep(s, S)
    BY DEF Derived
  <1> DEFINE k == Keep(s, S)
  <1>2. k \in Seq(Ids) /\ ToSet(k) = ToSet(s) \cap S
    BY KeepMembers
  <1>3. both \subseteq ToSet(t) /\ r \notin both
    OBVIOUS
  <1>4. Keep(k, both) = Keep(s, S \cap both)
    BY KeepTwice
  <1> HIDE DEF both, k
  <1>5. /\ both \subseteq S
        /\ Keep(t, both) = Keep(k, both)
    <2>1. CASE t = k
      BY <1>2, <1>3, <2>1
    <2>2. CASE t = <<r>> \o k
      <3>1. k \in Seq(Ids \cup {r}) /\ r \in Ids \cup {r}
        BY <1>2
      <3>2. Keep(t, both) = IF r \in both THEN <<r>> \o Keep(k, both) ELSE Keep(k, both)
        BY <2>2, <3>1, KeepPrefixed
      <3>3. ToSet(t) = {r} \cup ToSet(k)
        BY <2>2, <3>1, PrefixedMembers
      <3> QED
        BY <1>2, <1>3, <3>2, <3>3
    <2> QED
      BY <1>1, <2>1, <2>2 DEF k
  <1>6. S \cap both = both
    BY <1>5
  <1> QED
    BY <1>4, <1>5, <1>6 DEF both

LEMMA KeepNone ==
    ASSUME NEW T, NEW s \in Seq(T)
    PROVE  Keep(s, {}) = <<>>
  <1> DEFINE k == Keep(s, {})
  <1>1. k \in Seq(T) /\ ToSet(k) = {}
    BY KeepMembers
  <1> HIDE DEF k
  <1>2. DOMAIN k = 1 .. Len(k) /\ Len(k) \in Nat
    BY <1>1, LenProperties
  <1>3. Len(k) = 0
    <2> SUFFICES ASSUME Len(k) # 0 PROVE FALSE
      OBVIOUS
    <2>1. 1 \in DOMAIN k
      BY <1>2
    <2> QED
      BY <1>1, <2>1 DEF ToSet
  <1> QED
    BY <1>1, <1>3, EmptySeq DEF k

\* Every bucket comes from one that was there, and r may have been put in front.
Comes(r) ==
    \A j \in DOMAIN k_buckets' : \E g \in DOMAIN k_buckets :
        Derived(k_buckets[g].contacts, k_buckets'[j].contacts, r)

SeenOrder ==
    \A i \in DOMAIN k_buckets, j \in DOMAIN k_buckets' :
        LET before == k_buckets[i]
            after  == k_buckets'[j]
            both   == {c \in (Members(before) \cap Members(after)) \ {reply'.id} :
                            HeldIn(c) = {i}}
        IN  Keep(before.contacts, both) = Keep(after.contacts, both)

LEMMA ComesInOrder ==
    ASSUME Typed, Typed', Comes(reply'.id)
    PROVE  SeenOrder
  <1>1. PICK r, bs : r = reply'.id /\ bs = k_buckets'
    OBVIOUS
  <1>2. SUFFICES ASSUME NEW i \in DOMAIN k_buckets, NEW j \in DOMAIN bs
                 PROVE  LET s == k_buckets[i].contacts
                            t == bs[j].contacts
                            both == {c \in (ToSet(s) \cap ToSet(t)) \ {r} : HeldIn(c) = {i}}
                        IN  Keep(s, both) = Keep(t, both)
    BY <1>1 DEF SeenOrder, Members
  <1> DEFINE s == k_buckets[i].contacts
             t == bs[j].contacts
             shared == (ToSet(s) \cap ToSet(t)) \ {r}
             both == {c \in shared : HeldIn(c) = {i}}
  <1>3. s \in Seq(Ids) /\ t \in Seq(Ids)
    <2>1. Good(bs[j])
      BY <1>1 DEF Typed, Buckets
    <2>2. Good(k_buckets[i])
      BY DEF Typed, Buckets
    <2> QED
      BY <2>1, <2>2 DEF Good, Holds
  <1>4. PICK g \in DOMAIN k_buckets : Derived(k_buckets[g].contacts, t, r)
    BY <1>1 DEF Comes
  <1>5. CASE g = i
    <2>1. Keep(s, shared) = Keep(t, shared)
      BY <1>3, <1>4, <1>5, DerivedOrder
    <2>2. shared \cap both = both
      OBVIOUS
    <2> HIDE DEF s, t, shared, both
    <2>3. /\ Keep(Keep(s, shared), both) = Keep(s, shared \cap both)
          /\ Keep(Keep(t, shared), both) = Keep(t, shared \cap both)
      BY <1>3, KeepTwice
    <2>4. Keep(s, both) = Keep(t, both)
      BY <2>1, <2>2, <2>3
    <2> QED
      BY <2>4 DEF s, t, shared, both
  <1>6. CASE g # i
    <2>1. ToSet(t) \subseteq Members(k_buckets[g]) \cup {r}
      <3>1. k_buckets[g].contacts \in Seq(Ids)
        BY DEF Typed, Buckets, Good, Holds
      <3> QED
        BY <1>4, <3>1, DerivedMembers DEF Members
    <2>2. both = {}
      BY <1>6, <2>1 DEF HeldIn
    <2>3. Keep(s, {}) = <<>> /\ Keep(t, {}) = <<>>
      BY <1>3, KeepNone
    <2>4. Keep(s, both) = Keep(t, both)
      BY <2>2, <2>3, Zenon
    <2> QED
      BY <2>4, Zenon
  <1> QED
    BY <1>5, <1>6

LEMMA DerivedSelf ==
    ASSUME NEW s \in Seq(Ids), NEW r
    PROVE  Derived(s, s, r)
  <1>1. Keep(s, ToSet(s)) = s
    BY KeepLength
  <1> QED
    BY <1>1 DEF Derived

LEMMA ContactsAreSeqs ==
    ASSUME Typed
    PROVE  \A g \in DOMAIN k_buckets : k_buckets[g].contacts \in Seq(Ids)
  BY DEF Typed, Buckets, Good, Holds

LEMMA ComesUnchanged ==
    ASSUME Typed, NEW r, DOMAIN k_buckets' = DOMAIN k_buckets,
           \A j \in DOMAIN k_buckets : k_buckets'[j].contacts = k_buckets[j].contacts
    PROVE  Comes(r)
  <1>1. PICK bs : bs = k_buckets'
    OBVIOUS
  <1>2. ASSUME NEW j \in DOMAIN bs
        PROVE  j \in DOMAIN k_buckets /\ Derived(k_buckets[j].contacts, bs[j].contacts, r)
    BY <1>1, ContactsAreSeqs, DerivedSelf
  <1> QED
    BY <1>1, <1>2 DEF Comes

LEMMA ComesChanged ==
    ASSUME Typed, NEW r, NEW i \in DOMAIN k_buckets, NEW b,
           k_buckets' = [k_buckets EXCEPT ![i] = b],
           Derived(k_buckets[i].contacts, b.contacts, r)
    PROVE  Comes(r)
  <1>1. PICK bs : bs = k_buckets'
    OBVIOUS
  <1>2. DOMAIN bs = DOMAIN k_buckets /\ bs[i] = b /\ \A j \in DOMAIN k_buckets : j # i => bs[j] = k_buckets[j]
    BY <1>1 DEF Typed, Buckets
  <1>3. ASSUME NEW j \in DOMAIN bs
        PROVE  j \in DOMAIN k_buckets /\ Derived(k_buckets[j].contacts, bs[j].contacts, r)
    <2>1. CASE j = i
      BY <1>2, <2>1
    <2>2. CASE j # i
      BY <1>2, <2>2, ContactsAreSeqs, DerivedSelf
    <2> QED
      BY <2>1, <2>2
  <1> QED
    BY <1>1, <1>3 DEF Comes

LEMMA ComesSplit ==
    ASSUME Typed, NEW r, NEW i \in DOMAIN k_buckets, SplitKbucket(i)
    PROVE  Comes(r)
  <1> DEFINE b == k_buckets[i]
             n == Len(k_buckets)
  <1>1. PICK m \in Nat : Replaced(k_buckets, i, LeftHalf(b, m), RightHalf(b, m), k_buckets')
    BY SplitIs
  <1>2. PICK bs : bs = k_buckets'
    OBVIOUS
  <1>3. /\ n \in Nat /\ i \in 1 .. n /\ DOMAIN k_buckets = 1 .. n
        /\ \A j \in 1 .. n : k_buckets[j].contacts \in Seq(Ids)
    BY BucketNumbers, ContactsAreSeqs DEF Typed
  <1>4. /\ DOMAIN bs = 1 .. n + 1
        /\ \A j \in 1 .. i - 1 : bs[j] = k_buckets[j]
        /\ bs[i] = LeftHalf(b, m) /\ bs[i + 1] = RightHalf(b, m)
        /\ \A j \in i + 2 .. n + 1 : bs[j] = k_buckets[j - 1]
    BY <1>1, <1>2, LenProperties DEF Replaced
  <1>5. /\ Derived(b.contacts, LeftHalf(b, m).contacts, r)
        /\ Derived(b.contacts, RightHalf(b, m).contacts, r)
    BY DEF Derived, LeftHalf, RightHalf
  <1>6. ASSUME NEW j \in DOMAIN bs
        PROVE  \E g \in DOMAIN k_buckets : Derived(k_buckets[g].contacts, bs[j].contacts, r)
    <2>1. CASE j \in 1 .. i - 1
      <3>1. j \in 1 .. n /\ bs[j] = k_buckets[j]
        BY <1>3, <1>4, <2>1
      <3> QED
        BY <1>3, <3>1, DerivedSelf
    <2>2. CASE j = i \/ j = i + 1
      BY <1>3, <1>4, <1>5, <2>2
    <2>3. CASE j \in i + 2 .. n + 1
      <3>1. j - 1 \in 1 .. n /\ bs[j] = k_buckets[j - 1]
        BY <1>3, <1>4, <2>3
      <3> QED
        BY <1>3, <3>1, DerivedSelf
    <2>4. j \in 1 .. i - 1 \/ j = i \/ j = i + 1 \/ j \in i + 2 .. n + 1
      BY <1>3, <1>4
    <2> QED
      BY <2>1, <2>2, <2>3, <2>4
  <1> QED
    BY <1>2, <1>6 DEF Comes

LEMMA AddRoundComes ==
    ASSUME DistancesDiffer, Typed, NEW id \in Ids, AddRound(id)
    PROVE  Comes(reply'.id)
  <1>1. CASE AddOutOfSpace(id) \/ AddRefused(id)
    BY <1>1, ComesUnchanged DEF AddOutOfSpace, AddRefused
  <1>2. CASE AddToBucket(id)
    <2>1. PICK i : i = KBucketIndex(id)
      OBVIOUS
    <2>2. /\ i \in DOMAIN k_buckets /\ Good(k_buckets[i]) /\ ~Full(k_buckets[i], id)
          /\ reply'.id = id
      BY <1>2, <2>1, IdFound DEF AddToBucket, Answer
    <2>3. PICK b : b = AddTo(k_buckets[i], id)
      OBVIOUS
    <2>4. b.contacts = <<id>> \o Keep(k_buckets[i].contacts, ToSet(k_buckets[i].contacts) \ {id})
      BY <2>2, <2>3, AddToIs DEF LatestFirst, Without
    <2>5. Derived(k_buckets[i].contacts, b.contacts, id)
      BY <2>4 DEF Derived
    <2>6. k_buckets' = [k_buckets EXCEPT ![i] = b]
      BY <1>2, <2>1, <2>3 DEF AddToBucket
    <2> QED
      BY <2>2, <2>5, <2>6, ComesChanged
  <1>3. CASE AddSplit(id)
    <2>1. KBucketIndex(id) \in DOMAIN k_buckets /\ SplitKbucket(KBucketIndex(id))
      BY <1>3, IdFound DEF AddSplit
    <2> QED
      BY <2>1, ComesSplit
  <1>4. CASE AddForce(id)
    <2>1. PICK i : i = KBucketIndex(id)
      OBVIOUS
    <2>2. i \in DOMAIN k_buckets /\ k_buckets[i].contacts \in Seq(Ids)
      BY <1>4, <2>1, IdFound, ContactsAreSeqs DEF AddForce
    <2>3. CASE UNCHANGED k_buckets /\ Answer(id, 2)
      BY <2>3, ComesUnchanged
    <2>4. ASSUME NEW x, Exchanged(i, x, id)
          PROVE  Comes(reply'.id)
      <3> DEFINE c == k_buckets[i].contacts
                 S == ToSet(c) \ {x}
                 U == ToSet(Keep(c, S)) \ {id}
      <3>1. PICK b : k_buckets' = [k_buckets EXCEPT ![i] = b] /\ InPlaceOf(k_buckets[i], x, id, b)
        BY <2>2, <2>4, ExchangedBucket
      <3>2. b.contacts = <<id>> \o Keep(Keep(c, S), U)
        BY <3>1 DEF InPlaceOf, Without
      <3>3. Keep(Keep(c, S), U) = Keep(c, S \cap U)
        <4> HIDE DEF c, S, U
        <4> QED
          BY <2>2, KeepTwice DEF c
      <3>4. Derived(c, b.contacts, id)
        BY <3>2, <3>3 DEF Derived
      <3>5. reply'.id = id
        BY <2>4 DEF Exchanged, Answer
      <3> QED
        BY <2>2, <3>1, <3>4, <3>5, ComesChanged
    <2> QED
      BY <1>4, <2>1, <2>3, <2>4, ForceEffect
  <1> QED
    BY <1>1, <1>2, <1>3, <1>4 DEF AddRound

LEMMA OrderKept ==
    ASSUME DistancesDiffer, Typed, Next
    PROVE  SeenOrder
  <1>0. Typed'
    BY TypedKept
  <1>1. ASSUME NEW id \in Ids, AddRound(id) PROVE SeenOrder
    BY <1>1, AddRoundComes, <1>0, ComesInOrder
  <1>2. ASSUME NEW id \in Ids, AddContact(id) PROVE SeenOrder
    BY <1>1, <1>2 DEF AddContact
  <1>3. CASE AddContactAgain
    BY <1>1, <1>3 DEF AddContactAgain, Typed
  <1>4. ASSUME NEW key \in Keys, RemoveContact(key) PROVE SeenOrder
    <2>1. CASE wild'
      BY <1>4, <2>1, ComesUnchanged, <1>0, ComesInOrder DEF RemoveContact
    <2>2. CASE ~wild'
      <3>1. PICK i : i = KBucketIndex(key)
        OBVIOUS
      <3>2. i \in DOMAIN k_buckets /\ k_buckets' = [k_buckets EXCEPT ![i] = RemoveFrom(@, key)]
        BY <1>4, <2>2, <3>1 DEF RemoveContact, Lookup
      <3>3. PICK b : b = RemoveFrom(k_buckets[i], key)
        OBVIOUS
      <3>4. b.contacts = Keep(k_buckets[i].contacts, ToSet(k_buckets[i].contacts) \ {key})
        <4>1. k_buckets[i] \in Bucket
          BY <3>2 DEF Typed, Buckets, Good
        <4> QED
          BY <3>3, <4>1 DEF RemoveFrom, Without, Bucket
      <3>5. Derived(k_buckets[i].contacts, b.contacts, reply'.id)
        BY <3>4 DEF Derived
      <3> QED
        BY <3>2, <3>3, <3>5, ComesChanged, <1>0, ComesInOrder
    <2> QED
      BY <2>1, <2>2
  <1>5. ASSUME NEW key \in Keys, TouchKBucket(key) PROVE SeenOrder
    BY <1>5, TouchEffect, ComesUnchanged, <1>0, ComesInOrder DEF SameRanges
  <1>6. CASE Clear
    <2>1. PICK min \in MinIds : k_buckets' = OneBucket(min)
      BY <1>6 DEF Clear
    <2>2. DOMAIN k_buckets' = {1} /\ k_buckets'[1].contacts = <<>>
      BY <2>1 DEF OneBucket, NewBucket
    <2>3. 1 \in DOMAIN k_buckets /\ Keep(k_buckets[1].contacts, {}) = <<>>
      BY BucketNumbers, ContactsAreSeqs, KeepNone DEF Typed
    <2>4. Derived(k_buckets[1].contacts, <<>>, reply'.id)
      BY <2>3 DEF Derived
    <2>5. Comes(reply'.id)
      BY <2>2, <2>3, <2>4 DEF Comes
    <2> QED
      BY <2>5, <1>0, ComesInOrder
  <1> QED
    BY <1>2, <1>3, <1>4, <1>5, <1>6 DEF Next

-----------------------------------------------------------------------------
(* Who is there.                                                           *)

Apart == bucket_of_holder # brother_bucket_of_holder

LEMMA ApartKept ==
    ASSUME Typed, Apart, [Next]_vars
    PROVE  Apart'
  <1>1. CASE UNCHANGED <<bucket_of_holder, brother_bucket_of_holder>>
    BY <1>1 DEF Apart
  <1>2. ASSUME NEW i \in DOMAIN k_buckets, SplitKbucket(i) PROVE Apart'
    <2>1. i \in Nat
      BY BucketNumbers DEF Typed
    <2> QED
      BY <1>2, <2>1 DEF SplitKbucket, Apart
  <1>3. ASSUME NEW id \in Ids, AddRound(id) PROVE Apart'
    BY <1>1, <1>2, <1>3, AddRoundIs DEF KeepRanges
  <1>4. ASSUME NEW id \in Ids, AddContact(id) PROVE Apart'
    BY <1>3, <1>4 DEF AddContact
  <1>5. CASE AddContactAgain
    BY <1>3, <1>5 DEF AddContactAgain, Typed
  <1>6. ASSUME NEW key \in Keys, RemoveContact(key) \/ TouchKBucket(key) PROVE Apart'
    BY <1>1, <1>6 DEF RemoveContact, TouchKBucket, KeepRanges
  <1>7. CASE Clear
    BY <1>1, <1>7 DEF Clear
  <1>8. CASE UNCHANGED vars
    BY <1>1, <1>8 DEF vars
  <1> QED
    BY <1>4, <1>5, <1>6, <1>7, <1>8 DEF Next

LEMMA InitApart == Init => Apart
  BY DEF Init, Apart, NoIndex

\* One bucket's contacts become others; those that other buckets hold as well stay.
LEMMA ContactsAfter ==
    ASSUME Typed, NEW i \in DOMAIN k_buckets, NEW b,
           k_buckets' = [k_buckets EXCEPT ![i] = b]
    PROVE  /\ AllContacts \ Members(k_buckets[i]) \subseteq AllContacts'
           /\ Members(b) \subseteq AllContacts'
  <1>1. PICK bs : bs = k_buckets'
    OBVIOUS
  <1>2. /\ DOMAIN bs = DOMAIN k_buckets /\ bs[i] = b
        /\ \A j \in DOMAIN k_buckets : j # i => bs[j] = k_buckets[j]
    BY <1>1 DEF Typed, Buckets
  <1>3. ASSUME NEW c \in AllContacts \ Members(k_buckets[i])
        PROVE  \E j \in DOMAIN bs : c \in Members(bs[j])
    BY <1>2, <1>3 DEF AllContacts
  <1>4. AllContacts' = UNION {Members(bs[j]) : j \in DOMAIN bs}
    BY <1>1 DEF AllContacts
  <1> QED
    BY <1>2, <1>3, <1>4

LEMMA SplitKeepsContacts ==
    ASSUME Typed, NEW i \in DOMAIN k_buckets, SplitKbucket(i)
    PROVE  AllContacts' = AllContacts
  <1> DEFINE b == k_buckets[i]
             n == Len(k_buckets)
  <1>1. PICK m \in Nat :
          /\ Replaced(k_buckets, i, LeftHalf(b, m), RightHalf(b, m), k_buckets')
          /\ Members(LeftHalf(b, m)) = LeftOf(b, m)
          /\ Members(RightHalf(b, m)) = Members(b) \ LeftOf(b, m)
    BY SplitIs
  <1>2. PICK bs : bs = k_buckets'
    OBVIOUS
  <1>3. n \in Nat /\ i \in 1 .. n /\ DOMAIN k_buckets = 1 .. n
    BY BucketNumbers DEF Typed
  <1>4. /\ DOMAIN bs = 1 .. n + 1
        /\ \A j \in 1 .. i - 1 : bs[j] = k_buckets[j]
        /\ bs[i] = LeftHalf(b, m) /\ bs[i + 1] = RightHalf(b, m)
        /\ \A j \in i + 2 .. n + 1 : bs[j] = k_buckets[j - 1]
    BY <1>1, <1>2, LenProperties DEF Replaced
  <1>5. LeftOf(b, m) \subseteq Members(b)
    BY DEF LeftOf
  <1>6. ASSUME NEW j \in 1 .. n + 1, NEW c \in Members(bs[j])
        PROVE  \E g \in 1 .. n : c \in Members(k_buckets[g])
    <2>1. CASE j \in 1 .. i - 1
      BY <1>3, <1>4, <1>6, <2>1
    <2>2. CASE j = i \/ j = i + 1
      BY <1>1, <1>3, <1>4, <1>5, <1>6, <2>2
    <2>3. CASE j \in i + 2 .. n + 1
      <3>1. j - 1 \in 1 .. n
        BY <1>3, <2>3
      <3> QED
        BY <1>4, <1>6, <2>3, <3>1
    <2> QED
      BY <1>3, <2>1, <2>2, <2>3
  <1>7. ASSUME NEW g \in 1 .. n, NEW c \in Members(k_buckets[g])
        PROVE  \E j \in 1 .. n + 1 : c \in Members(bs[j])
    <2>1. CASE g \in 1 .. i - 1
      <3>1. g \in 1 .. n + 1
        BY <1>3, <2>1
      <3> QED
        BY <1>4, <1>7, <2>1, <3>1
    <2>2. CASE g = i
      <3>1. i \in 1 .. n + 1 /\ i + 1 \in 1 .. n + 1
        BY <1>3
      <3> QED
        BY <1>1, <1>4, <1>7, <2>2, <3>1
    <2>3. CASE g \in i + 1 .. n
      <3>1. g + 1 \in i + 2 .. n + 1 /\ g + 1 \in 1 .. n + 1 /\ (g + 1) - 1 = g
        BY <1>3, <2>3
      <3> QED
        BY <1>4, <1>7, <3>1
    <2> QED
      BY <1>3, <2>1, <2>2, <2>3
  <1>8. /\ \A j \in 1 .. n + 1 : Members(bs[j]) \subseteq UNION {Members(k_buckets[g]) : g \in 1 .. n}
        /\ \A g \in 1 .. n : Members(k_buckets[g]) \subseteq UNION {Members(bs[j]) : j \in 1 .. n + 1}
    BY <1>6, <1>7, Zenon
  <1>9. UNION {Members(bs[j]) : j \in 1 .. n + 1} = UNION {Members(k_buckets[g]) : g \in 1 .. n}
    BY <1>8
  <1> QED
    BY <1>2, <1>3, <1>4, <1>9 DEF AllContacts

\* The brother bucket is not the holder's, whose room the exchange leaves as it is.
LEMMA RoomKept ==
    ASSUME Typed, Apart, NEW id \in Ids, AddForce(id), NEW b,
           bucket_of_holder \in DOMAIN k_buckets,
           k_buckets' = [k_buckets EXCEPT ![KBucketIndex(id)] = b]
    PROVE  Room' = Room /\ Brother' = b
  <1>1. PICK i : i = KBucketIndex(id)
    OBVIOUS
  <1>2. /\ i \in DOMAIN k_buckets /\ i = brother_bucket_of_holder /\ KeepRanges
        /\ Buckets(k_buckets) /\ i # bucket_of_holder
    BY <1>1, IdFound DEF AddForce, Apart
  <1>3. k_buckets'[bucket_of_holder] = k_buckets[bucket_of_holder] /\ k_buckets'[i] = b
    BY <1>1, <1>2 DEF Buckets
  <1> QED
    BY <1>2, <1>3 DEF Room, Brother, KeepRanges

OnlyExchanges ==
    (adding # NoId \/ reply'.id # NoId) /\ ~(AllContacts \subseteq AllContacts') =>
        /\ reply'.code = 0
        /\ reply'.id \in Neighbours(Room)'
        /\ Neighbours(Room - 1) \subseteq AllContacts'
        /\ Cardinality(AllContacts \ AllContacts') = 1

\* The newcomer has fewer closer ones in the bucket than the last neighbour had.
LEMMA NewcomerRanks ==
    ASSUME DistancesDiffer, NEW S \in SUBSET Nat, IsFiniteSet(S), NEW t \in Nat,
           NEW v \in S, NEW x \in S, NEW id \in Nat, id \notin S, ~CloserToTarget(v, id, t)
    PROVE  Cardinality(CloserThan((S \ {x}) \cup {id}, id, t)) <= Cardinality(CloserThan(S, v, t))
  <1> DEFINE C == CloserThan((S \ {x}) \cup {id}, id, t)
             D == CloserThan(S, v, t)
  <1>1. /\ Distance(id, t) \in Nat /\ Distance(v, t) \in Nat /\ Distance(id, t) # Distance(v, t)
        /\ \A y \in S : Distance(y, t) \in Nat
    BY DEF DistancesDiffer
  <1>2. Distance(id, t) < Distance(v, t)
    BY <1>1 DEF CloserToTarget
  <1>3. C \in SUBSET D
    <2>1. ASSUME NEW y \in C PROVE y \in D
      <3>1. y \in (S \ {x}) \cup {id} /\ Distance(y, t) < Distance(id, t)
        BY <2>1 DEF CloserThan, CloserToTarget
      <3>2. y \in S
        BY <1>1, <3>1
      <3> QED
        BY <1>1, <1>2, <3>1, <3>2 DEF CloserThan, CloserToTarget
    <2> QED
      BY <2>1
  <1>4. IsFiniteSet(D)
    BY RanksCount
  <1> HIDE DEF C, D
  <1>5. Cardinality(C) <= Cardinality(D)
    BY <1>3, <1>4, FS_Subset
  <1> QED
    BY <1>5 DEF C, D
LEMMA ExchangeKeepsNeighbours ==
    ASSUME DistancesDiffer, Typed, Apart, NEW id \in Ids, AddForce(id), NEW x,
           Exchanged(KBucketIndex(id), x, id)
    PROVE  OnlyExchanges
  <1>1. PICK i, S : i = KBucketIndex(id) /\ S = Members(k_buckets[i])
    OBVIOUS
  <1>2. /\ i \in DOMAIN k_buckets /\ Good(k_buckets[i]) /\ Full(k_buckets[i], id)
        /\ id \in Nat /\ id <= MaxId /\ i = brother_bucket_of_holder
    BY <1>1, IdFound DEF AddForce
  <1>3. /\ IsFiniteSet(S) /\ Cardinality(S) = K /\ S \in SUBSET Nat /\ id \notin S
        /\ K \in Nat /\ Holder \in Nat /\ DistancesDiffer
    <2>1. id \notin S /\ Len(k_buckets[i].contacts) = K
      BY <1>1, <1>2, FullIs
    <2> QED
      BY <1>1, <1>2, <2>1, MembersCounted, MembersAreIds, KBucketAssumption, TableAssumption
  <1>4. PICK room : room = Room
    OBVIOUS
  <1>5. /\ room \in 1 .. K /\ x \in S
        /\ Cardinality(CloserThan(S, x, Holder)) >= room - 1
        /\ ~CloserToTarget(ByHolder[room], id, Holder)
        /\ reply' = [id |-> id, code |-> 0] /\ bucket_of_holder \in DOMAIN k_buckets
    BY <1>1, <1>4 DEF Exchanged, Answer
  <1>6. ByHolder = ByDistance(S, Holder)
    BY <1>1, <1>2 DEF ByHolder, Brother
  <1>7. /\ \A n \in 1 .. K : /\ ByHolder[n] \in S
                             /\ Cardinality(CloserThan(S, ByHolder[n], Holder)) = n - 1
    BY <1>3, <1>6, ByDistanceRanks
  <1>8. PICK b : k_buckets' = [k_buckets EXCEPT ![i] = b] /\ InPlaceOf(k_buckets[i], x, id, b)
    BY <1>1, <1>2, ExchangedBucket
  <1>9. Members(b) = (S \ {x}) \cup {id}
    BY <1>1, <1>8 DEF InPlaceOf
  <1>10. Room' = room /\ Brother' = b
    BY <1>1, <1>4, <1>5, <1>8, RoomKept
  <1> DEFINE N == (S \ {x}) \cup {id}
  <1>11. PICK A, B : A = AllContacts /\ B = AllContacts'
    OBVIOUS
  <1>12. S \subseteq A /\ A \ {x} \subseteq B /\ N \subseteq B
    <2>1. A \ S \subseteq B /\ N \subseteq B
      BY <1>1, <1>2, <1>8, <1>9, <1>11, ContactsAfter
    <2>2. S \subseteq A
      BY <1>1, <1>2, <1>11 DEF AllContacts
    <2> QED
      BY <2>1, <2>2
  <1>13. ~(A \subseteq B) => Cardinality(A \ B) = 1
    <2> SUFFICES ASSUME ~(A \subseteq B) PROVE A \ B = {x}
      BY FS_Singleton
    <2> QED
      BY <1>12
  <1>14. Neighbours(room - 1) \subseteq AllContacts'
    <2> SUFFICES ASSUME NEW m \in 1 .. room - 1 PROVE ByHolder[m] \in AllContacts'
      BY DEF Neighbours
    <2>1. m \in 1 .. K /\ m - 1 < room - 1
      BY <1>3, <1>5
    <2>2. ByHolder[m] \in S /\ Cardinality(CloserThan(S, ByHolder[m], Holder)) = m - 1
      BY <1>7, <2>1
    <2>3. Cardinality(CloserThan(S, x, Holder)) \in Nat
      BY <1>3, <1>5, RanksCount
    <2>4. ByHolder[m] # x
      <3> SUFFICES ASSUME ByHolder[m] = x PROVE FALSE
        OBVIOUS
      <3>1. Cardinality(CloserThan(S, x, Holder)) = m - 1
        BY <2>2
      <3> QED
        BY <1>3, <1>5, <2>1, <3>1
    <2> QED
      BY <1>11, <1>12, <2>2, <2>4
  <1>15. id \in Neighbours(Room)'
    <2>1. N \in SUBSET Nat /\ IsFiniteSet(N) /\ id \in N
      BY <1>2, <1>3, FS_RemoveElement, FS_AddElement
    <2>2. room \in 1 .. K /\ ByHolder[room] \in S
          /\ Cardinality(CloserThan(S, ByHolder[room], Holder)) = room - 1
      BY <1>5, <1>7
    <2>3. Cardinality(CloserThan(N, id, Holder)) <= room - 1
      BY <1>2, <1>3, <1>5, <2>2, NewcomerRanks
    <2> DEFINE rank == Cardinality(CloserThan(N, id, Holder))
    <2>4. /\ rank \in Nat /\ ByDistance(N, Holder)[rank + 1] = id
      <3> HIDE DEF N
      <3>1. ByDistance(N, Holder)[Cardinality(CloserThan(N, id, Holder)) + 1] = id
        BY <1>3, <2>1, ByDistanceRanks
      <3>2. Cardinality(CloserThan(N, id, Holder)) \in Nat
        BY <1>3, <2>1, RanksCount
      <3> QED
        BY <3>1, <3>2
    <2> HIDE DEF rank
    <2>5. rank + 1 \in 1 .. room
      BY <1>3, <1>5, <2>3, <2>4 DEF rank
    <2>6. ByHolder' = ByDistance(N, Holder)
      BY <1>9, <1>10 DEF ByHolder
    <2> QED
      BY <1>10, <2>4, <2>5, <2>6 DEF Neighbours
  <1> QED
    BY <1>4, <1>5, <1>11, <1>13, <1>14, <1>15 DEF OnlyExchanges

LEMMA AddRoundOnlyExchanges ==
    ASSUME DistancesDiffer, Typed, Apart, NEW id \in Ids, AddRound(id)
    PROVE  OnlyExchanges
  <1>1. CASE UNCHANGED k_buckets
    BY <1>1 DEF OnlyExchanges, AllContacts
  <1>2. CASE AddOutOfSpace(id) \/ AddRefused(id)
    BY <1>1, <1>2 DEF AddOutOfSpace, AddRefused
  <1>3. CASE AddToBucket(id)
    <2>1. PICK i : i = KBucketIndex(id)
      OBVIOUS
    <2>2. i \in DOMAIN k_buckets /\ Good(k_buckets[i]) /\ ~Full(k_buckets[i], id)
      BY <1>3, <2>1, IdFound DEF AddToBucket
    <2>3. PICK b : b = AddTo(k_buckets[i], id)
      OBVIOUS
    <2>4. Members(b) = Members(k_buckets[i]) \cup {id}
      BY <2>2, <2>3, AddToIs
    <2>5. k_buckets' = [k_buckets EXCEPT ![i] = b]
      BY <1>3, <2>1, <2>3 DEF AddToBucket
    <2>6. AllContacts \subseteq AllContacts'
      BY <2>2, <2>4, <2>5, ContactsAfter
    <2> QED
      BY <2>6 DEF OnlyExchanges
  <1>4. CASE AddSplit(id)
    <2>1. KBucketIndex(id) \in DOMAIN k_buckets /\ SplitKbucket(KBucketIndex(id))
      BY <1>4, IdFound DEF AddSplit
    <2>2. AllContacts' = AllContacts
      BY <2>1, SplitKeepsContacts
    <2> QED
      BY <2>2 DEF OnlyExchanges
  <1>5. CASE AddForce(id)
    BY <1>1, <1>5, ForceEffect, ExchangeKeepsNeighbours
  <1> QED
    BY <1>2, <1>3, <1>4, <1>5 DEF AddRound

LEMMA ExchangesKept ==
    ASSUME DistancesDiffer, Typed, Apart, Next
    PROVE  OnlyExchanges
  <1>1. ASSUME NEW id \in Ids, AddContact(id) PROVE OnlyExchanges
    BY <1>1, AddRoundOnlyExchanges DEF AddContact
  <1>2. CASE AddContactAgain
    BY <1>2, AddRoundOnlyExchanges DEF AddContactAgain, Typed
  <1>3. ASSUME NEW key \in Keys, RemoveContact(key) PROVE OnlyExchanges
    BY <1>3 DEF RemoveContact, NoReply, OnlyExchanges
  <1>4. ASSUME NEW key \in Keys, TouchKBucket(key) PROVE OnlyExchanges
    <2>1. /\ DOMAIN k_buckets' = DOMAIN k_buckets
          /\ \A j \in DOMAIN k_buckets : k_buckets'[j].contacts = k_buckets[j].contacts
      BY <1>4, TouchEffect DEF SameRanges
    <2>2. AllContacts' = AllContacts
      BY <2>1 DEF AllContacts, Members
    <2> QED
      BY <2>2 DEF OnlyExchanges
  <1>5. CASE Clear
    BY <1>5 DEF Clear, NoReply, OnlyExchanges
  <1> QED
    BY <1>1, <1>2, <1>3, <1>4, <1>5 DEF Next

\* SplitKbucket adds the contacts again in the order that keeps the latest first, and but for the
\* exchange of ForceKAcceptNewPeer, which spares every neighbour of the holder but the last, an
\* addition takes nobody's place: for every bucket size, lower end and stray bit
\* (kadroutingtable.cpp:107-168, 277-349).
THEOREM AddDisturbsNoneHolds == DistancesDiffer => (Spec => AddDisturbsNone)
  <1> SUFFICES ASSUME DistancesDiffer PROVE Spec => AddDisturbsNone
    OBVIOUS
  <1>1. Typed /\ Apart /\ [Next]_vars => (Typed /\ Apart)'
    BY TypedKept, ApartKept
  <1>2. Init => Typed /\ Apart
    BY InitTyped, InitApart
  <1>3. Typed /\ Apart /\ [Next]_vars => [SeenOrder]_vars
    BY OrderKept
  <1>4. Typed /\ Apart /\ [Next]_vars => [OnlyExchanges]_vars
    BY ExchangesKept
  <1>5. Spec => [][SeenOrder]_vars
    BY <1>1, <1>2, <1>3, PTL DEF Spec
  <1>6. Spec => [][OnlyExchanges]_vars
    BY <1>1, <1>2, <1>4, PTL DEF Spec
  <1>7. Spec => SeenOrderKept
    BY <1>5, PTL DEF SeenOrderKept, SeenOrder
  <1>8. Spec => AddOnlyExchanges
    BY <1>6 DEF AddOnlyExchanges, OnlyExchanges
  <1> QED
    BY <1>7, <1>8 DEF AddDisturbsNone
-----------------------------------------------------------------------------
(* The clocks.                                                             *)

\* The time of day is further from both ends of an unsigned int than KRefreshTime.
UsualClock == RefreshTime < Now /\ Now + RefreshTime < Word

LEMMA Wraps ==
    ASSUME NEW w \in Nat \ {0}, NEW a \in 0 .. w - 1
    PROVE  a % w = a /\ (a + w) % w = a
  OBVIOUS

LEMMA TouchedAreDue ==
    ASSUME UsualClock, Typed
    PROVE  TouchedAreListed
  <1> SUFFICES ASSUME NEW cpu \in 0 .. RefreshTime, NEW i \in DOMAIN k_buckets
               PROVE  i >= 1 /\ (RefreshDue(k_buckets[i], cpu) <=> k_buckets[i].last_accessed # 0)
    BY DEF TouchedAreListed, RefreshList
  <1>1. /\ Word \in Nat \ {0} /\ Now \in Nat \ {0} /\ RefreshTime \in Nat /\ cpu \in Nat /\ cpu <= RefreshTime
        /\ RefreshTime < Now /\ Now + RefreshTime < Word
    BY TableAssumption DEF UsualClock
  <1>2. i >= 1 /\ k_buckets[i].last_accessed \in {0, Now}
    BY BucketNumbers DEF Typed, Good, Bucket
  <1>3. CASE k_buckets[i].last_accessed = 0
    <2>1. cpu \in 0 .. Word - 1 /\ cpu + Word - 0 = cpu + Word
      BY <1>1
    <2>2. (cpu + Word - 0) % Word = cpu
      BY <1>1, <2>1, Wraps
    <2> QED
      BY <1>1, <1>2, <1>3, <2>2 DEF RefreshDue
  <1>4. CASE k_buckets[i].last_accessed = Now
    <2>1. cpu + Word - Now \in 0 .. Word - 1 /\ cpu + Word - Now > RefreshTime
      BY <1>1
    <2>2. (cpu + Word - Now) % Word = cpu + Word - Now
      BY <1>1, <2>1, Wraps
    <2> QED
      BY <1>1, <1>2, <1>4, <2>1, <2>2 DEF RefreshDue
  <1> QED
    BY <1>2, <1>3, <1>4

\* The unsigned difference of the CPU time and a stamp of the time of day counts every touch as
\* long ago (kadroutingtable.cpp:92-98, 197-206).
THEOREM TouchedAreListedHolds == UsualClock => (Spec => []TouchedAreListed)
  <1> SUFFICES ASSUME UsualClock PROVE Spec => []TouchedAreListed
    OBVIOUS
  <1>1. Typed /\ [Next]_vars => Typed'
    BY TypedKept
  <1>2. Typed => TouchedAreListed
    BY TouchedAreDue
  <1> QED
    BY InitTyped, <1>1, <1>2, PTL DEF Spec
=============================================================================
