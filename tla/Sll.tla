--------------------------------- MODULE Sll ---------------------------------
(* The singly linked list of src/include/common/sll.hh, which keeps the idle  *)
(* threads of the pool: items with a _next pointer, _first, _last and _size.  *)
(* Memory is a set of nodes; a freed node keeps its number and may be taken   *)
(* again. Null is 0. The reference that remove takes is a value, except in    *)
(* remove(iterator), where it points into the item that is deleted: each      *)
(* comparison after that deletion reads freed memory and may go either way.   *)
EXTENDS Naturals, FiniteSets, SequencesExt

CONSTANTS Lists, Nodes, Elem     \* the nodes are numbers above 0

Null == 0

VARIABLES _first, _last, _size,   \* of each list
          _data, _next,           \* of each node
          allocated               \* the nodes that are not free

vars == <<_first, _last, _size, _data, _next, allocated>>

Init ==
  /\ _first = [l \in Lists |-> Null] /\ _last = [l \in Lists |-> Null]
  /\ _size = [l \in Lists |-> 0]
  /\ _data = [n \in Nodes |-> CHOOSE e \in Elem : TRUE] /\ _next = [n \in Nodes |-> Null]
  /\ allocated = {}

\* The items of a list from _first along _next (a walk longer than memory is cut).
Walk(l) ==
  LET from[k \in 0 .. Cardinality(Nodes), n \in Nodes \cup {Null}] ==
        IF k = 0 \/ n = Null THEN <<>> ELSE <<n>> \o from[k - 1, _next[n]]
  IN from[Cardinality(Nodes), _first[l]]

\* What the list holds, as a sequence.
Contents(l) == [i \in DOMAIN Walk(l) |-> _data[Walk(l)[i]]]

\* new item(e, nx)
New(n, e, nx) ==
  /\ n \notin allocated
  /\ allocated' = allocated \cup {n}
  /\ _data' = [_data EXCEPT ![n] = e]

PushFront(l, e) ==
  \E n \in Nodes :
    /\ New(n, e, _first[l])
    /\ _next' = [_next EXCEPT ![n] = _first[l]]
    /\ _first' = [_first EXCEPT ![l] = n]
    /\ _last' = IF _last[l] = Null THEN [_last EXCEPT ![l] = n] ELSE _last
    /\ _size' = [_size EXCEPT ![l] = @ + 1]

\* Faulty: the old last item is not linked to the new one.
PushBackLoose(l, e) ==
  \E n \in Nodes :
    /\ New(n, e, Null)
    /\ _next' = [_next EXCEPT ![n] = Null]
    /\ _last' = [_last EXCEPT ![l] = n]
    /\ _first' = IF _first[l] = Null THEN [_first EXCEPT ![l] = n] ELSE _first
    /\ _size' = [_size EXCEPT ![l] = @ + 1]

PushBack(l, e) ==
  \E n \in Nodes :
    /\ New(n, e, Null)
    /\ _next' = [m \in Nodes |-> IF m = n THEN Null ELSE IF m = _last[l] THEN n ELSE _next[m]]
    /\ _last' = [_last EXCEPT ![l] = n]
    /\ _first' = IF _first[l] = Null THEN [_first EXCEPT ![l] = n] ELSE _first
    /\ _size' = [_size EXCEPT ![l] = @ + 1]

(* The loop of remove over the items of l; hits are those that compare equal. *)
Unlinked(l, hits) ==
  FoldLeft(LAMBDA s, cur :
             IF cur \in hits
             THEN [s EXCEPT !.first = IF cur = @ THEN _next[cur] ELSE @,
                            !.next = IF cur = s.first THEN @
                                     ELSE [@ EXCEPT ![s.old] = _next[cur]],
                            !.last = IF cur = @ THEN s.old ELSE @,
                            !.gone = @ \cup {cur}]
             ELSE [s EXCEPT !.old = cur],
           [first |-> _first[l], last |-> _last[l], next |-> _next, old |-> Null, gone |-> {}],
           Walk(l))

RemoveWhere(l, hits) ==
  LET s == Unlinked(l, hits) IN
  /\ _first' = [_first EXCEPT ![l] = s.first]
  /\ _last' = [_last EXCEPT ![l] = s.last]
  /\ _next' = s.next
  /\ _size' = [_size EXCEPT ![l] = @ - Cardinality(s.gone)]
  /\ allocated' = allocated \ s.gone
  /\ UNCHANGED _data

RemoveElement(l, e) == RemoveWhere(l, {n \in Nodes : _data[n] = e})

(* remove(iterator): the items after the one that the iterator names are      *)
(* compared with freed memory; guess holds those that seem equal to it.       *)
RemoveIterator(l, i) ==
  \E guess \in SUBSET {j \in DOMAIN Walk(l) : j > i} :
    RemoveWhere(l, {Walk(l)[j] : j \in guess \cup {k \in 1 .. i : _data[Walk(l)[k]] = _data[Walk(l)[i]]}})

\* Faulty: the list that becomes empty keeps its _last.
PopFrontKeepLast(l) ==
  /\ _first[l] # Null
  /\ allocated' = allocated \ {_first[l]}
  /\ _first' = [_first EXCEPT ![l] = _next[_first[l]]]
  /\ _size' = [_size EXCEPT ![l] = @ - 1]
  /\ UNCHANGED <<_data, _next, _last>>

\* pop_front; behead does the same and returns the element.
PopFront(l) ==
  /\ _first[l] # Null
  /\ allocated' = allocated \ {_first[l]}
  /\ _last' = IF _next[_first[l]] = Null THEN [_last EXCEPT ![l] = Null] ELSE _last
  /\ _first' = [_first EXCEPT ![l] = _next[_first[l]]]
  /\ _size' = [_size EXCEPT ![l] = @ - 1]
  /\ UNCHANGED <<_data, _next>>

Clear(l) ==
  /\ _size[l] # 0
  /\ allocated' = allocated \ Range(Walk(l))
  /\ _first' = [_first EXCEPT ![l] = Null]
  /\ _last' = [_last EXCEPT ![l] = Null]
  /\ _size' = [_size EXCEPT ![l] = 0]
  /\ UNCHANGED <<_data, _next>>

(* copy (operator=): clear, then one new item for each of the other list; the *)
(* nodes are taken in some order. A list is not copied onto itself: that      *)
(* reads the items it has just freed.                                         *)
Copy(l, k) ==
  /\ l # k
  /\ LET src == Walk(k)
         free == Nodes \ (allocated \ Range(Walk(l))) IN
     /\ Cardinality(free) >= Len(src)
     /\ \E new \in {s \in [DOMAIN src -> free] : IsInjective(s)} :
          /\ allocated' = (Nodes \ free) \cup Range(new)
          /\ _data' = [n \in Nodes |-> IF n \in Range(new)
                         THEN _data[src[CHOOSE i \in DOMAIN src : new[i] = n]] ELSE _data[n]]
          /\ _next' = [n \in Nodes |-> IF n \in Range(new)
                         THEN LET i == CHOOSE i \in DOMAIN src : new[i] = n
                              IN IF i = Len(src) THEN Null ELSE new[i + 1]
                         ELSE _next[n]]
          /\ _first' = [_first EXCEPT ![l] = IF src = <<>> THEN Null ELSE new[1]]
          /\ _last' = [_last EXCEPT ![l] = IF src = <<>> THEN Null ELSE new[Len(src)]]
          /\ _size' = [_size EXCEPT ![l] = _size[k]]

Next ==
  \E l \in Lists :
    \/ \E e \in Elem : PushFront(l, e) \/ PushBack(l, e) \/ RemoveElement(l, e)
    \/ \E i \in DOMAIN Walk(l) : RemoveIterator(l, i)
    \/ PopFront(l) \/ Clear(l)
    \/ \E k \in Lists : Copy(l, k)

Spec == Init /\ [][Next]_vars

------------------------------------------------------------------------------

\* sll.hh: whatever is pushed, removed and copied, _last and _size agree with
\* the walk along _next, the lists share no item, and exactly the allocated
\* items are in a list: none is lost and none is freed while it is linked - not
\* even when remove(iterator) (line 185) goes on comparing with the element that
\* it has deleted.
ListsAreSound ==
  /\ \A l \in Lists :
       /\ _size[l] = Len(Walk(l))
       /\ IsInjective(Walk(l))
       /\ _last[l] = IF Walk(l) = <<>> THEN Null ELSE Last(Walk(l))
  /\ \A l, k \in Lists : l # k => Range(Walk(l)) \cap Range(Walk(k)) = {}
  /\ allocated = UNION {Range(Walk(l)) : l \in Lists}

\* What a queue of elements may do in a step, told by its contents alone.
QueueStep(c, d) ==
  \E l \in Lists :
    /\ \A k \in Lists \ {l} : d[k] = c[k]
    /\ \/ \E e \in Elem : d[l] \in {<<e>> \o c[l], Append(c[l], e)}
       \/ \E e \in Range(c[l]) : d[l] = SelectSeq(c[l], LAMBDA x : x # e)
       \/ c[l] # <<>> /\ d[l] \in {Tail(c[l]), <<>>}
       \/ \E k \in Lists \ {l} : d[l] = c[k]
       \/ \E i \in DOMAIN c[l], keep \in SUBSET DOMAIN c[l] :
            d[l] = SelectSeq(SubSeq(c[l], 1, i), LAMBDA x : x # c[l][i])
                     \o [n \in 1 .. Cardinality({j \in keep : j > i}) |->
                           c[l][CHOOSE j \in keep : j > i
                                 /\ Cardinality({h \in keep : h > i /\ h <= j}) = n]]

\* sll.hh:103-262: seen through its elements, each call is the one operation on
\* sequences that its name says; remove(iterator) (line 185) does that up to
\* the item of the iterator, and of the items behind it may take any.
IsAQueue == [][QueueStep([l \in Lists |-> Contents(l)], [l \in Lists |-> Contents(l)'])]_vars
==============================================================================
