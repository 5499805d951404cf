----------------------------- MODULE DoublyList -----------------------------
(***************************************************************************)
(* The links of src/src/include/prt_list_external.h.  A list object has two *)
(* pointers and two roles: a head, or a node of the list of some head.  A   *)
(* semaphore's semList is first a node of the unused list, then the head of *)
(* its wait queue.                                                          *)
(*                                                                          *)
(* `lists' is what the callers mean by the links, in the terms of Lists;    *)
(* no operation reads it but to name the object it is called for.  Callers  *)
(* link an object that is not linked already, and unlink one that is; that  *)
(* the kernel does so is Kernel's ListsWellFormed.                          *)
(***************************************************************************)
EXTENDS Integers, Sequences, Functions

L == INSTANCE Lists

CONSTANT Objects
NULL == CHOOSE x : x \notin Objects

VARIABLES next, prev,   \* the two pointers of each object
          lists         \* the list of each head

vars == <<next, prev, lists>>

HeadSet == DOMAIN lists

\* The i-th object round a ring: the head, its nodes, the head again.
Ring(h, l, i) == IF i \in DOMAIN l THEN l[i] ELSE h
At(h, i) == Ring(h, lists[h], i)

OnNoList(o) == \A h \in HeadSet : \A i \in DOMAIN lists[h] : lists[h][i] # o

\* Neither a node nor the head of one: free to be given a role.
Idle(o) == OnNoList(o) /\ (o \in HeadSet => lists[o] = << >>)

\* x as the element behind the k-th, and without the k-th.
Insert(l, k, x) ==
  [i \in 1 .. Len(l) + 1 |-> IF i <= k THEN l[i] ELSE IF i = k + 1 THEN x ELSE l[i - 1]]
Remove(l, k) == [i \in 1 .. Len(l) - 1 |-> IF i < k THEN l[i] ELSE l[i + 1]]

-----------------------------------------------------------------------------
INIT_LIST_OBJECT(o) ==
  /\ next' = [next EXCEPT ![o] = o]
  /\ prev' = [prev EXCEPT ![o] = o]

ListLowLevelAdd(new, before, after) ==
  /\ next' = [next EXCEPT ![new] = after, ![before] = new]
  /\ prev' = [prev EXCEPT ![new] = before, ![after] = new]

ListAdd(new, object) == ListLowLevelAdd(new, object, next[object])

ListTailAdd(new, object) == ListLowLevelAdd(new, prev[object], object)

\* ListLowLevelDelete joins the neighbours; the node's own links become NULL.
ListDelete(node) ==
  /\ next' = [next EXCEPT ![prev[node]] = next[node], ![node] = NULL]
  /\ prev' = [prev EXCEPT ![next[node]] = prev[node], ![node] = NULL]

ListEmpty(object) == next[object] = object /\ prev[object] = object

-----------------------------------------------------------------------------
\* The control blocks are zeroed before the first list is made.
Init == /\ next = [o \in Objects |-> NULL] /\ prev = next
        /\ lists = [h \in {} |-> << >>]

MakeHead(o) ==
  /\ Idle(o) /\ INIT_LIST_OBJECT(o)
  /\ lists' = [h \in HeadSet \cup {o} |-> IF h = o THEN << >> ELSE lists[h]]

\* n becomes the node behind the k-th of h's list; a head of nothing may.
Joins(n, h, k) ==
  lists' = [g \in HeadSet \ {n} |-> IF g = h THEN Insert(lists[h], k, n) ELSE lists[g]]

\* Behind the head or any node ...
AddBehind(n, h, k) == Idle(n) /\ ListAdd(n, At(h, k)) /\ Joins(n, h, k)

\* ... or before one: before the head at the tail, before a node in a queue that is
\* kept by priority.
AddBefore(n, h, k) == Idle(n) /\ ListTailAdd(n, At(h, k)) /\ Joins(n, h, k - 1)

Delete(h, k) ==
  /\ ListDelete(lists[h][k])
  /\ lists' = [lists EXCEPT ![h] = Remove(@, k)]

Next ==
  \/ \E o \in Objects : MakeHead(o)
  \/ \E n \in Objects, h \in HeadSet :
       /\ n # h
       /\ \/ \E k \in 0 .. Len(lists[h]) : AddBehind(n, h, k)
          \/ \E k \in 1 .. Len(lists[h]) + 1 : AddBefore(n, h, k)
  \/ \E h \in HeadSet : \E k \in DOMAIN lists[h] : Delete(h, k)

Spec == Init /\ [][Next]_vars

-----------------------------------------------------------------------------
LinkTypeOK ==
  /\ next \in [Objects -> Objects \cup {NULL}]
  /\ prev \in [Objects -> Objects \cup {NULL}]
  /\ HeadSet \subseteq Objects
  /\ lists \in [HeadSet -> Seq(Objects)]

\* Following next from a head visits its list in order and comes back, following
\* prev does so backwards ...
RingsClosed ==
  \A h \in HeadSet : \A i \in 0 .. Len(lists[h]) :
    next[At(h, i)] = At(h, i + 1) /\ prev[At(h, i + 1)] = At(h, i)

\* ... no object is on two lists, or twice on one, or head and node at once ...
RingsApart ==
  /\ \A g, h \in HeadSet : \A i \in DOMAIN lists[g], j \in DOMAIN lists[h] :
       lists[g][i] = lists[h][j] => g = h /\ i = j
  /\ \A h \in HeadSet : OnNoList(h)

\* ... and what has no role points nowhere.
LooseEnds == \A o \in Objects \ HeadSet :
               OnNoList(o) => next[o] = NULL /\ prev[o] = NULL

\* The links are the lists the kernel's other modules speak of, whatever the order
\* of initialisations, insertions anywhere, and deletions.
LinksAreLists == RingsClosed /\ RingsApart /\ LooseEnds
=============================================================================
