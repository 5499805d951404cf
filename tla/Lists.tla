------------------------------- MODULE Lists -------------------------------
(***************************************************************************)
(* The doubly linked lists of src/src/include/prt_list_external.h seen as   *)
(* sequences: the run queue, the semaphores' wait queues and the two free   *)
(* lists are all built from them.  A node is on at most one list at a time, *)
(* because it has one pair of links; ListDelete takes the node alone and    *)
(* unlinks it from whichever list holds it.                                 *)
(***************************************************************************)
EXTENDS Integers, Sequences, Functions

\* ListTailAdd: the new node goes between the last node and the list head.
ListTailAdd(l, x) == Append(l, x)

\* ListAdd: the new node goes between the list head and the first node.
ListAdd(l, x) == <<x>> \o l

\* ListDelete, as one list sees it: the neighbours of x are joined.
ListDelete(l, x) ==
  IF x \in Range(l)
  THEN LET i == CHOOSE j \in DOMAIN l : l[j] = x
       IN  SubSeq(l, 1, i - 1) \o SubSeq(l, i + 1, Len(l))
  ELSE l

ListEmpty(l) == l = << >>
=============================================================================
