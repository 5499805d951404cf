-------------------------- MODULE DoublyList_proofs --------------------------
(***************************************************************************)
(* The links of prt_list_external.h always are the lists their callers mean, *)
(* for any set of objects; and the insertions and the deletion of Lists,    *)
(* which the kernel is modelled and proved with, are what they do.          *)
(***************************************************************************)
EXTENDS DoublyList, SequenceTheorems, TLAPS

LinksInv == LinkTypeOK /\ LinksAreLists

\* NULL is no object.
LEMMA NullIsNoObject == NULL \notin Objects
BY NoSetContainsEverything DEF NULL

\* What a sequence with an element put in is.
LEMMA InsertProperties ==
  ASSUME NEW S, NEW l \in Seq(S), NEW k \in 0 .. Len(l), NEW x \in S
  PROVE  /\ Insert(l, k, x) \in Seq(S)
         /\ Len(Insert(l, k, x)) = Len(l) + 1
         /\ DOMAIN Insert(l, k, x) = 1 .. Len(l) + 1
         /\ \A i \in 1 .. k : Insert(l, k, x)[i] = l[i]
         /\ Insert(l, k, x)[k + 1] = x
         /\ \A i \in k + 1 .. Len(l) : Insert(l, k, x)[i + 1] = l[i]
<1>1. DOMAIN l = 1 .. Len(l) /\ Len(l) \in Nat /\ \A i \in 1 .. Len(l) : l[i] \in S
  BY LenProperties, ElementOfSeq
<1>2. \A i \in 1 .. Len(l) + 1 :
        (IF i <= k THEN l[i] ELSE IF i = k + 1 THEN x ELSE l[i - 1]) \in S
  BY <1>1
<1>3. Insert(l, k, x) \in [1 .. Len(l) + 1 -> S]
  BY <1>2 DEF Insert
<1>4. Insert(l, k, x) \in Seq(S) /\ Len(Insert(l, k, x)) = Len(l) + 1
  BY <1>1, <1>3, IsASeq, LenProperties
<1>5. \A i \in k + 1 .. Len(l) : i + 1 \in 1 .. Len(l) + 1 /\ i + 1 > k + 1 /\ i + 1 - 1 = i
  BY <1>1
<1>6. \A i \in k + 1 .. Len(l) : Insert(l, k, x)[i + 1] = l[i + 1 - 1]
  BY <1>1, <1>5 DEF Insert
<1>7. \A i \in k + 1 .. Len(l) : Insert(l, k, x)[i + 1] = l[i]
  BY <1>5, <1>6
<1>8. DOMAIN Insert(l, k, x) = 1 .. Len(l) + 1
  BY DEF Insert
<1>9. (\A i \in 1 .. k : Insert(l, k, x)[i] = l[i]) /\ Insert(l, k, x)[k + 1] = x
  BY <1>1 DEF Insert
<1> QED
  BY <1>4, <1>7, <1>8, <1>9

\* What a sequence without one of its elements is.
LEMMA RemoveProperties ==
  ASSUME NEW S, NEW l \in Seq(S), NEW k \in DOMAIN l
  PROVE  /\ Remove(l, k) \in Seq(S)
         /\ Len(Remove(l, k)) = Len(l) - 1
         /\ DOMAIN Remove(l, k) = 1 .. Len(l) - 1
         /\ \A i \in 1 .. k - 1 : Remove(l, k)[i] = l[i]
         /\ \A i \in k .. Len(l) - 1 : Remove(l, k)[i] = l[i + 1]
<1>1. DOMAIN l = 1 .. Len(l) /\ Len(l) \in Nat /\ \A i \in 1 .. Len(l) : l[i] \in S
  BY LenProperties, ElementOfSeq
<1>2. \A i \in 1 .. Len(l) - 1 : (IF i < k THEN l[i] ELSE l[i + 1]) \in S
  BY <1>1
<1>3. Remove(l, k) \in [1 .. Len(l) - 1 -> S]
  BY <1>2 DEF Remove
<1>4. Remove(l, k) \in Seq(S) /\ Len(Remove(l, k)) = Len(l) - 1
  <2>1. Len(l) - 1 \in Nat
    BY <1>1
  <2> QED
    BY <2>1, <1>3, IsASeq, LenProperties
<1>5. /\ DOMAIN Remove(l, k) = 1 .. Len(l) - 1
      /\ \A i \in 1 .. k - 1 : Remove(l, k)[i] = l[i]
      /\ \A i \in k .. Len(l) - 1 : Remove(l, k)[i] = l[i + 1]
  BY <1>1 DEF Remove
<1> QED
  BY <1>4, <1>5

(***************************************************************************)
(* Rings.                                                                   *)
(***************************************************************************)
\* What the invariant says of positions on rings: objects of the right kind, and
\* no two alike.
LEMMA Positions ==
  ASSUME LinksInv
  PROVE  /\ \A h \in HeadSet : /\ lists[h] \in Seq(Objects) /\ Len(lists[h]) \in Nat
                               /\ DOMAIN lists[h] = 1 .. Len(lists[h])
                               /\ h \in Objects
         /\ \A h \in HeadSet : \A i \in DOMAIN lists[h] : lists[h][i] \in Objects
         /\ \A h \in HeadSet : \A i \in 0 .. Len(lists[h]) + 1 : At(h, i) \in Objects
         /\ \A g, h \in HeadSet :
              \A i \in 0 .. Len(lists[g]), j \in 0 .. Len(lists[h]) :
                At(g, i) = At(h, j) => g = h /\ i = j
         /\ \A g, h \in HeadSet :
              \A i \in 1 .. Len(lists[g]) + 1, j \in 1 .. Len(lists[h]) + 1 :
                At(g, i) = At(h, j) => g = h /\ i = j
<1>1. \A h \in HeadSet : /\ lists[h] \in Seq(Objects) /\ h \in Objects
  BY DEF LinksInv, LinkTypeOK
<1>2. \A h \in HeadSet : /\ Len(lists[h]) \in Nat
                         /\ DOMAIN lists[h] = 1 .. Len(lists[h])
                         /\ \A i \in 1 .. Len(lists[h]) : lists[h][i] \in Objects
  BY <1>1, LenProperties, ElementOfSeq
<1>3. \A h \in HeadSet : \A i \in 0 .. Len(lists[h]) + 1 :
        At(h, i) = IF i \in 1 .. Len(lists[h]) THEN lists[h][i] ELSE h
  BY <1>2 DEF At, Ring
<1>4. \A h \in HeadSet : \A i \in 0 .. Len(lists[h]) + 1 : At(h, i) \in Objects
  BY <1>1, <1>2, <1>3
<1>5. /\ \A g, h \in HeadSet : \A i \in 1 .. Len(lists[g]), j \in 1 .. Len(lists[h]) :
           lists[g][i] = lists[h][j] => g = h /\ i = j
      /\ \A g, h \in HeadSet : \A i \in 1 .. Len(lists[g]) : lists[g][i] # h
  BY <1>2 DEF LinksInv, LinksAreLists, RingsApart, OnNoList
<1>6. ASSUME NEW g \in HeadSet, NEW h \in HeadSet,
             NEW i \in 0 .. Len(lists[g]), NEW j \in 0 .. Len(lists[h]),
             At(g, i) = At(h, j)
      PROVE  g = h /\ i = j
  BY <1>2, <1>3, <1>5, <1>6
<1>7. ASSUME NEW g \in HeadSet, NEW h \in HeadSet,
             NEW i \in 1 .. Len(lists[g]) + 1, NEW j \in 1 .. Len(lists[h]) + 1,
             At(g, i) = At(h, j)
      PROVE  g = h /\ i = j
  BY <1>2, <1>3, <1>5, <1>7
<1> QED
  BY <1>1, <1>2, <1>4, <1>6, <1>7

\* An idle object is on no ring but perhaps its own, empty, one.
LEMMA IdleIsApart ==
  ASSUME LinksInv, NEW n \in Objects, Idle(n)
  PROVE  \A h \in HeadSet \ {n} : \A i \in 0 .. Len(lists[h]) + 1 : At(h, i) # n
BY DEF Idle, OnNoList, At, Ring

\* A node linked in behind the k-th of a ring, whoever computed its neighbours.
LEMMA AddKeepsLinks ==
  ASSUME LinksInv, NEW n \in Objects, Idle(n), NEW h \in HeadSet, n # h,
         NEW k \in 0 .. Len(lists[h]), Joins(n, h, k),
         ListLowLevelAdd(n, At(h, k), At(h, k + 1))
  PROVE  LinksInv'
<1>1. HeadSet' = HeadSet \ {n} /\ h \in HeadSet'
  BY DEF Joins, HeadSet
<1>2. /\ lists'[h] = Insert(lists[h], k, n)
      /\ \A g \in HeadSet' : g # h => lists'[g] = lists[g]
  BY DEF Joins, HeadSet
<1> DEFINE len == Len(lists[h])
<1> HIDE DEF len
<1>3. /\ len \in Nat /\ DOMAIN lists[h] = 1 .. len /\ lists[h] \in Seq(Objects)
      /\ lists'[h] \in Seq(Objects) /\ Len(lists'[h]) = len + 1
      /\ DOMAIN lists'[h] = 1 .. len + 1
      /\ \A i \in 1 .. k : lists'[h][i] = lists[h][i]
      /\ lists'[h][k + 1] = n
      /\ \A i \in k + 1 .. len : lists'[h][i + 1] = lists[h][i]
      /\ k \in 0 .. len /\ len = Len(lists[h])
  <2>1. lists[h] \in Seq(Objects) /\ len \in Nat /\ DOMAIN lists[h] = 1 .. len
    BY Positions DEF len
  <2>2. n \in Objects /\ k \in 0 .. len
    BY DEF len
  <2>3. /\ Insert(lists[h], k, n) \in Seq(Objects)
        /\ Len(Insert(lists[h], k, n)) = Len(lists[h]) + 1
        /\ DOMAIN Insert(lists[h], k, n) = 1 .. Len(lists[h]) + 1
        /\ \A i \in 1 .. k : Insert(lists[h], k, n)[i] = lists[h][i]
        /\ Insert(lists[h], k, n)[k + 1] = n
        /\ \A i \in k + 1 .. Len(lists[h]) : Insert(lists[h], k, n)[i + 1] = lists[h][i]
    <3> DEFINE l == lists[h]
    <3>1. l \in Seq(Objects) /\ k \in 0 .. Len(l)
      BY <2>1
    <3> HIDE DEF l
    <3>2. Insert(l, k, n) \in Seq(Objects)
      BY <3>1, InsertProperties
    <3>3. Len(Insert(l, k, n)) = Len(l) + 1
      BY <3>1, InsertProperties
    <3>4. DOMAIN Insert(l, k, n) = 1 .. Len(l) + 1
      BY <3>1, InsertProperties
    <3>5. \A i \in 1 .. k : Insert(l, k, n)[i] = l[i]
      BY <3>1, InsertProperties
    <3>6. Insert(l, k, n)[k + 1] = n
      BY <3>1, InsertProperties
    <3>7. \A i \in k + 1 .. Len(l) : Insert(l, k, n)[i + 1] = l[i]
      BY <3>1, InsertProperties
    <3> QED
      BY <3>2, <3>3, <3>4, <3>5, <3>6, <3>7 DEF l
  <2> QED
    BY <2>1, <2>2, <2>3, <1>2 DEF len
<1>4. \A g \in HeadSet' : g # h =>
        /\ \A i \in 0 .. Len(lists[g]) + 1 : Ring(g, lists'[g], i) = At(g, i)
        /\ Len(lists'[g]) = Len(lists[g])
  BY <1>2 DEF At, Ring
<1>5. /\ \A i \in 0 .. k : Ring(h, lists'[h], i) = At(h, i)
      /\ Ring(h, lists'[h], k + 1) = n
      /\ \A i \in k + 1 .. len + 1 : Ring(h, lists'[h], i + 1) = At(h, i)
  <2>1. \A i \in 0 .. k : Ring(h, lists'[h], i) = At(h, i)
    BY <1>3 DEF At, Ring
  <2>2. Ring(h, lists'[h], k + 1) = n
    BY <1>3 DEF At, Ring
  <2>3. \A i \in k + 1 .. len : Ring(h, lists'[h], i + 1) = At(h, i)
    BY <1>3 DEF At, Ring
  <2>4. Ring(h, lists'[h], len + 2) = At(h, len + 1)
    BY <1>3 DEF At, Ring
  <2>5. \A i \in k + 1 .. len + 1 : i \in k + 1 .. len \/ (i = len + 1 /\ i + 1 = len + 2)
    BY <1>3
  <2> QED
    <3>1. ASSUME NEW i \in k + 1 .. len + 1 PROVE Ring(h, lists'[h], i + 1) = At(h, i)
      <4>1. CASE i \in k + 1 .. len
        BY <2>3, <4>1
      <4>2. CASE i = len + 1 /\ i + 1 = len + 2
        BY <2>4, <4>2
      <4> QED
        BY <2>5, <4>1, <4>2
    <3> QED
      BY <2>1, <2>2, <3>1
<1>6. /\ next' = [next EXCEPT ![n] = At(h, k + 1), ![At(h, k)] = n]
      /\ prev' = [prev EXCEPT ![n] = At(h, k), ![At(h, k + 1)] = n]
      /\ At(h, k) \in Objects /\ At(h, k + 1) \in Objects
      /\ At(h, k) # n /\ At(h, k + 1) # n
      /\ next \in [Objects -> Objects \cup {NULL}] /\ prev \in [Objects -> Objects \cup {NULL}]
  BY <1>3, Positions, IdleIsApart DEF ListLowLevelAdd, LinksInv, LinkTypeOK
<1>7. /\ next'[n] = At(h, k + 1) /\ next'[At(h, k)] = n
      /\ prev'[n] = At(h, k) /\ prev'[At(h, k + 1)] = n
      /\ \A o \in Objects : o # n /\ o # At(h, k) => next'[o] = next[o]
      /\ \A o \in Objects : o # n /\ o # At(h, k + 1) => prev'[o] = prev[o]
  BY <1>6
<1>8. LinkTypeOK'
  <2>1. HeadSet' \subseteq Objects /\ \A g \in HeadSet' : lists'[g] \in Seq(Objects)
    BY <1>1, <1>2, <1>3, Positions
  <2>2. lists' \in [HeadSet' -> Seq(Objects)]
    BY <2>1 DEF Joins, HeadSet
  <2>3. /\ next' \in [Objects -> Objects \cup {NULL}]
        /\ prev' \in [Objects -> Objects \cup {NULL}]
    BY <1>6
  <2> QED
    BY <2>1, <2>2, <2>3 DEF LinkTypeOK
<1>9. RingsClosed'
  <2> SUFFICES ASSUME NEW g \in HeadSet', NEW i \in 0 .. Len(lists'[g])
               PROVE  /\ next'[Ring(g, lists'[g], i)] = Ring(g, lists'[g], i + 1)
                      /\ prev'[Ring(g, lists'[g], i + 1)] = Ring(g, lists'[g], i)
    BY DEF RingsClosed, At
  <2>1. /\ \A j \in 0 .. Len(lists[g]) : At(g, j) # n /\ At(g, j + 1) # n
        /\ Len(lists[g]) \in Nat
    BY <1>1, Positions, IdleIsApart
  <2>2. \A j \in 0 .. Len(lists[g]) :
          /\ next[At(g, j)] = At(g, j + 1) /\ prev[At(g, j + 1)] = At(g, j)
          /\ At(g, j) \in Objects /\ At(g, j + 1) \in Objects
    BY <1>1, <2>1, Positions DEF LinksInv, LinksAreLists, RingsClosed
  <2>3. CASE g # h
    <3>1. /\ Ring(g, lists'[g], i) = At(g, i) /\ Ring(g, lists'[g], i + 1) = At(g, i + 1)
          /\ i \in 0 .. Len(lists[g])
      BY <1>4, <2>1, <2>3
    <3>2. /\ g \in HeadSet /\ h \in HeadSet /\ k \in 0 .. Len(lists[h])
          /\ i + 1 \in 1 .. Len(lists[g]) + 1 /\ k + 1 \in 1 .. Len(lists[h]) + 1
      BY <1>1, <1>3, <2>1, <3>1
    <3>3. At(g, i) # At(h, k)
      BY <2>3, <3>1, <3>2, Positions
    <3>4. At(g, i + 1) # At(h, k + 1)
      BY <2>3, <3>2, Positions
    <3> QED
      BY <1>7, <2>1, <2>2, <3>1, <3>3, <3>4
  <2>4. CASE g = h /\ i < k
    <3>1. /\ Ring(h, lists'[h], i) = At(h, i) /\ Ring(h, lists'[h], i + 1) = At(h, i + 1)
          /\ i \in 0 .. len
      BY <1>3, <1>5, <2>4
    <3>2. At(h, i) # At(h, k) /\ At(h, i + 1) # At(h, k + 1)
      BY <1>3, <2>4, <3>1, Positions
    <3> QED
      BY <1>7, <2>1, <2>2, <2>4, <3>1, <3>2
  <2>5. CASE g = h /\ i = k
    BY <1>3, <1>5, <1>7, <2>5
  <2>6. CASE g = h /\ i = k + 1
    BY <1>3, <1>5, <1>7, <2>6
  <2>7. CASE g = h /\ i > k + 1
    <3>1. PICK j \in k + 1 .. len : i = j + 1
      <4>1. i - 1 \in k + 1 .. len /\ i = (i - 1) + 1
        BY <1>3, <2>7
      <4> QED
        BY <4>1
    <3>2. /\ h \in HeadSet /\ k \in 0 .. Len(lists[h]) /\ j \in 0 .. Len(lists[h])
          /\ j \in k + 1 .. len + 1 /\ j + 1 \in k + 1 .. len + 1 /\ j # k
      BY <1>3
    <3>3. Ring(h, lists'[h], i) = At(h, j) /\ Ring(h, lists'[h], i + 1) = At(h, j + 1)
      BY <1>5, <3>1, <3>2
    <3>4. At(h, j) # At(h, k)
      BY <3>2, Positions
    <3>5. At(h, j + 1) # At(h, k + 1)
      BY <1>3, <3>2, Positions
    <3>6. /\ next[At(h, j)] = At(h, j + 1) /\ prev[At(h, j + 1)] = At(h, j)
          /\ At(h, j) \in Objects /\ At(h, j + 1) \in Objects
          /\ At(h, j) # n /\ At(h, j + 1) # n
      BY <2>1, <2>2, <2>7, <3>2
    <3>7. next'[At(h, j)] = At(h, j + 1) /\ prev'[At(h, j + 1)] = At(h, j)
      BY <1>7, <3>4, <3>5, <3>6
    <3> QED
      BY <2>7, <3>3, <3>7
  <2> QED
    BY <1>3, <2>3, <2>4, <2>5, <2>6, <2>7
<1>10. RingsApart'
  <2> DEFINE old(i) == IF i <= k THEN i ELSE i - 1
  <2>0. /\ lists'[h][k + 1] = n
        /\ \A i \in DOMAIN lists'[h] : i # k + 1 =>
             old(i) \in DOMAIN lists[h] /\ lists'[h][i] = lists[h][old(i)]
        /\ \A i, j \in DOMAIN lists'[h] :
             i # k + 1 /\ j # k + 1 /\ old(i) = old(j) => i = j
    <3>1. \A i \in DOMAIN lists'[h] : i > k + 1 =>
            i - 1 \in k + 1 .. len /\ (i - 1) + 1 = i
      BY <1>3
    <3>2. \A i \in DOMAIN lists'[h] : i > k + 1 =>
            lists'[h][i] = lists[h][i - 1]
      BY <1>3, <3>1
    <3>3. \A i \in DOMAIN lists'[h] : i # k + 1 =>
            (i \in 1 .. k /\ old(i) = i) \/ (i > k + 1 /\ old(i) = i - 1)
      BY <1>3
    <3>4. \A i \in DOMAIN lists'[h] : i # k + 1 =>
             old(i) \in DOMAIN lists[h] /\ lists'[h][i] = lists[h][old(i)]
      BY <1>3, <3>1, <3>2, <3>3
    <3>5. \A i, j \in DOMAIN lists'[h] :
             i # k + 1 /\ j # k + 1 /\ old(i) = old(j) => i = j
      BY <1>3
    <3> QED
      BY <1>3, <3>4, <3>5
  <2> HIDE DEF old
  <2>1. \A g \in HeadSet' : \A i \in DOMAIN lists[g] : lists[g][i] # n
    BY <1>1 DEF Idle, OnNoList
  <2>2. /\ \A f, g \in HeadSet' : \A i \in DOMAIN lists[f], j \in DOMAIN lists[g] :
            lists[f][i] = lists[g][j] => f = g /\ i = j
        /\ \A f, g \in HeadSet' : \A i \in DOMAIN lists[g] : lists[g][i] # f
    BY <1>1 DEF LinksInv, LinksAreLists, RingsApart, OnNoList
  <2>3. ASSUME NEW f \in HeadSet', NEW g \in HeadSet',
               NEW i \in DOMAIN lists'[f], NEW j \in DOMAIN lists'[g],
               lists'[f][i] = lists'[g][j]
        PROVE  f = g /\ i = j
    <3>1. CASE f # h /\ g # h
      BY <1>2, <2>2, <2>3, <3>1
    <3>2. CASE f = h /\ g # h
      BY <1>2, <2>0, <2>1, <2>2, <2>3, <3>2
    <3>3. CASE f # h /\ g = h
      BY <1>2, <2>0, <2>1, <2>2, <2>3, <3>3
    <3>4. CASE f = h /\ g = h
      BY <2>0, <2>1, <2>2, <2>3, <3>4
    <3> QED
      BY <3>1, <3>2, <3>3, <3>4
  <2>4. ASSUME NEW f \in HeadSet', NEW g \in HeadSet', NEW i \in DOMAIN lists'[g]
        PROVE  lists'[g][i] # f
    <3>1. CASE g # h
      BY <1>2, <2>2, <3>1
    <3>2. CASE g = h
      BY <1>1, <2>0, <2>2, <2>4, <3>2
    <3> QED
      BY <3>1, <3>2
  <2> QED
    BY <2>3, <2>4 DEF RingsApart, OnNoList
<1>11. LooseEnds'
  <2> SUFFICES ASSUME NEW o \in Objects \ HeadSet', OnNoList(o)'
               PROVE  next'[o] = NULL /\ prev'[o] = NULL
    BY DEF LooseEnds
  <2>1. o # n
    BY <1>1, <1>3 DEF OnNoList
  <2>2. o \notin HeadSet
    BY <1>1, <2>1
  <2>3. \A i \in 1 .. len : lists[h][i] # o
    <3>1. \A i \in 1 .. len + 1 : lists'[h][i] # o
      BY <1>1, <1>3 DEF OnNoList
    <3>2. ASSUME NEW i \in 1 .. len PROVE lists[h][i] # o
      <4>1. i <= k => lists'[h][i] = lists[h][i]
        BY <1>3
      <4>2. i > k => lists'[h][i + 1] = lists[h][i]
        BY <1>3
      <4>3. (i <= k /\ i \in 1 .. len + 1) \/ (i > k /\ i + 1 \in 1 .. len + 1)
        BY <1>3
      <4> QED
        BY <3>1, <4>1, <4>2, <4>3
    <3> QED
      BY <3>2
  <2>4. OnNoList(o)
    <3>1. ASSUME NEW g \in HeadSet, NEW i \in DOMAIN lists[g] PROVE lists[g][i] # o
      <4>1. CASE g = h
        BY <1>3, <2>3, <4>1
      <4>2. CASE g = n
        BY <4>2 DEF Idle
      <4>3. CASE g # h /\ g # n
        BY <1>1, <1>2, <4>3 DEF OnNoList
      <4> QED
        BY <4>1, <4>2, <4>3
    <3> QED
      BY <3>1 DEF OnNoList
  <2>5. next[o] = NULL /\ prev[o] = NULL
    BY <2>2, <2>4 DEF LinksInv, LinksAreLists, LooseEnds
  <2>6. o # At(h, k) /\ o # At(h, k + 1)
    BY <1>3, <2>2, <2>3 DEF At, Ring
  <2> QED
    BY <1>7, <2>1, <2>5, <2>6
<1> QED
  BY <1>8, <1>9, <1>10, <1>11 DEF LinksInv, LinksAreLists

\* A node taken out of a ring.
LEMMA DeleteKeepsLinks ==
  ASSUME LinksInv, NEW h \in HeadSet, NEW k \in DOMAIN lists[h], Delete(h, k)
  PROVE  LinksInv'
<1> DEFINE len == Len(lists[h])
           n == lists[h][k]
<1>1. /\ HeadSet' = HeadSet
      /\ lists'[h] = Remove(lists[h], k)
      /\ \A g \in HeadSet : g # h => lists'[g] = lists[g]
  BY DEF Delete, HeadSet
<1>2. /\ lists[h] \in Seq(Objects) /\ len \in Nat /\ DOMAIN lists[h] = 1 .. len
      /\ h \in Objects /\ n \in Objects /\ k \in 1 .. len
  BY Positions
<1>3. /\ lists'[h] \in Seq(Objects) /\ Len(lists'[h]) = len - 1
      /\ DOMAIN lists'[h] = 1 .. len - 1
      /\ \A i \in 1 .. k - 1 : lists'[h][i] = lists[h][i]
      /\ \A i \in k .. len - 1 : lists'[h][i] = lists[h][i + 1]
  <2> DEFINE l == lists[h]
  <2>1. l \in Seq(Objects) /\ k \in DOMAIN l
    BY <1>2
  <2> HIDE DEF l
  <2>2. /\ Remove(l, k) \in Seq(Objects) /\ Len(Remove(l, k)) = Len(l) - 1
        /\ DOMAIN Remove(l, k) = 1 .. Len(l) - 1
        /\ \A i \in 1 .. k - 1 : Remove(l, k)[i] = l[i]
        /\ \A i \in k .. Len(l) - 1 : Remove(l, k)[i] = l[i + 1]
    BY <2>1, RemoveProperties
  <2> QED
    BY <1>1, <2>2 DEF l
<1>4. \A g \in HeadSet : g # h =>
        \A i \in 0 .. Len(lists[g]) + 1 : Ring(g, lists'[g], i) = At(g, i)
  BY <1>1 DEF At
<1>5. /\ At(h, k) = n /\ len = Len(lists[h])
      /\ k - 1 \in 0 .. len /\ k + 1 \in 1 .. len + 1 /\ (k - 1) + 1 = k
  BY <1>2 DEF At, Ring
<1> HIDE DEF len, n
<1>6. /\ \A i \in 0 .. k - 1 : Ring(h, lists'[h], i) = At(h, i)
      /\ \A i \in k .. len : Ring(h, lists'[h], i) = At(h, i + 1)
  <2>1. \A i \in 0 .. k - 1 : Ring(h, lists'[h], i) = At(h, i)
    BY <1>2, <1>3 DEF At, Ring
  <2>2. \A i \in k .. len - 1 : Ring(h, lists'[h], i) = At(h, i + 1)
    BY <1>2, <1>3 DEF At, Ring
  <2>3. Ring(h, lists'[h], len) = At(h, len + 1)
    BY <1>2, <1>3 DEF At, Ring
  <2>4. \A i \in k .. len : i \in k .. len - 1 \/ i = len
    BY <1>2
  <2> QED
    BY <2>1, <2>2, <2>3, <2>4
<1>7. \A g \in HeadSet : \A i \in 0 .. Len(lists[g]) :
        /\ next[At(g, i)] = At(g, i + 1) /\ prev[At(g, i + 1)] = At(g, i)
        /\ At(g, i) \in Objects /\ At(g, i + 1) \in Objects
  BY Positions DEF LinksInv, LinksAreLists, RingsClosed
<1>8. /\ next[n] = At(h, k + 1) /\ prev[n] = At(h, k - 1)
      /\ At(h, k - 1) \in Objects /\ At(h, k + 1) \in Objects
  BY <1>2, <1>5, <1>7
<1>9. /\ At(h, k - 1) # n /\ At(h, k + 1) # n
  <2>1. At(h, k - 1) # At(h, k)
    BY <1>2, <1>5, Positions
  <2>2. At(h, k + 1) # At(h, k)
    BY <1>2, <1>5, Positions
  <2> QED
    BY <1>5, <2>1, <2>2
<1>10. /\ next' = [next EXCEPT ![At(h, k - 1)] = At(h, k + 1), ![n] = NULL]
       /\ prev' = [prev EXCEPT ![At(h, k + 1)] = At(h, k - 1), ![n] = NULL]
       /\ next \in [Objects -> Objects \cup {NULL}] /\ prev \in [Objects -> Objects \cup {NULL}]
  BY <1>8 DEF Delete, ListDelete, n, LinksInv, LinkTypeOK
<1>11. /\ next'[At(h, k - 1)] = At(h, k + 1) /\ next'[n] = NULL
       /\ prev'[At(h, k + 1)] = At(h, k - 1) /\ prev'[n] = NULL
       /\ \A o \in Objects : o # n /\ o # At(h, k - 1) => next'[o] = next[o]
       /\ \A o \in Objects : o # n /\ o # At(h, k + 1) => prev'[o] = prev[o]
  BY <1>2, <1>8, <1>9, <1>10
<1>12. LinkTypeOK'
  <2>1. lists' \in [HeadSet' -> Seq(Objects)]
    BY <1>1, <1>3 DEF Delete, LinksInv, LinkTypeOK
  <2>2. /\ next' \in [Objects -> Objects \cup {NULL}]
        /\ prev' \in [Objects -> Objects \cup {NULL}]
    BY <1>8, <1>10
  <2> QED
    BY <1>1, <2>1, <2>2 DEF LinksInv, LinkTypeOK
<1>13. RingsClosed'
  <2> SUFFICES ASSUME NEW g \in HeadSet, NEW i \in 0 .. Len(lists'[g])
               PROVE  /\ next'[Ring(g, lists'[g], i)] = Ring(g, lists'[g], i + 1)
                      /\ prev'[Ring(g, lists'[g], i + 1)] = Ring(g, lists'[g], i)
    BY <1>1 DEF RingsClosed, At
  <2>1. ASSUME NEW f \in HeadSet, NEW j \in 0 .. Len(lists[f]),
               ~ (f = h /\ j \in {k - 1, k})
        PROVE  next'[At(f, j)] = At(f, j + 1) /\ prev'[At(f, j + 1)] = At(f, j)
    <3>0. Len(lists[f]) \in Nat /\ Len(lists[h]) = len /\ len \in Nat /\ k \in 1 .. len
      BY <1>2, <1>5, Positions
    <3>1. /\ j + 1 \in 1 .. Len(lists[f]) + 1 /\ j \in 0 .. Len(lists[f])
          /\ k \in 0 .. Len(lists[h]) /\ k - 1 \in 0 .. Len(lists[h])
          /\ k \in 1 .. Len(lists[h]) + 1 /\ k + 1 \in 1 .. Len(lists[h]) + 1
          /\ j + 1 = k => j = k - 1
          /\ j + 1 = k + 1 => j = k
      BY <3>0
    <3>2. At(f, j) # At(h, k) /\ At(f, j) # At(h, k - 1)
      BY <2>1, <3>1, Positions
    <3>3. At(f, j + 1) # At(h, k) /\ At(f, j + 1) # At(h, k + 1)
      BY <2>1, <3>1, Positions
    <3>4. /\ next[At(f, j)] = At(f, j + 1) /\ prev[At(f, j + 1)] = At(f, j)
          /\ At(f, j) \in Objects /\ At(f, j + 1) \in Objects
      BY <1>7
    <3> QED
      BY <1>5, <1>11, <3>2, <3>3, <3>4
  <2>2. CASE g # h
    <3>1. /\ i \in 0 .. Len(lists[g]) /\ i + 1 \in 0 .. Len(lists[g]) + 1
          /\ i \in 0 .. Len(lists[g]) + 1
      BY <1>1, <2>2, Positions
    <3>2. Ring(g, lists'[g], i) = At(g, i) /\ Ring(g, lists'[g], i + 1) = At(g, i + 1)
      BY <1>4, <2>2, <3>1
    <3> QED
      BY <2>1, <2>2, <3>1, <3>2
  <2>3. CASE g = h /\ i < k - 1
    <3>1. /\ i \in 0 .. Len(lists[h]) /\ i \notin {k - 1, k}
          /\ i \in 0 .. k - 1 /\ i + 1 \in 0 .. k - 1
      <4>1. i \in 0 .. len - 1 /\ i < k - 1 /\ Len(lists[h]) = len
        BY <1>3, <1>5, <2>3
      <4> QED
        BY <1>2, <4>1
    <3>2. Ring(h, lists'[h], i) = At(h, i) /\ Ring(h, lists'[h], i + 1) = At(h, i + 1)
      BY <1>6, <3>1
    <3> QED
      BY <2>1, <2>3, <3>1, <3>2
  <2>4. CASE g = h /\ i = k - 1
    <3>1. k - 1 \in 0 .. k - 1 /\ k \in k .. len
      BY <1>2
    <3>2. Ring(h, lists'[h], k - 1) = At(h, k - 1) /\ Ring(h, lists'[h], k) = At(h, k + 1)
      BY <1>6, <3>1
    <3> QED
      BY <1>5, <1>11, <2>4, <3>2
  <2>5. CASE g = h /\ i > k - 1
    <3>1. /\ i + 1 \in 0 .. Len(lists[h]) /\ i + 1 \notin {k - 1, k}
          /\ i \in k .. len /\ i + 1 \in k .. len
      <4>1. i \in 0 .. len - 1 /\ i > k - 1 /\ Len(lists[h]) = len
        BY <1>3, <1>5, <2>5
      <4> QED
        BY <1>2, <4>1
    <3>2. /\ Ring(h, lists'[h], i) = At(h, i + 1)
          /\ Ring(h, lists'[h], i + 1) = At(h, (i + 1) + 1)
      BY <1>6, <3>1
    <3>3. /\ next'[At(h, i + 1)] = At(h, (i + 1) + 1)
          /\ prev'[At(h, (i + 1) + 1)] = At(h, i + 1)
      BY <2>1, <3>1
    <3> QED
      BY <2>5, <3>2, <3>3
  <2>6. g # h \/ (g = h /\ i < k - 1) \/ (g = h /\ i = k - 1) \/ (g = h /\ i > k - 1)
    BY <1>2, <1>3
  <2> QED
    BY <2>2, <2>3, <2>4, <2>5, <2>6
<1>14. \A i \in DOMAIN lists'[h] :
        \E o \in DOMAIN lists[h] : /\ lists'[h][i] = lists[h][o] /\ o # k
                                  /\ o = IF i < k THEN i ELSE i + 1
  <2> SUFFICES ASSUME NEW i \in DOMAIN lists'[h]
               PROVE  \E o \in DOMAIN lists[h] : /\ lists'[h][i] = lists[h][o] /\ o # k
                                                /\ o = IF i < k THEN i ELSE i + 1
    OBVIOUS
  <2>1. CASE i < k
    <3>1. i \in 1 .. k - 1 /\ i \in DOMAIN lists[h] /\ i # k
      BY <1>2, <1>3, <2>1
    <3> QED
      BY <1>3, <2>1, <3>1
  <2>2. CASE ~ (i < k)
    <3>1. i \in k .. len - 1 /\ i + 1 \in DOMAIN lists[h] /\ i + 1 # k
      BY <1>2, <1>3, <2>2
    <3> QED
      BY <1>3, <2>2, <3>1
  <2> QED
    BY <2>1, <2>2
<1>15. RingsApart'
  <2>1. /\ \A f, g \in HeadSet : \A i \in DOMAIN lists[f], j \in DOMAIN lists[g] :
            lists[f][i] = lists[g][j] => f = g /\ i = j
        /\ \A f, g \in HeadSet : \A i \in DOMAIN lists[g] : lists[g][i] # f
    BY DEF LinksInv, LinksAreLists, RingsApart, OnNoList
  <2>2. ASSUME NEW f \in HeadSet, NEW g \in HeadSet,
               NEW i \in DOMAIN lists'[f], NEW j \in DOMAIN lists'[g],
               lists'[f][i] = lists'[g][j]
        PROVE  f = g /\ i = j
    <3>1. CASE f # h /\ g # h
      BY <1>1, <2>1, <2>2, <3>1
    <3>2. CASE f = h /\ g # h
      BY <1>1, <1>14, <2>1, <2>2, <3>2
    <3>3. CASE f # h /\ g = h
      BY <1>1, <1>14, <2>1, <2>2, <3>3
    <3>4. CASE f = h /\ g = h
      <4>1. PICK a \in DOMAIN lists[h] : /\ lists'[h][i] = lists[h][a]
                                         /\ a = IF i < k THEN i ELSE i + 1
        BY <1>14, <3>4
      <4>2. PICK b \in DOMAIN lists[h] : /\ lists'[h][j] = lists[h][b]
                                         /\ b = IF j < k THEN j ELSE j + 1
        BY <1>14, <3>4
      <4>3. a = b
        BY <2>1, <2>2, <3>4, <4>1, <4>2
      <4>4. i \in 1 .. len - 1 /\ j \in 1 .. len - 1
        BY <1>3, <3>4
      <4> QED
        BY <1>2, <3>4, <4>1, <4>2, <4>3, <4>4
    <3> QED
      BY <3>1, <3>2, <3>3, <3>4
  <2>3. ASSUME NEW f \in HeadSet, NEW g \in HeadSet, NEW i \in DOMAIN lists'[g]
        PROVE  lists'[g][i] # f
    BY <1>1, <1>14, <2>1
  <2> QED
    BY <1>1, <2>2, <2>3 DEF RingsApart, OnNoList
<1>16. LooseEnds'
  <2> SUFFICES ASSUME NEW o \in Objects \ HeadSet, OnNoList(o)'
               PROVE  next'[o] = NULL /\ prev'[o] = NULL
    BY <1>1 DEF LooseEnds
  <2>1. CASE o = n
    BY <1>11, <2>1
  <2>2. CASE o # n
    <3>1. \A i \in DOMAIN lists[h] : lists[h][i] # o
      <4>1. ASSUME NEW i \in 1 .. len PROVE lists[h][i] # o
        <5>1. \A j \in 1 .. len - 1 : lists'[h][j] # o
          BY <1>1, <1>3 DEF OnNoList
        <5>2. CASE i < k
          <6>1. i \in 1 .. k - 1 /\ i \in 1 .. len - 1
            BY <1>2, <5>2
          <6> QED
            BY <1>3, <5>1, <6>1
        <5>3. CASE i = k
          BY <2>2, <5>3 DEF n
        <5>4. CASE i > k
          <6>1. i - 1 \in k .. len - 1 /\ i - 1 \in 1 .. len - 1 /\ (i - 1) + 1 = i
            BY <1>2, <5>4
          <6>2. lists'[h][i - 1] = lists[h][(i - 1) + 1]
            BY <1>3, <6>1
          <6> QED
            BY <5>1, <6>1, <6>2
        <5> QED
          BY <1>2, <5>2, <5>3, <5>4
      <4> QED
        BY <1>2, <4>1
    <3>2. OnNoList(o)
      BY <1>1, <3>1 DEF OnNoList
    <3>3. next[o] = NULL /\ prev[o] = NULL
      BY <3>2 DEF LinksInv, LinksAreLists, LooseEnds
    <3>4. o # At(h, k - 1) /\ o # At(h, k + 1)
      BY <3>1 DEF At, Ring
    <3> QED
      BY <1>11, <2>2, <3>3, <3>4
  <2> QED
    BY <2>1, <2>2
<1> QED
  BY <1>12, <1>13, <1>15, <1>16 DEF LinksInv, LinksAreLists

\* INIT_LIST_OBJECT of an object that has no role, or is the head of nothing.
LEMMA MakeHeadKeepsLinks ==
  ASSUME LinksInv, NEW o \in Objects, MakeHead(o)
  PROVE  LinksInv'
<1>1. /\ HeadSet' = HeadSet \cup {o} /\ lists'[o] = << >>
      /\ \A g \in HeadSet' : g # o => g \in HeadSet /\ lists'[g] = lists[g]
  BY DEF MakeHead, HeadSet
<1>2. /\ next' = [next EXCEPT ![o] = o] /\ prev' = [prev EXCEPT ![o] = o]
      /\ next \in [Objects -> Objects \cup {NULL}] /\ prev \in [Objects -> Objects \cup {NULL}]
  BY DEF MakeHead, INIT_LIST_OBJECT, LinksInv, LinkTypeOK
<1>3. /\ next'[o] = o /\ prev'[o] = o
      /\ \A p \in Objects : p # o => next'[p] = next[p] /\ prev'[p] = prev[p]
  BY <1>2
<1>4. \A g \in HeadSet' : g # o => \A i \in DOMAIN lists[g] : lists[g][i] # o
  BY <1>1 DEF MakeHead, Idle, OnNoList
<1>5. LinkTypeOK'
  <2>1. \A g \in HeadSet' : lists'[g] \in Seq(Objects)
    <3>1. << >> \in Seq(Objects)
      OBVIOUS
    <3> QED
      BY <1>1, <3>1, Positions
  <2>2. lists' \in [HeadSet' -> Seq(Objects)]
    BY <2>1 DEF MakeHead, HeadSet
  <2>3. /\ next' \in [Objects -> Objects \cup {NULL}]
        /\ prev' \in [Objects -> Objects \cup {NULL}]
        /\ HeadSet' \subseteq Objects
    BY <1>1, <1>2 DEF LinksInv, LinkTypeOK
  <2> QED
    BY <2>2, <2>3 DEF LinkTypeOK
<1>6. RingsClosed'
  <2> SUFFICES ASSUME NEW g \in HeadSet', NEW i \in 0 .. Len(lists'[g])
               PROVE  /\ next'[Ring(g, lists'[g], i)] = Ring(g, lists'[g], i + 1)
                      /\ prev'[Ring(g, lists'[g], i + 1)] = Ring(g, lists'[g], i)
    BY DEF RingsClosed, At
  <2>1. CASE g = o
    <3>1. Ring(g, lists'[g], i) = o /\ Ring(g, lists'[g], i + 1) = o
      BY <1>1, <2>1 DEF Ring
    <3> QED
      BY <1>3, <3>1
  <2>2. CASE g # o
    <3>1. g \in HeadSet /\ lists'[g] = lists[g] /\ i \in 0 .. Len(lists[g])
      BY <1>1, <2>2
    <3>2. /\ next[At(g, i)] = At(g, i + 1) /\ prev[At(g, i + 1)] = At(g, i)
          /\ At(g, i) \in Objects /\ At(g, i + 1) \in Objects
      BY <3>1, Positions DEF LinksInv, LinksAreLists, RingsClosed
    <3>3. At(g, i) # o /\ At(g, i + 1) # o
      BY <1>4, <2>2 DEF At, Ring
    <3> QED
      BY <1>3, <3>1, <3>2, <3>3 DEF At
  <2> QED
    BY <2>1, <2>2
<1>7. RingsApart'
  <2>1. \A g \in HeadSet' : \A i \in DOMAIN lists'[g] :
          g # o /\ g \in HeadSet /\ lists'[g] = lists[g]
    BY <1>1, EmptySeq
  <2> QED
    BY <1>1, <1>4, <2>1 DEF LinksInv, LinksAreLists, RingsApart, OnNoList
<1>8. LooseEnds'
  <2> SUFFICES ASSUME NEW p \in Objects \ HeadSet', OnNoList(p)'
               PROVE  next'[p] = NULL /\ prev'[p] = NULL
    BY DEF LooseEnds
  <2>1. p # o /\ p \notin HeadSet
    BY <1>1
  <2>2. OnNoList(p)
    <3>1. ASSUME NEW g \in HeadSet, NEW i \in DOMAIN lists[g] PROVE lists[g][i] # p
      <4>1. CASE g = o
        BY <4>1, EmptySeq DEF MakeHead, Idle
      <4>2. CASE g # o
        BY <1>1, <4>2 DEF OnNoList
      <4> QED
        BY <4>1, <4>2
    <3> QED
      BY <3>1 DEF OnNoList
  <2> QED
    BY <1>3, <2>1, <2>2 DEF LinksInv, LinksAreLists, LooseEnds
<1> QED
  BY <1>5, <1>6, <1>7, <1>8 DEF LinksInv, LinksAreLists

(***************************************************************************)
(* The theorems.                                                            *)
(***************************************************************************)
\* The zeroed control blocks.
LEMMA LinksInit == Init => LinksInv
<1> SUFFICES ASSUME Init PROVE LinksInv
  OBVIOUS
<1>1. HeadSet = {}
  BY DEF Init, HeadSet
<1>2. LinkTypeOK
  BY <1>1 DEF Init, LinkTypeOK, HeadSet
<1>3. LinksAreLists
  BY <1>1 DEF Init, LinksAreLists, RingsClosed, RingsApart, LooseEnds
<1> QED
  BY <1>2, <1>3 DEF LinksInv

\* The invariant survives every operation.  ListAdd and ListTailAdd find the
\* neighbours of the new node by the links.
LEMMA LinksNext ==
  ASSUME LinksInv, [Next]_vars
  PROVE  LinksInv'
<1>1. ASSUME NEW o \in Objects, MakeHead(o) PROVE LinksInv'
  BY <1>1, MakeHeadKeepsLinks
<1>2. ASSUME NEW n \in Objects, NEW h \in HeadSet, n # h,
             NEW k \in 0 .. Len(lists[h]), AddBehind(n, h, k)
      PROVE  LinksInv'
  <2>1. next[At(h, k)] = At(h, k + 1)
    BY DEF LinksInv, LinksAreLists, RingsClosed
  <2>2. ListLowLevelAdd(n, At(h, k), At(h, k + 1))
    BY <1>2, <2>1 DEF AddBehind, ListAdd
  <2> QED
    BY <1>2, <2>2, AddKeepsLinks DEF AddBehind
<1>3. ASSUME NEW n \in Objects, NEW h \in HeadSet, n # h,
             NEW k \in 1 .. Len(lists[h]) + 1, AddBefore(n, h, k)
      PROVE  LinksInv'
  <2>1. k - 1 \in 0 .. Len(lists[h]) /\ (k - 1) + 1 = k
    BY Positions
  <2>2. prev[At(h, (k - 1) + 1)] = At(h, k - 1)
    BY <2>1 DEF LinksInv, LinksAreLists, RingsClosed
  <2>3. ListLowLevelAdd(n, At(h, k - 1), At(h, (k - 1) + 1)) /\ Joins(n, h, k - 1) /\ Idle(n)
    BY <1>3, <2>1, <2>2 DEF AddBefore, ListTailAdd
  <2> QED
    BY <1>3, <2>1, <2>3, AddKeepsLinks
<1>4. ASSUME NEW h \in HeadSet, NEW k \in DOMAIN lists[h], Delete(h, k)
      PROVE  LinksInv'
  BY <1>4, DeleteKeepsLinks
<1>5. CASE UNCHANGED vars
  BY <1>5 DEF vars, LinksInv, LinkTypeOK, LinksAreLists, RingsClosed, RingsApart,
              LooseEnds, OnNoList, At, HeadSet
<1> QED
  BY <1>1, <1>2, <1>3, <1>4, <1>5 DEF Next

\* The links always are the lists the callers mean: the justification of modelling
\* the kernel's queues as sequences.
THEOREM LinksStayLists == Spec => []LinksAreLists
<1>1. Init => LinksInv
  BY LinksInit
<1>2. LinksInv /\ [Next]_vars => LinksInv'
  BY LinksNext
<1>3. LinksInv => LinksAreLists
  BY DEF LinksInv
<1> QED
  BY <1>1, <1>2, <1>3, PTL DEF Spec

\* ListEmpty's test of the two links of a head is the test for the empty list, and
\* OS_LIST_FIRST is the head of another.
THEOREM LinkTests ==
  ASSUME LinksInv, NEW h \in HeadSet
  PROVE  /\ ListEmpty(h) <=> lists[h] = << >>
         /\ lists[h] # << >> => next[h] = Head(lists[h])
<1>1. /\ lists[h] \in Seq(Objects) /\ Len(lists[h]) \in Nat
      /\ DOMAIN lists[h] = 1 .. Len(lists[h])
  BY Positions
<1>2. next[At(h, 0)] = At(h, 0 + 1) /\ prev[At(h, Len(lists[h]) + 1)] = At(h, Len(lists[h]))
  BY <1>1 DEF LinksInv, LinksAreLists, RingsClosed
<1>3. At(h, 0) = h /\ At(h, Len(lists[h]) + 1) = h
  BY <1>1 DEF At, Ring
<1>4. CASE lists[h] = << >>
  <2>1. At(h, 1) = h /\ At(h, Len(lists[h])) = h
    BY <1>4 DEF At, Ring
  <2> QED
    BY <1>2, <1>3, <1>4, <2>1 DEF ListEmpty
<1>5. CASE lists[h] # << >>
  <2>1. 1 \in DOMAIN lists[h] /\ Head(lists[h]) = lists[h][1]
    BY <1>1, <1>5, EmptySeq
  <2>2. next[h] = lists[h][1]
    BY <1>2, <1>3, <2>1 DEF At, Ring
  <2>3. lists[h][1] # h
    BY <2>1 DEF LinksInv, LinksAreLists, RingsApart, OnNoList
  <2> QED
    BY <1>5, <2>1, <2>2, <2>3 DEF ListEmpty
<1> QED
  BY <1>4, <1>5

\* The insertions and the deletion of Lists are these.
THEOREM ListsAreSequences ==
  ASSUME NEW S, NEW l \in Seq(S), NEW x \in S
  PROVE  /\ Insert(l, 0, x) = L!ListAdd(l, x)
         /\ Insert(l, Len(l), x) = L!ListTailAdd(l, x)
         /\ \A k \in DOMAIN l :
              IsInjective(l) => Remove(l, k) = L!ListDelete(l, l[k])
<1>1. DOMAIN l = 1 .. Len(l) /\ Len(l) \in Nat
  BY LenProperties
<1>2. Insert(l, 0, x) = L!ListAdd(l, x)
  <2> DEFINE a == <<x>> \o l
             b == Insert(l, 0, x)
  <2>1. <<x>> \in Seq(S) /\ Len(<<x>>) = 1 /\ <<x>>[1] = x
    OBVIOUS
  <2>2. /\ a \in Seq(S) /\ Len(a) = 1 + Len(l)
        /\ \A i \in 1 .. 1 + Len(l) : a[i] = IF i <= 1 THEN <<x>>[i] ELSE l[i - 1]
    BY <2>1, ConcatProperties
  <2>3. /\ b \in Seq(S) /\ Len(b) = Len(l) + 1
        /\ b[1] = x /\ \A i \in 1 .. Len(l) : b[i + 1] = l[i]
    <3>1. 0 \in 0 .. Len(l)
      BY <1>1
    <3>2. /\ b \in Seq(S) /\ Len(b) = Len(l) + 1
          /\ b[0 + 1] = x /\ \A i \in 0 + 1 .. Len(l) : b[i + 1] = l[i]
      BY <3>1, InsertProperties
    <3> HIDE DEF b
    <3> QED
      BY <3>2
  <2> HIDE DEF a, b
  <2>4. Len(a) = Len(b)
    BY <1>1, <2>2, <2>3
  <2>5. ASSUME NEW i \in 1 .. Len(a) PROVE a[i] = b[i]
    <3>1. CASE i = 1
      BY <1>1, <2>1, <2>2, <2>3, <3>1
    <3>2. CASE i > 1
      <4>1. i - 1 \in 1 .. Len(l) /\ (i - 1) + 1 = i /\ i \in 1 .. 1 + Len(l) /\ ~ (i <= 1)
        BY <1>1, <2>2, <3>2
      <4>2. b[i] = l[i - 1]
        BY <2>3, <4>1
      <4>3. a[i] = l[i - 1]
        BY <2>2, <4>1
      <4> QED
        BY <4>2, <4>3
    <3> QED
      BY <1>1, <2>2, <3>1, <3>2
  <2>6. a = b
    BY <2>2, <2>3, <2>4, <2>5, SeqEqual
  <2> QED
    BY <2>6 DEF L!ListAdd, a, b
<1>3. Insert(l, Len(l), x) = L!ListTailAdd(l, x)
  <2> DEFINE a == Append(l, x)
             b == Insert(l, Len(l), x)
  <2>1. /\ a \in Seq(S) /\ Len(a) = Len(l) + 1
        /\ \A i \in 1 .. Len(l) : a[i] = l[i]
        /\ a[Len(l) + 1] = x
    BY AppendProperties
  <2>2. /\ b \in Seq(S) /\ Len(b) = Len(l) + 1
        /\ \A i \in 1 .. Len(l) : b[i] = l[i]
        /\ b[Len(l) + 1] = x
    <3> DEFINE m == Len(l)
    <3>1. m \in 0 .. Len(l)
      BY <1>1
    <3> HIDE DEF m
    <3>2. Insert(l, m, x) \in Seq(S) /\ Len(Insert(l, m, x)) = Len(l) + 1
      BY <3>1, InsertProperties
    <3>3. \A i \in 1 .. m : Insert(l, m, x)[i] = l[i]
      BY <3>1, InsertProperties
    <3>4. Insert(l, m, x)[m + 1] = x
      BY <3>1, InsertProperties
    <3> QED
      BY <3>2, <3>3, <3>4 DEF m
  <2> HIDE DEF a, b
  <2>3. \A i \in 1 .. Len(a) : a[i] = b[i]
    BY <1>1, <2>1, <2>2
  <2>4. a = b
    BY <2>1, <2>2, <2>3, SeqEqual
  <2> QED
    BY <2>4 DEF L!ListTailAdd, a, b
<1>4. ASSUME NEW k \in DOMAIN l, IsInjective(l)
      PROVE  Remove(l, k) = L!ListDelete(l, l[k])
  <2>1. l[k] \in Range(l) /\ (CHOOSE j \in DOMAIN l : l[j] = l[k]) = k
    <3>1. \A j \in DOMAIN l : l[j] = l[k] => j = k
      BY <1>4 DEF IsInjective
    <3> QED
      BY <3>1 DEF Range
  <2>2. L!ListDelete(l, l[k]) = SubSeq(l, 1, k - 1) \o SubSeq(l, k + 1, Len(l))
    BY <2>1 DEF L!ListDelete, L!Range, Range
  <2> DEFINE p == SubSeq(l, 1, k - 1)
             q == SubSeq(l, k + 1, Len(l))
             a == p \o q
             b == Remove(l, k)
  <2>3. /\ p \in Seq(S) /\ Len(p) = k - 1
        /\ \A i \in 1 .. k - 1 : p[i] = l[i]
    BY <1>1, SubSeqProperties
  <2>4. /\ q \in Seq(S) /\ Len(q) = Len(l) - k
        /\ \A i \in 1 .. Len(l) - k : q[i] = l[k + i]
    BY <1>1, SubSeqProperties
  <2> HIDE DEF p, q
  <2>5. /\ a \in Seq(S) /\ Len(a) = Len(l) - 1
        /\ \A i \in 1 .. k - 1 : a[i] = l[i]
        /\ \A i \in k .. Len(l) - 1 : a[i] = q[i - (k - 1)]
    <3>1. /\ Len(a) = Len(p) + Len(q) /\ a \in Seq(S)
          /\ \A i \in 1 .. Len(p) + Len(q) :
               a[i] = IF i <= Len(p) THEN p[i] ELSE q[i - Len(p)]
      BY <2>3, <2>4, ConcatProperties
    <3> HIDE DEF a
    <3>2. Len(a) = Len(l) - 1
      BY <1>1, <2>3, <2>4, <3>1
    <3>3. \A i \in 1 .. Len(l) - 1 : a[i] = IF i <= k - 1 THEN p[i] ELSE q[i - (k - 1)]
      BY <1>1, <2>3, <2>4, <3>1, <3>2
    <3>4. \A i \in 1 .. k - 1 : i \in 1 .. Len(l) - 1 /\ i <= k - 1
      BY <1>1
    <3>5. \A i \in k .. Len(l) - 1 : i \in 1 .. Len(l) - 1 /\ ~ (i <= k - 1)
      BY <1>1
    <3> QED
      BY <2>3, <3>1, <3>2, <3>3, <3>4, <3>5
  <2>6. \A i \in k .. Len(l) - 1 : a[i] = l[i + 1]
    <3>1. \A i \in k .. Len(l) - 1 : i - (k - 1) \in 1 .. Len(l) - k /\ k + (i - (k - 1)) = i + 1
      BY <1>1
    <3>2. \A i \in k .. Len(l) - 1 : q[i - (k - 1)] = l[k + (i - (k - 1))]
      BY <2>4, <3>1
    <3> QED
      BY <2>5, <3>1, <3>2
  <2>7. /\ b \in Seq(S) /\ Len(b) = Len(l) - 1
        /\ \A i \in 1 .. k - 1 : b[i] = l[i]
        /\ \A i \in k .. Len(l) - 1 : b[i] = l[i + 1]
    BY RemoveProperties
  <2> HIDE DEF a, b
  <2>8. \A i \in 1 .. Len(a) : a[i] = b[i]
    <3>1. \A i \in 1 .. Len(a) : i \in 1 .. k - 1 \/ i \in k .. Len(l) - 1
      BY <1>1, <2>5
    <3> QED
      BY <2>5, <2>6, <2>7, <3>1
  <2>9. a = b
    BY <2>5, <2>7, <2>8, SeqEqual
  <2> QED
    BY <2>2, <2>9 DEF a, b, p, q
<1> QED
  BY <1>2, <1>3, <1>4
==============================================================================
