--------------------------- MODULE Kernel_proofs ---------------------------
(***************************************************************************)
(* The kernel's inductive invariant and the theorems that follow from it.   *)
(* They hold when nobody calls PRT_SemPend with a finite time-out.          *)
(*                                                                          *)
(* Three parts: the lists, the helpers, the calls.                          *)
(***************************************************************************)
EXTENDS Kernel, SequenceTheorems, FiniteSetTheorems, WellFoundedInduction, TLAPS

-----------------------------------------------------------------------------
(***************************************************************************)
(* The lists.  What the list operations do to the elements of a list        *)
(* without duplicates; the rest cites these lemmas and nothing else about   *)
(* sequences.                                                               *)
(***************************************************************************)
\* A list without duplicates whose elements are the set R.
Enumerates(l, R) == IsInjective(l) /\ Range(l) = R

\* An empty list has no elements, and only an empty list has none.
LEMMA EmptyList ==
  ASSUME NEW S, NEW l \in Seq(S)
  PROVE  ListEmpty(l) <=> Range(l) = {}
<1>1. DOMAIN l = 1 .. Len(l) /\ Len(l) \in Nat
  BY LenProperties
<1>2. ASSUME l # << >> PROVE 1 \in DOMAIN l
  BY <1>1, <1>2, EmptySeq
<1>3. l = << >> => DOMAIN l = {}
  BY <1>1, EmptySeq
<1> QED
  BY <1>2, <1>3 DEF ListEmpty, Range

\* The first element of a list is one of its elements.
LEMMA HeadOfList ==
  ASSUME NEW S, NEW l \in Seq(S), l # << >>
  PROVE  /\ Head(l) = l[1] /\ 1 \in DOMAIN l
         /\ Head(l) \in Range(l)
         /\ Head(l) \in S
<1>1. DOMAIN l = 1 .. Len(l) /\ Len(l) \in Nat \ {0}
  BY LenProperties, EmptySeq
<1>2. Head(l) = l[1]
  OBVIOUS
<1> QED
  BY <1>1, <1>2, HeadTailProperties DEF Range

\* An element is appended.
LEMMA RangeOfAppend ==
  ASSUME NEW S, NEW l \in Seq(S), NEW x \in S
  PROVE  Range(Append(l, x)) = Range(l) \cup {x}
<1> DEFINE a == Append(l, x)
<1>1. /\ a \in Seq(S) /\ Len(a) = Len(l) + 1
      /\ \A i \in 1 .. Len(l) : a[i] = l[i]
      /\ a[Len(l) + 1] = x
  BY AppendProperties
<1>2. /\ DOMAIN l = 1 .. Len(l) /\ Len(l) \in Nat
      /\ DOMAIN a = 1 .. Len(l) + 1
  BY <1>1, LenProperties
<1> HIDE DEF a
<1>3. Range(a) = Range(l) \cup {x}
  BY <1>1, <1>2 DEF Range
<1> QED
  BY <1>3 DEF a

\* ListTailAdd adds one element and keeps the list free of duplicates.
LEMMA TailAddList ==
  ASSUME NEW S, NEW l \in Seq(S), NEW R, Enumerates(l, R), NEW x \in S, x \notin R
  PROVE  ListTailAdd(l, x) \in Seq(S) /\ Enumerates(ListTailAdd(l, x), R \cup {x})
<1> DEFINE a == Append(l, x)
<1>1. /\ a \in Seq(S) /\ Len(a) = Len(l) + 1
      /\ \A i \in 1 .. Len(l) : a[i] = l[i]
      /\ a[Len(l) + 1] = x
  BY AppendProperties
<1>2. /\ DOMAIN l = 1 .. Len(l) /\ Len(l) \in Nat
      /\ DOMAIN a = 1 .. Len(l) + 1
  BY <1>1, LenProperties
<1> HIDE DEF a
<1>3. Range(a) = Range(l) \cup {x}
  BY <1>1, <1>2 DEF Range
<1>4. \A i \in DOMAIN l : l[i] # x
  BY DEF Enumerates, Range
<1>5. IsInjective(a)
  BY <1>1, <1>2, <1>4 DEF Enumerates, IsInjective
<1> QED
  BY <1>1, <1>3, <1>5 DEF a, ListTailAdd, Enumerates

\* ListAdd does the same at the other end.
LEMMA AddList ==
  ASSUME NEW S, NEW l \in Seq(S), NEW R, Enumerates(l, R), NEW x \in S, x \notin R
  PROVE  ListAdd(l, x) \in Seq(S) /\ Enumerates(ListAdd(l, x), R \cup {x})
<1> DEFINE a == <<x>> \o l
<1>0. <<x>> \in Seq(S) /\ Len(<<x>>) = 1 /\ <<x>>[1] = x
  OBVIOUS
<1>1. /\ a \in Seq(S) /\ Len(a) = 1 + Len(l)
      /\ \A i \in 1 .. 1 + Len(l) : a[i] = IF i <= 1 THEN x ELSE l[i - 1]
  BY <1>0, ConcatProperties
<1>2. /\ DOMAIN l = 1 .. Len(l) /\ Len(l) \in Nat
      /\ DOMAIN a = 1 .. Len(l) + 1
  BY <1>1, LenProperties
<1> HIDE DEF a
<1>3. /\ a[1] = x /\ 1 \in DOMAIN a
      /\ \A i \in DOMAIN l : i + 1 \in DOMAIN a /\ a[i + 1] = l[i]
      /\ \A i \in DOMAIN a : i # 1 => i - 1 \in DOMAIN l /\ a[i] = l[i - 1]
  BY <1>1, <1>2
<1>4. Range(a) = Range(l) \cup {x}
  BY <1>3 DEF Range
<1>5. IsInjective(a)
  <2> SUFFICES ASSUME NEW i \in DOMAIN a, NEW j \in DOMAIN a, a[i] = a[j]
               PROVE  i = j
    BY DEF IsInjective
  <2>1. \A k \in DOMAIN l : l[k] # x
    BY DEF Enumerates, Range
  <2>2. i = 1 <=> j = 1
    BY <1>3, <2>1
  <2>3. CASE i # 1 /\ j # 1
    <3>1. i - 1 = j - 1
      BY <1>3, <2>3 DEF Enumerates, IsInjective
    <3> QED
      BY <3>1, <1>2
  <2> QED
    BY <2>2, <2>3
<1> QED
  BY <1>1, <1>4, <1>5 DEF a, ListAdd, Enumerates

\* ListDelete removes exactly the element it is given.
LEMMA DeleteList ==
  ASSUME NEW S, NEW l \in Seq(S), NEW R, Enumerates(l, R), NEW x
  PROVE  /\ ListDelete(l, x) \in Seq(S)
         /\ Enumerates(ListDelete(l, x), R \ {x})
         /\ x \notin R => ListDelete(l, x) = l
<1>1. CASE x \notin R
  BY <1>1 DEF ListDelete, Enumerates
<1>2. CASE x \in R
  <2> DEFINE i == CHOOSE j \in DOMAIN l : l[j] = x
             f == SubSeq(l, 1, i - 1)
             b == SubSeq(l, i + 1, Len(l))
             d == f \o b
  <2>1. DOMAIN l = 1 .. Len(l) /\ Len(l) \in Nat
    BY LenProperties
  <2>2. i \in 1 .. Len(l) /\ l[i] = x
    BY <1>2, <2>1 DEF Enumerates, Range
  <2> HIDE DEF i
  <2>3. /\ f \in Seq(S) /\ Len(f) = i - 1
        /\ \A k \in 1 .. i - 1 : f[k] = l[k]
    <3>1. \A k \in 1 .. i - 1 : l[k] \in S
      BY <2>1, <2>2, ElementOfSeq
    <3> QED
      BY <3>1, <2>1, <2>2, SubSeqProperties
  <2>4. /\ b \in Seq(S) /\ Len(b) = Len(l) - i
        /\ \A k \in 1 .. Len(l) - i : b[k] = l[i + k]
    <3>1. \A k \in i + 1 .. Len(l) : l[k] \in S
      BY <2>1, <2>2, ElementOfSeq
    <3>2. i + 1 \in Int /\ Len(l) \in Int
      BY <2>1, <2>2
    <3>3. /\ b \in Seq(S)
          /\ Len(b) = IF i + 1 <= Len(l) THEN Len(l) - (i + 1) + 1 ELSE 0
          /\ \A k \in 1 .. Len(l) - (i + 1) + 1 : b[k] = l[i + 1 + k - 1]
      BY <3>1, <3>2, SubSeqProperties
    <3> HIDE DEF b, f
    <3>4. Len(b) = Len(l) - i /\ Len(l) - (i + 1) + 1 = Len(l) - i
      <4>1. i \in Int /\ Len(l) \in Int /\ i <= Len(l)
        BY <2>1, <2>2
      <4>2. Len(l) - (i + 1) + 1 = Len(l) - i /\ (~ (i + 1 <= Len(l)) => Len(l) - i = 0)
        BY <4>1
      <4> QED
        BY <3>3, <4>2
    <3>5. ASSUME NEW k \in 1 .. Len(l) - i PROVE b[k] = l[i + k]
      <4>1. i + 1 + k - 1 = i + k
        BY <2>1, <2>2
      <4>2. b[k] = l[i + 1 + k - 1]
        BY <3>3, <3>4
      <4> QED
        BY <4>1, <4>2
    <3> QED
      BY <3>3, <3>4, <3>5
  <2> HIDE DEF f, b
  <2>5. /\ d \in Seq(S) /\ Len(d) = Len(l) - 1
        /\ \A k \in 1 .. Len(l) - 1 : d[k] = IF k < i THEN l[k] ELSE l[k + 1]
    <3>1. /\ d \in Seq(S) /\ Len(d) = Len(f) + Len(b)
          /\ \A k \in 1 .. Len(f) + Len(b) :
               d[k] = IF k <= Len(f) THEN f[k] ELSE b[k - Len(f)]
      BY <2>3, <2>4, ConcatProperties
    <3> HIDE DEF d
    <3>2. Len(d) = Len(l) - 1
      BY <3>1, <2>1, <2>2, <2>3, <2>4
    <3>3. ASSUME NEW k \in 1 .. Len(l) - 1
          PROVE  d[k] = IF k < i THEN l[k] ELSE l[k + 1]
      <4>0. d[k] = IF k <= i - 1 THEN f[k] ELSE b[k - (i - 1)]
        BY <3>1, <3>2, <2>3
      <4>1. CASE k < i
        <5>1. k \in 1 .. i - 1 /\ k <= i - 1
          BY <4>1, <2>1, <2>2
        <5>2. f[k] = l[k]
          BY <5>1, <2>3
        <5> QED
          BY <4>0, <4>1, <5>1, <5>2
      <4>2. CASE k >= i
        <5>1. /\ k - (i - 1) \in 1 .. Len(l) - i /\ i + (k - (i - 1)) = k + 1
              /\ ~ (k <= i - 1) /\ ~ (k < i)
          BY <4>2, <2>1, <2>2
        <5>2. b[k - (i - 1)] = l[k + 1]
          BY <5>1, <2>4
        <5> QED
          BY <4>0, <5>1, <5>2
      <4> QED
        BY <4>1, <4>2, <2>1, <2>2
    <3> QED
      BY <3>1, <3>2, <3>3
  <2>6. DOMAIN d = 1 .. Len(l) - 1
    BY <2>5, LenProperties
  <2> HIDE DEF d
  <2>7. \A k \in DOMAIN l : k = i \/ l[k] # x
    BY <2>1, <2>2 DEF Enumerates, IsInjective
  <2>8. Range(d) = Range(l) \ {x}
    <3>1. ASSUME NEW k \in DOMAIN d
          PROVE  \E m \in DOMAIN l : m # i /\ d[k] = l[m]
      <4>1. CASE k < i
        <5>1. k \in DOMAIN l /\ k # i
          BY <4>1, <2>1, <2>2, <2>6
        <5>2. d[k] = l[k]
          BY <4>1, <2>5, <2>6
        <5> QED
          BY <5>1, <5>2
      <4>2. CASE ~ (k < i)
        <5>1. k + 1 \in DOMAIN l /\ k + 1 # i
          BY <4>2, <2>1, <2>2, <2>6
        <5>2. d[k] = l[k + 1]
          BY <4>2, <2>5, <2>6
        <5> QED
          BY <5>1, <5>2
      <4> QED
        BY <4>1, <4>2
    <3>2. \A m \in DOMAIN l : m # i => \E k \in DOMAIN d : d[k] = l[m]
      <4> SUFFICES ASSUME NEW m \in DOMAIN l, m # i
                   PROVE  \E k \in DOMAIN d : d[k] = l[m]
        OBVIOUS
      <4>1. CASE m < i
        <5>1. m \in DOMAIN d
          BY <4>1, <2>1, <2>2, <2>6
        <5>2. d[m] = l[m]
          BY <4>1, <5>1, <2>5, <2>6
        <5> QED
          BY <5>1, <5>2
      <4>2. CASE m > i
        <5>1. m - 1 \in DOMAIN d /\ d[m - 1] = l[m]
          BY <4>2, <2>1, <2>2, <2>5, <2>6
        <5> QED
          BY <5>1
      <4> QED
        BY <4>1, <4>2, <2>1, <2>2
    <3> QED
      BY <3>1, <3>2, <2>2, <2>7 DEF Range
  <2>9. IsInjective(d)
    <3> SUFFICES ASSUME NEW j \in DOMAIN d, NEW k \in DOMAIN d, d[j] = d[k]
                 PROVE  j = k
      BY DEF IsInjective
    <3> DEFINE at(m) == IF m < i THEN m ELSE m + 1
    <3>1. at(j) \in DOMAIN l /\ at(k) \in DOMAIN l
      BY <2>1, <2>2, <2>6
    <3>2. d[j] = l[at(j)] /\ d[k] = l[at(k)]
      BY <2>5, <2>6
    <3>3. at(j) = at(k)
      BY <3>1, <3>2 DEF Enumerates, IsInjective
    <3> QED
      BY <3>3, <2>1, <2>2, <2>6
  <2>10. ListDelete(l, x) = d
    BY <1>2 DEF ListDelete, Enumerates, d, f, b, i
  <2> QED
    BY <1>2, <2>5, <2>8, <2>9, <2>10 DEF Enumerates
<1> QED
  BY <1>1, <1>2

\* Deleting the first element leaves the tail.
LEMMA DeleteHead ==
  ASSUME NEW S, NEW l \in Seq(S), IsInjective(l), l # << >>
  PROVE  ListDelete(l, Head(l)) = Tail(l)
<1>1. DOMAIN l = 1 .. Len(l) /\ Len(l) \in Nat \ {0}
  BY LenProperties, EmptySeq
<1>2. /\ Head(l) = l[1] /\ Head(l) \in Range(l)
  BY HeadOfList
<1>3. (CHOOSE j \in DOMAIN l : l[j] = Head(l)) = 1
  BY <1>1, <1>2 DEF IsInjective
<1>4. ListDelete(l, Head(l)) = SubSeq(l, 1, 0) \o SubSeq(l, 2, Len(l))
  <2>1. 1 - 1 = 0 /\ 1 + 1 = 2
    OBVIOUS
  <2> QED
    BY <1>2, <1>3, <2>1, Zenon DEF ListDelete
<1>5. SubSeq(l, 1, 0) = << >>
  BY SubSeqEmpty
<1>6. Tail(l) \in Seq(S) /\ Tail(l) = SubSeq(l, 2, Len(l))
  BY TailIsSubSeq, HeadTailProperties
<1> QED
  BY <1>4, <1>5, <1>6, ConcatEmptySeq

\* Every non-empty set of natural numbers has a least element.
LEMMA LeastNat ==
  ASSUME NEW T, T \subseteq Nat, T # {}
  PROVE  \E x \in T : \A y \in T : x <= y
<1>1. \E x \in T : \A y \in T : ~ (<<y, x>> \in OpToRel(<, Nat))
  BY NatLessThanWellFounded, WFMin
<1>2. PICK x \in T : \A y \in T : ~ (<<y, x>> \in OpToRel(<, Nat))
  BY <1>1
<1>3. ASSUME NEW y \in T PROVE x <= y
  <2>1. x \in Nat /\ y \in Nat
    OBVIOUS
  <2>2. ~ (y < x)
    BY <1>2, <2>1 DEF OpToRel
  <2> QED
    BY <2>1, <2>2
<1> QED
  BY <1>3

-----------------------------------------------------------------------------
(***************************************************************************)
(* The helpers.  They map one scheduler state to the next: first, what      *)
(* becomes of the lists and the status bits; then, what each helper does to *)
(* a whole scheduler state.  The proofs of the calls cite these lemmas and  *)
(* never open a helper.                                                     *)
(***************************************************************************)
\* The tasks that belong on list h when they have status st and taskSem ts.
On(st, ts, h) ==
  IF h = RunQueue THEN {t \in Tasks : "READY" \in st[t]}
  ELSE IF h = FreeList THEN {t \in Tasks : st[t] = {}}
  ELSE {t \in Tasks : "PEND" \in st[t] /\ ts[t] = h}

\* A task in use is at most one of ready, waiting and suspended.
StatusOK(b) ==
  /\ b # {} => "INUSE" \in b
  /\ "READY" \in b => "PEND" \notin b /\ "SUSPEND" \notin b
  /\ "PEND" \in b => "SUSPEND" \notin b

LinksOK(st, ts, l) ==
  /\ \A t \in Tasks : StatusOK(st[t])
  /\ \A h \in Heads : Enumerates(l[h], On(st, ts, h))

HighestOf(l, prio) == IF ListEmpty(l) THEN NoTask ELSE FirstHighest(l, prio)

SchedType ==
  [status : [TCBs -> SUBSET StatusBits],
   priority : [TCBs -> 0 .. OS_TSK_PRIORITY_LOWEST + 1],
   list : [Heads -> Seq(Tasks)],
   highest : Tasks \cup {NoTask},
   running : TCBs,
   uniFlag : SUBSET {"BGD_ACTIVE", "TSK_REQ"}]

\* A scheduler state in which the lists and the status bits agree, and one in
\* which g_highestTask agrees with them too.
LinkedOK(q, ts) == q \in SchedType /\ LinksOK(q.status, ts, q.list)
SchedOK(q, ts) == /\ LinkedOK(q, ts)
                  /\ q.highest = HighestOf(q.list[RunQueue], q.priority)

\* The bits other than RUNNING are the same.
SameBits(st, st2) ==
  \A t \in Tasks : /\ st2[t] = {} <=> st[t] = {}
                   /\ \A b \in {"INUSE", "READY", "PEND", "SUSPEND"} :
                        b \in st2[t] <=> b \in st[t]

\* r differs from q in priorities and in the order of the run queue only.
SameButOrder(q, r) ==
  /\ r.status = q.status
  /\ r.running = q.running
  /\ r.uniFlag = q.uniFlag
  /\ \A h \in Heads \ {RunQueue} : r.list[h] = q.list[h]

-----------------------------------------------------------------------------
\* The heads are distinct, and pids are not the special values.
LEMMA Names ==
  /\ RunQueue \in Heads /\ FreeList \in Heads /\ Sems \subseteq Heads
  /\ RunQueue # FreeList /\ RunQueue \notin Sems /\ FreeList \notin Sems
  /\ Heads = Sems \cup {RunQueue, FreeList}
  /\ Tasks \subseteq TCBs /\ Zombie \in TCBs /\ Zombie \notin Tasks
  /\ NoTask \notin TCBs /\ NoTask \notin Tasks /\ NoTask # Zombie
  /\ NoSem \notin Sems
BY SizesAssumption
   DEF RunQueue, FreeList, Heads, Sems, Tasks, TCBs, Zombie, NoTask, NoSem

\* Changing one value of a function keeps its type.
LEMMA ExceptType ==
  ASSUME NEW S, NEW T, NEW f \in [S -> T], NEW x, NEW y \in T
  PROVE  [f EXCEPT ![x] = y] \in [S -> T]
OBVIOUS

\* What FirstHighest picks is on the list, nobody there has a higher priority, and
\* the priorities of tasks that are not on the list do not matter.
LEMMA FirstHighestPicks ==
  ASSUME NEW l \in Seq(Tasks), l # << >>,
         NEW prio \in [TCBs -> Nat]
  PROVE  /\ FirstHighest(l, prio) \in Range(l)
         /\ FirstHighest(l, prio) \in Tasks
         /\ \A u \in Range(l) : prio[FirstHighest(l, prio)] <= prio[u]
         /\ \A other \in [TCBs -> Nat] :
              (\A u \in Range(l) : other[u] = prio[u])
                => FirstHighest(l, other) = FirstHighest(l, prio)
<1> DEFINE First(i, p) == /\ \A j \in DOMAIN l : p[l[i]] <= p[l[j]]
                          /\ \A j \in 1 .. i - 1 : p[l[i]] < p[l[j]]
<1>1. DOMAIN l = 1 .. Len(l) /\ Len(l) \in Nat \ {0}
  BY LenProperties, EmptySeq
<1>2. \A i \in DOMAIN l : l[i] \in Tasks /\ l[i] \in Range(l) /\ l[i] \in TCBs
  BY <1>1, ElementOfSeq, Names DEF Range
<1>3. PICK i \in DOMAIN l : First(i, prio)
  <2> DEFINE V == {prio[l[i]] : i \in DOMAIN l}
  <2>1. V \subseteq Nat /\ V # {}
    BY <1>1, <1>2
  <2>2. PICK m \in V : \A v \in V : m <= v
    BY <2>1, LeastNat
  <2> DEFINE I == {i \in DOMAIN l : prio[l[i]] = m}
  <2>3. I \subseteq Nat /\ I # {}
    BY <1>1, <2>2
  <2>4. PICK i \in I : \A j \in I : i <= j
    BY <2>3, LeastNat
  <2>5. \A j \in DOMAIN l : prio[l[i]] <= prio[l[j]]
    BY <2>2, <2>4
  <2>6. ASSUME NEW j \in 1 .. i - 1 PROVE prio[l[i]] < prio[l[j]]
    <3>1. j \in DOMAIN l /\ ~ (i <= j)
      BY <1>1, <2>4
    <3>2. prio[l[i]] <= prio[l[j]] /\ prio[l[j]] # prio[l[i]]
      BY <3>1, <2>4, <2>5
    <3>3. prio[l[i]] \in Nat /\ prio[l[j]] \in Nat
      BY <1>2, <3>1, <2>4
    <3> QED
      BY <3>2, <3>3
  <2> QED
    BY <2>4, <2>5, <2>6
<1>4. ASSUME NEW p \in [TCBs -> Nat], NEW j \in DOMAIN l, NEW k \in DOMAIN l,
             First(j, p), First(k, p)
      PROVE  j = k
  <2>1. ~ (j < k) /\ ~ (k < j)
    <3>1. p[l[j]] \in Nat /\ p[l[k]] \in Nat /\ j \in Nat /\ k \in Nat
      BY <1>1, <1>2
    <3>2. p[l[j]] = p[l[k]]
      BY <1>4, <3>1
    <3>3. j < k => j \in 1 .. k - 1
      BY <1>1
    <3>4. k < j => k \in 1 .. j - 1
      BY <1>1
    <3> QED
      BY <1>4, <3>1, <3>2, <3>3, <3>4
  <2> QED
    BY <1>1, <2>1
<1>5. ASSUME NEW p \in [TCBs -> Nat], First(i, p)
      PROVE  FirstHighest(l, p) = l[i]
  <2>1. (CHOOSE j \in DOMAIN l : First(j, p)) = i
    BY <1>4, <1>5
  <2> QED
    BY <2>1 DEF FirstHighest
<1>6. ASSUME NEW other \in [TCBs -> Nat], \A u \in Range(l) : other[u] = prio[u]
      PROVE  First(i, other)
  <2>1. \A j \in DOMAIN l : other[l[j]] = prio[l[j]]
    BY <1>2, <1>6
  <2>2. \A j \in 1 .. i - 1 : j \in DOMAIN l
    BY <1>1
  <2> QED
    BY <1>3, <2>1, <2>2
<1>7. FirstHighest(l, prio) = l[i]
  BY <1>3, <1>5
<1>8. \A u \in Range(l) : prio[l[i]] <= prio[u]
  BY <1>3 DEF Range
<1> QED
  BY <1>2, <1>5, <1>6, <1>7, <1>8

-----------------------------------------------------------------------------
(***************************************************************************)
(* The lists and the status bits, whatever the rest of the kernel is.       *)
(***************************************************************************)
StatusType == [TCBs -> SUBSET StatusBits]
ListType == [Heads -> Seq(Tasks)]

LEMMA StatusExcept ==
  ASSUME NEW st \in StatusType, NEW t, NEW b, b \subseteq StatusBits
  PROVE  [st EXCEPT ![t] = b] \in StatusType
BY DEF StatusType

\* Unlinking a task from wherever it is, with a status that puts it nowhere.
LEMMA Unlink ==
  ASSUME NEW st \in StatusType, NEW ts, NEW l \in ListType, LinksOK(st, ts, l),
         NEW t \in Tasks, NEW b, b \subseteq StatusBits,
         "INUSE" \in b, "READY" \notin b, "PEND" \notin b,
         NEW st2, st2 = [st EXCEPT ![t] = b],
         NEW l2, l2 = [h \in Heads |-> ListDelete(l[h], t)]
  PROVE  /\ l2 \in ListType
         /\ LinksOK(st2, ts, l2)
         /\ \A h \in Heads : t \notin On(st, ts, h) => l2[h] = l[h]
<1>1. ASSUME NEW h \in Heads
      PROVE  /\ l2[h] \in Seq(Tasks)
             /\ Enumerates(l2[h], On(st, ts, h) \ {t})
             /\ t \notin On(st, ts, h) => l2[h] = l[h]
  <2>1. l[h] \in Seq(Tasks) /\ Enumerates(l[h], On(st, ts, h))
    BY DEF ListType, LinksOK
  <2>2. l2[h] = ListDelete(l[h], t)
    OBVIOUS
  <2> QED
    BY <2>1, <2>2, DeleteList
<1>2. \A u \in Tasks : st2[u] = IF u = t THEN b ELSE st[u]
  BY Names DEF StatusType
<1>3. ASSUME NEW h \in Heads PROVE On(st2, ts, h) = On(st, ts, h) \ {t}
  BY <1>2 DEF On
<1>4. \A u \in Tasks : StatusOK(st2[u])
  BY <1>2 DEF LinksOK, StatusOK
<1> QED
  BY <1>1, <1>3, <1>4 DEF LinksOK, ListType

\* Linking a task that is nowhere on the run queue, with the bit READY.
LEMMA LinkReady ==
  ASSUME NEW st \in StatusType, NEW ts, NEW l \in ListType, LinksOK(st, ts, l),
         NEW t \in Tasks, st[t] # {}, st[t] \cap {"READY", "PEND", "SUSPEND"} = {},
         NEW st2, st2 = [st EXCEPT ![t] = @ \cup {"READY"}],
         NEW l2, l2 = [l EXCEPT ![RunQueue] = ListTailAdd(@, t)]
  PROVE  /\ st2 \in StatusType /\ l2 \in ListType
         /\ LinksOK(st2, ts, l2)
         /\ \A h \in Heads \ {RunQueue} : l2[h] = l[h]
<1>1. t \in TCBs /\ RunQueue \in Heads /\ RunQueue # FreeList
  BY Names
<1>2. \A u \in Tasks : st2[u] = IF u = t THEN st[t] \cup {"READY"} ELSE st[u]
  BY Names DEF StatusType
<1>3. \A h \in Heads : l2[h] = IF h = RunQueue THEN ListTailAdd(l[h], t) ELSE l[h]
  BY DEF ListType
<1>4. st2 \in StatusType
  <2>1. st[t] \cup {"READY"} \subseteq StatusBits
    BY <1>1 DEF StatusType, StatusBits
  <2> QED
    BY <2>1, StatusExcept
<1>5. \A u \in Tasks : StatusOK(st2[u])
  BY <1>2 DEF LinksOK, StatusOK
<1>6. On(st2, ts, RunQueue) = On(st, ts, RunQueue) \cup {t}
  BY <1>2 DEF On
<1>7. t \notin On(st, ts, RunQueue)
  BY DEF On
<1>8. ASSUME NEW h \in Heads \ {RunQueue} PROVE On(st2, ts, h) = On(st, ts, h)
  <2>1. {u \in Tasks : st2[u] = {}} = {u \in Tasks : st[u] = {}}
    BY <1>2
  <2>2. {u \in Tasks : "PEND" \in st2[u] /\ ts[u] = h}
          = {u \in Tasks : "PEND" \in st[u] /\ ts[u] = h}
    BY <1>2
  <2> QED
    BY <2>1, <2>2 DEF On
<1>9. /\ l2[RunQueue] \in Seq(Tasks)
      /\ Enumerates(l2[RunQueue], On(st2, ts, RunQueue))
  <2>1. l[RunQueue] \in Seq(Tasks) /\ Enumerates(l[RunQueue], On(st, ts, RunQueue))
    BY <1>1 DEF ListType, LinksOK
  <2>2. /\ ListTailAdd(l[RunQueue], t) \in Seq(Tasks)
        /\ Enumerates(ListTailAdd(l[RunQueue], t), On(st, ts, RunQueue) \cup {t})
    BY <2>1, <1>7, TailAddList, Zenon
  <2> QED
    BY <2>2, <1>1, <1>3, <1>6
<1>10. l2 \in ListType
  BY <1>1, <1>9 DEF ListType
<1> QED
  BY <1>3, <1>4, <1>5, <1>8, <1>9, <1>10 DEF LinksOK

\* Linking a task that is nowhere on the wait queue of s, with the bit PEND.
LEMMA LinkWait ==
  ASSUME NEW st \in StatusType, NEW ts,
         NEW l \in ListType, LinksOK(st, ts, l),
         NEW t \in Tasks, st[t] # {}, st[t] \cap {"READY", "PEND", "SUSPEND"} = {},
         NEW s \in Sems,
         NEW st2, st2 = [st EXCEPT ![t] = @ \cup {"PEND"}],
         NEW ts2, ts2[t] = s, \A u \in Tasks \ {t} : ts2[u] = ts[u],
         NEW l2, l2 = [l EXCEPT ![s] = ListTailAdd(@, t)]
  PROVE  /\ st2 \in StatusType /\ l2 \in ListType
         /\ LinksOK(st2, ts2, l2)
         /\ \A h \in Heads \ {s} : l2[h] = l[h]
<1>1. t \in TCBs /\ s \in Heads /\ s # RunQueue /\ s # FreeList
  BY Names
<1>2. \A u \in Tasks : st2[u] = IF u = t THEN st[t] \cup {"PEND"} ELSE st[u]
  BY Names DEF StatusType
<1>3. \A h \in Heads : l2[h] = IF h = s THEN ListTailAdd(l[h], t) ELSE l[h]
  BY DEF ListType
<1>4. st2 \in StatusType
  <2>1. st[t] \cup {"PEND"} \subseteq StatusBits
    BY <1>1 DEF StatusType, StatusBits
  <2> QED
    BY <2>1, StatusExcept
<1>5. \A u \in Tasks : StatusOK(st2[u])
  BY <1>2 DEF LinksOK, StatusOK
<1>6. \A u \in Tasks : ts2[u] = IF u = t THEN s ELSE ts[u]
  BY Names
<1>7. On(st2, ts2, s) = On(st, ts, s) \cup {t} /\ t \notin On(st, ts, s)
  BY <1>1, <1>2, <1>6 DEF On
<1>8. ASSUME NEW h \in Heads \ {s} PROVE On(st2, ts2, h) = On(st, ts, h)
  <2>1. {u \in Tasks : st2[u] = {}} = {u \in Tasks : st[u] = {}}
    BY <1>2
  <2>2. {u \in Tasks : "PEND" \in st2[u] /\ ts2[u] = h}
          = {u \in Tasks : "PEND" \in st[u] /\ ts[u] = h}
    BY <1>2, <1>6
  <2>3. {u \in Tasks : "READY" \in st2[u]} = {u \in Tasks : "READY" \in st[u]}
    BY <1>2
  <2> QED
    BY <2>1, <2>2, <2>3 DEF On
<1>9. l2[s] \in Seq(Tasks) /\ Enumerates(l2[s], On(st2, ts2, s))
  <2>1. l[s] \in Seq(Tasks) /\ Enumerates(l[s], On(st, ts, s))
    BY <1>1 DEF ListType, LinksOK
  <2>2. /\ ListTailAdd(l[s], t) \in Seq(Tasks)
        /\ Enumerates(ListTailAdd(l[s], t), On(st, ts, s) \cup {t})
    BY <2>1, <1>7, TailAddList, Zenon
  <2> QED
    BY <2>2, <1>1, <1>3, <1>7
<1>10. l2 \in ListType
  BY <1>1, <1>9 DEF ListType
<1> QED
  BY <1>3, <1>4, <1>5, <1>8, <1>9, <1>10 DEF LinksOK

\* Only the bits tested matter: RUNNING does not, nor does the status of the
\* zombie, nor taskSem of a task that waits for nothing.
LEMMA SameLinks ==
  ASSUME NEW st, NEW ts, NEW l, LinksOK(st, ts, l),
         NEW st2, NEW ts2,
         SameBits(st, st2), \A t \in Tasks : "PEND" \in st[t] => ts2[t] = ts[t]
  PROVE  LinksOK(st2, ts2, l)
<1>1. \A h \in Heads : On(st2, ts2, h) = On(st, ts, h)
  BY DEF On, SameBits
<1>2. \A t \in Tasks : StatusOK(st2[t])
  BY DEF LinksOK, StatusOK, SameBits
<1> QED
  BY <1>1, <1>2 DEF LinksOK

-----------------------------------------------------------------------------
(***************************************************************************)
(* The scheduler's helpers.                                                 *)
(***************************************************************************)
PrioType == [TCBs -> 0 .. OS_TSK_PRIORITY_LOWEST + 1]

\* The type of a scheduler state, field by field.
LEMMA SchedFields ==
  ASSUME NEW q \in SchedType
  PROVE  /\ q.status \in StatusType
         /\ q.priority \in PrioType
         /\ q.list \in ListType
         /\ q.highest \in Tasks \cup {NoTask}
         /\ q.running \in TCBs
         /\ q.uniFlag \in SUBSET {"BGD_ACTIVE", "TSK_REQ"}
BY DEF SchedType, StatusType, PrioType, ListType

\* Priorities are natural numbers, as FirstHighestPicks wants them.
LEMMA PrioNat == ASSUME NEW p \in PrioType PROVE p \in [TCBs -> Nat]
BY DEF PrioType, OS_TSK_PRIORITY_LOWEST

\* OsTskHighestSet changes g_highestTask alone, and sets it right.
LEMMA HighestSet ==
  ASSUME NEW q, NEW ts, LinkedOK(q, ts), NEW r, r = OsTskHighestSet(q)
  PROVE  /\ SchedOK(r, ts)
         /\ r.status = q.status /\ r.priority = q.priority /\ r.list = q.list
         /\ r.running = q.running /\ r.uniFlag = q.uniFlag
<1> DEFINE l == q.list[RunQueue]
<1>1. q \in SchedType /\ l \in Seq(Tasks)
  BY Names, SchedFields DEF LinkedOK, ListType
<1>2. r = [q EXCEPT !.highest = HighestOf(l, q.priority)]
  BY DEF OsTskHighestSet, HighestOf
<1>3. HighestOf(l, q.priority) \in Tasks \cup {NoTask}
  BY <1>1, SchedFields, PrioNat, FirstHighestPicks DEF HighestOf, ListEmpty
<1>4. /\ r.status = q.status /\ r.priority = q.priority /\ r.list = q.list
      /\ r.running = q.running /\ r.uniFlag = q.uniFlag
      /\ r.highest = HighestOf(l, q.priority)
  BY <1>1, <1>2 DEF SchedType
<1>5. r \in SchedType
  BY <1>1, <1>2, <1>3 DEF SchedType
<1> QED
  BY <1>4, <1>5 DEF SchedOK, LinkedOK

\* OsTskReadyAdd on a task that is on no list.
LEMMA ReadyAdd ==
  ASSUME NEW q, NEW ts, LinkedOK(q, ts),
         NEW t \in Tasks, q.status[t] # {},
         q.status[t] \cap {"READY", "PEND", "SUSPEND"} = {},
         NEW r, r = OsTskReadyAdd(q, t)
  PROVE  /\ SchedOK(r, ts)
         /\ r.status = [q.status EXCEPT ![t] = @ \cup {"READY"}]
         /\ r.priority = q.priority /\ r.running = q.running /\ r.uniFlag = q.uniFlag
         /\ \A h \in Heads \ {RunQueue} : r.list[h] = q.list[h]
<1> DEFINE m == [q EXCEPT !.status[t] = @ \cup {"READY"},
                          !.list[RunQueue] = ListTailAdd(@, t)]
<1>1. q \in SchedType /\ LinksOK(q.status, ts, q.list)
  BY DEF LinkedOK
<1>2. /\ m.status = [q.status EXCEPT ![t] = @ \cup {"READY"}]
      /\ m.list = [q.list EXCEPT ![RunQueue] = ListTailAdd(@, t)]
      /\ m.priority = q.priority /\ m.running = q.running /\ m.uniFlag = q.uniFlag
      /\ m.highest = q.highest
  BY <1>1 DEF SchedType
<1>m. ASSUME m.status \in StatusType, m.list \in ListType PROVE m \in SchedType
  BY <1>1, <1>m DEF SchedType, StatusType, ListType
<1> HIDE DEF m
<1>3. /\ m.status \in StatusType /\ m.list \in ListType
      /\ LinksOK(m.status, ts, m.list)
      /\ \A h \in Heads \ {RunQueue} : m.list[h] = q.list[h]
  <2>1. q.status \in StatusType /\ q.list \in ListType
    BY <1>1, SchedFields
  <2> QED
    BY <1>1, <1>2, <2>1, LinkReady
<1>4. LinkedOK(m, ts)
  BY <1>3, <1>m DEF LinkedOK
<1>5. r = OsTskHighestSet(m)
  BY DEF OsTskReadyAdd, m
<1>6. /\ SchedOK(r, ts)
      /\ r.status = m.status /\ r.priority = m.priority /\ r.list = m.list
      /\ r.running = m.running /\ r.uniFlag = m.uniFlag
  BY <1>4, <1>5, HighestSet
<1> QED
  BY <1>2, <1>3, <1>6

\* OsTskReadyDel on a ready task.
LEMMA ReadyDel ==
  ASSUME NEW q, NEW ts, LinkedOK(q, ts), NEW t \in Tasks, "READY" \in q.status[t],
         NEW r, r = OsTskReadyDel(q, t)
  PROVE  /\ SchedOK(r, ts)
         /\ r.status = [q.status EXCEPT ![t] = @ \ {"READY"}]
         /\ r.priority = q.priority /\ r.running = q.running /\ r.uniFlag = q.uniFlag
         /\ \A h \in Heads \ {RunQueue} : r.list[h] = q.list[h]
<1> DEFINE m == [q EXCEPT !.status[t] = @ \ {"READY"},
                          !.list = [h \in Heads |-> ListDelete(@[h], t)]]
           b == q.status[t] \ {"READY"}
<1>1. q \in SchedType /\ LinksOK(q.status, ts, q.list)
  BY DEF LinkedOK
<1>2. /\ m.status = [q.status EXCEPT ![t] = b]
      /\ m.list = [h \in Heads |-> ListDelete(q.list[h], t)]
      /\ m.priority = q.priority /\ m.running = q.running /\ m.uniFlag = q.uniFlag
      /\ m.highest = q.highest
  BY <1>1 DEF SchedType
<1>m. ASSUME m.status \in StatusType, m.list \in ListType PROVE m \in SchedType
  BY <1>1, <1>m DEF SchedType, StatusType, ListType
<1> HIDE DEF m
<1>3. /\ q.status \in StatusType /\ q.list \in ListType
      /\ b \subseteq StatusBits
      /\ "INUSE" \in b /\ "READY" \notin b /\ "PEND" \notin b
  BY <1>1, Names, SchedFields DEF StatusType, LinksOK, StatusOK
<1> HIDE DEF b
<1>4. /\ m.list \in ListType
      /\ LinksOK(m.status, ts, m.list)
      /\ \A h \in Heads : t \notin On(q.status, ts, h) => m.list[h] = q.list[h]
  BY <1>1, <1>2, <1>3, Unlink
<1>5. m.status \in StatusType
  <2>1. [q.status EXCEPT ![t] = b] \in StatusType
    BY <1>3, StatusExcept
  <2> QED
    BY <1>2, <2>1
<1>6. LinkedOK(m, ts)
  BY <1>4, <1>5, <1>m DEF LinkedOK
<1>7. \A h \in Heads \ {RunQueue} : t \notin On(q.status, ts, h)
  BY <1>1, Names DEF On, LinksOK, StatusOK, b
<1>8. r = OsTskHighestSet(m)
  BY DEF OsTskReadyDel, m
<1>9. /\ SchedOK(r, ts)
      /\ r.status = m.status /\ r.priority = m.priority /\ r.list = m.list
      /\ r.running = m.running /\ r.uniFlag = m.uniFlag
  BY <1>6, <1>8, HighestSet
<1> QED
  BY <1>2, <1>4, <1>7, <1>9 DEF b

\* SetPriority changes one priority; a ready task moves to the tail of the run queue.
LEMMA SetsPriority ==
  ASSUME NEW q, NEW ts, SchedOK(q, ts), NEW t \in Tasks,
         NEW p \in 0 .. OS_TSK_PRIORITY_LOWEST + 1,
         NEW r, r = SetPriority(q, t, p)
  PROVE  /\ SchedOK(r, ts) /\ SameButOrder(q, r)
         /\ r.priority = [q.priority EXCEPT ![t] = p]
<1> DEFINE m == [q EXCEPT !.priority[t] = p]
<1>1. /\ q \in SchedType /\ LinksOK(q.status, ts, q.list)
      /\ q.highest = HighestOf(q.list[RunQueue], q.priority)
  BY DEF SchedOK, LinkedOK
<1>2. /\ m.status = q.status /\ m.list = q.list /\ m.highest = q.highest
      /\ m.running = q.running /\ m.uniFlag = q.uniFlag
      /\ m.priority = [q.priority EXCEPT ![t] = p]
  BY <1>1 DEF SchedType
<1>3. m.priority \in PrioType
  <2>1. [q.priority EXCEPT ![t] = p] \in PrioType
    BY <1>1, SchedFields, ExceptType DEF PrioType
  <2> QED
    BY <1>2, <2>1
<1>4. LinkedOK(m, ts)
  <2>1. m \in SchedType
    BY <1>1, <1>3 DEF SchedType, PrioType
  <2> HIDE DEF m
  <2> QED
    BY <1>1, <1>2, <2>1 DEF LinkedOK
<1>5. r = IF "READY" \in m.status[t] THEN OsTskReadyAdd(OsTskReadyDel(m, t), t) ELSE m
  BY DEF SetPriority
<1> HIDE DEF m
<1>6. CASE "READY" \notin q.status[t]
  <2> DEFINE l == q.list[RunQueue]
  <2>1. r = m
    BY <1>2, <1>5, <1>6
  <2>2. \A u \in Range(l) : m.priority[u] = q.priority[u]
    <3>1. Range(l) = {u \in Tasks : "READY" \in q.status[u]}
      BY <1>1, Names DEF LinksOK, Enumerates, On
    <3>2. q.priority \in PrioType
      BY <1>1, SchedFields
    <3> QED
      BY <1>2, <1>6, <3>1, <3>2 DEF PrioType
  <2>3. HighestOf(l, m.priority) = HighestOf(l, q.priority)
    <3>1. l \in Seq(Tasks)
      BY <1>1, Names, SchedFields DEF ListType
    <3>2. m.priority \in [TCBs -> Nat] /\ q.priority \in [TCBs -> Nat]
      BY <1>1, <1>3, SchedFields, PrioNat
    <3>3. l # << >> => FirstHighest(l, m.priority) = FirstHighest(l, q.priority)
      BY <2>2, <3>1, <3>2, FirstHighestPicks
    <3> QED
      BY <3>3 DEF HighestOf, ListEmpty
  <2> QED
    BY <1>1, <1>2, <1>4, <2>1, <2>3 DEF SchedOK, SameButOrder
<1>7. CASE "READY" \in q.status[t]
  <2> DEFINE d == OsTskReadyDel(m, t)
  <2>1. /\ SchedOK(d, ts)
        /\ d.status = [m.status EXCEPT ![t] = @ \ {"READY"}]
        /\ d.priority = m.priority /\ d.running = m.running /\ d.uniFlag = m.uniFlag
        /\ \A h \in Heads \ {RunQueue} : d.list[h] = m.list[h]
    BY <1>2, <1>4, <1>7, ReadyDel
  <2>2. r = OsTskReadyAdd(d, t)
    BY <1>2, <1>5, <1>7
  <2> HIDE DEF d
  <2>3. q.status \in StatusType /\ t \in TCBs
    BY <1>1, Names, SchedFields
  <2>4. d.status[t] = q.status[t] \ {"READY"}
    BY <1>2, <2>1, <2>3 DEF StatusType
  <2>5. d.status[t] # {} /\ d.status[t] \cap {"READY", "PEND", "SUSPEND"} = {}
    BY <1>1, <1>7, <2>4 DEF LinksOK, StatusOK
  <2>6. LinkedOK(d, ts)
    BY <2>1 DEF SchedOK
  <2>7. /\ SchedOK(r, ts)
        /\ r.status = [d.status EXCEPT ![t] = @ \cup {"READY"}]
        /\ r.priority = d.priority /\ r.running = d.running /\ r.uniFlag = d.uniFlag
        /\ \A h \in Heads \ {RunQueue} : r.list[h] = d.list[h]
    BY <2>2, <2>5, <2>6, ReadyAdd
  <2>8. r.status = q.status
    <3>1. (q.status[t] \ {"READY"}) \cup {"READY"} = q.status[t]
      BY <1>7
    <3> QED
      BY <1>2, <2>1, <2>3, <2>4, <2>7, <3>1 DEF StatusType
  <2> QED
    BY <1>2, <2>1, <2>7, <2>8 DEF SameButOrder
<1> QED
  BY <1>6, <1>7

\* The least priority value of the tasks waiting for s, when it is one to inherit.
LEMMA HighestWaiter ==
  ASSUME NEW q, NEW ts, LinkedOK(q, ts), NEW s \in Sems
  PROVE  /\ OsSemFindHighestWaiterPriority(q, s) \in Nat
         /\ q.list[s] = << >> => OsSemFindHighestWaiterPriority(q, s) = NoWaiterPrio
         /\ \A w \in Range(q.list[s]) :
              OsSemFindHighestWaiterPriority(q, s) <= q.priority[w]
         /\ q.list[s] # << >> => \E w \in Range(q.list[s]) :
              OsSemFindHighestWaiterPriority(q, s) = q.priority[w]
<1>1. q.list[s] \in Seq(Tasks) /\ q.priority \in PrioType /\ q.priority \in [TCBs -> Nat]
  BY Names, SchedFields, PrioNat DEF LinkedOK, ListType
<1>2. CASE q.list[s] = << >>
  <2>1. Range(q.list[s]) = {}
    BY <1>1, <1>2, EmptyList DEF ListEmpty
  <2> QED
    BY <1>2, <2>1 DEF OsSemFindHighestWaiterPriority, ListEmpty, NoWaiterPrio
<1>3. CASE q.list[s] # << >>
  <2> DEFINE f == FirstHighest(q.list[s], q.priority)
  <2>1. /\ f \in TCBs /\ f \in Range(q.list[s])
        /\ \A w \in Range(q.list[s]) : q.priority[f] <= q.priority[w]
    BY <1>1, <1>3, Names, FirstHighestPicks
  <2>2. Range(q.list[s]) \subseteq TCBs
    BY <1>1, Names, RangeOfSeq
  <2>3. OsSemFindHighestWaiterPriority(q, s) = q.priority[f]
    <3>1. q.priority[f] \in 0 .. 64
      BY <1>1, <2>1 DEF PrioType, OS_TSK_PRIORITY_LOWEST
    <3> HIDE DEF f
    <3>2. Min2(NoWaiterPrio, q.priority[f]) = q.priority[f]
      BY <3>1 DEF Min2, NoWaiterPrio
    <3> QED
      BY <1>3, <3>2 DEF OsSemFindHighestWaiterPriority, ListEmpty, f
  <2> HIDE DEF f
  <2> QED
    BY <1>1, <1>3, <2>1, <2>3
<1> QED
  BY <1>2, <1>3

\* From q to r the holder of s, if it has one, got the priority of the highest of its
\* waiters and w, unless its own was as high.
Inherited(q, r, s, w) ==
  /\ \A t \in Tasks : t # semOwner[s] => r.priority[t] = q.priority[t]
  /\ ~ HasOwner(q, s) => r = q
  /\ HasOwner(q, s) =>
       /\ \A v \in Range(q.list[s]) \cup {w} : r.priority[semOwner[s]] <= q.priority[v]
       /\ \/ r.priority[semOwner[s]] = q.priority[semOwner[s]]
          \/ \E v \in Range(q.list[s]) \cup {w} :
               r.priority[semOwner[s]] = q.priority[v]

\* From q to r the holder of s, if it has one, got its own priority back, or that of a
\* waiter which is higher.
Restored(q, r, s) ==
  /\ \A t \in Tasks : t # semOwner[s] => r.priority[t] = q.priority[t]
  /\ ~ HasOwner(q, s) \/ q.priority[semOwner[s]] = originalPriority[semOwner[s]] => r = q
  /\ HasOwner(q, s) =>
       \/ r.priority[semOwner[s]] = originalPriority[semOwner[s]]
       \/ \E w \in Range(q.list[s]) : /\ r.priority[semOwner[s]] = q.priority[w]
                                      /\ q.priority[w] < q.priority[semOwner[s]]

\* OsPriorityInherit never lowers anybody, and leaves the waiters where they are.
LEMMA Inherit ==
  ASSUME NEW q, NEW ts, SchedOK(q, ts), NEW s \in Sems, NEW w \in Tasks,
         semOwner \in [Sems -> Tasks \cup {NoTask}],
         NEW r, r = OsPriorityInherit(q, s, w)
  PROVE  /\ SchedOK(r, ts) /\ SameButOrder(q, r)
         /\ \A t \in Tasks : r.priority[t] <= q.priority[t]
         /\ Inherited(q, r, s, w)
<1> DEFINE owner == semOwner[s]
           p == Min2(OsSemFindHighestWaiterPriority(q, s), q.priority[w])
<1>1. /\ q \in SchedType /\ LinkedOK(q, ts) /\ q.priority \in PrioType
      /\ w \in TCBs /\ \A t \in Tasks : t \in TCBs
  BY Names, SchedFields DEF SchedOK, LinkedOK
<1>2. \A t \in TCBs : q.priority[t] \in 0 .. OS_TSK_PRIORITY_LOWEST + 1
  BY <1>1 DEF PrioType
<1>3. p \in Nat /\ p <= q.priority[w]
  <2>1. \A a, b \in Nat : Min2(a, b) \in Nat /\ Min2(a, b) <= b
    BY DEF Min2
  <2>2. OsSemFindHighestWaiterPriority(q, s) \in Nat /\ q.priority[w] \in Nat
    BY <1>1, <1>2, HighestWaiter
  <2> QED
    BY <2>1, <2>2
<1>4. p \in 0 .. OS_TSK_PRIORITY_LOWEST + 1
  BY <1>1, <1>2, <1>3 DEF OS_TSK_PRIORITY_LOWEST
<1>5. r = IF HasOwner(q, s) /\ q.priority[owner] > p
          THEN SetPriority(q, owner, p) ELSE q
  BY DEF OsPriorityInherit
<1> HIDE DEF p
<1>8. /\ \A v \in Range(q.list[s]) \cup {w} : v \in TCBs /\ p <= q.priority[v]
      /\ \E v \in Range(q.list[s]) \cup {w} : p = q.priority[v]
  <2> DEFINE a == OsSemFindHighestWaiterPriority(q, s)
  <2>1. /\ a \in Nat
        /\ \A v \in Range(q.list[s]) : a <= q.priority[v]
        /\ a = 255 \/ \E v \in Range(q.list[s]) : a = q.priority[v]
    BY <1>1, HighestWaiter DEF NoWaiterPrio
  <2>2. Range(q.list[s]) \subseteq TCBs
    BY <1>1, Names, RangeOfSeq, SchedFields DEF ListType
  <2>3. q.priority[w] \in 0 .. 64
    BY <1>1, <1>2 DEF OS_TSK_PRIORITY_LOWEST
  <2> HIDE DEF a
  <2>4. \/ a <= q.priority[w] /\ p = a
        \/ ~ (a <= q.priority[w]) /\ p = q.priority[w]
    BY DEF a, p, Min2
  <2>5. \A v \in Range(q.list[s]) : p <= q.priority[v]
    <3> TAKE v \in Range(q.list[s])
    <3>1. a <= q.priority[v] /\ q.priority[v] \in Int
      BY <1>2, <2>1, <2>2
    <3> QED
      BY <2>1, <2>3, <2>4, <3>1
  <2>6. p <= q.priority[w]
    BY <2>1, <2>3, <2>4
  <2>7. p = q.priority[w] \/ \E v \in Range(q.list[s]) : p = q.priority[v]
    <3>1. a = 255 => p = q.priority[w]
      BY <2>3, <2>4
    <3> QED
      BY <2>1, <2>4, <3>1
  <2>8. w \in TCBs
    BY <1>1
  <2> QED
    BY <2>2, <2>5, <2>6, <2>7, <2>8
<1>6. CASE ~ (HasOwner(q, s) /\ q.priority[owner] > p)
  <2>1. r = q
    BY <1>5, <1>6
  <2>2. HasOwner(q, s) => q.priority[owner] <= p
    BY <1>1, <1>2, <1>3, <1>6 DEF HasOwner, OS_TSK_PRIORITY_LOWEST
  <2>3. ASSUME HasOwner(q, s), NEW v \in Range(q.list[s]) \cup {w}
        PROVE  q.priority[owner] <= q.priority[v]
    <3>1. v \in TCBs /\ p <= q.priority[v] /\ owner \in TCBs
      BY <1>1, <1>8, <2>3 DEF HasOwner
    <3>2. q.priority[v] \in Int /\ q.priority[owner] \in Int
      BY <1>2, <3>1
    <3> QED
      BY <1>3, <2>2, <2>3, <3>1, <3>2
  <2>4. Inherited(q, r, s, w)
    BY <2>1, <2>3 DEF Inherited
  <2> QED
    BY <2>1, <2>4, <1>1, <1>2 DEF SameButOrder, OS_TSK_PRIORITY_LOWEST
<1>7. CASE HasOwner(q, s) /\ q.priority[owner] > p
  <2>1. owner \in Tasks
    BY <1>7 DEF HasOwner
  <2>2. r = SetPriority(q, owner, p)
    BY <1>5, <1>7
  <2> HIDE DEF owner
  <2>3. /\ SchedOK(r, ts) /\ SameButOrder(q, r)
        /\ r.priority = [q.priority EXCEPT ![owner] = p]
    BY <1>4, <2>1, <2>2, SetsPriority
  <2>4. ASSUME NEW t \in Tasks PROVE r.priority[t] <= q.priority[t]
    <3>1. r.priority[t] = IF t = owner THEN p ELSE q.priority[t]
      BY <1>1, <2>3 DEF PrioType
    <3> QED
      BY <3>1, <1>1, <1>2, <1>4, <1>7 DEF owner, OS_TSK_PRIORITY_LOWEST
  <2>5. \A t \in Tasks : r.priority[t] = IF t = owner THEN p ELSE q.priority[t]
    BY <1>1, <2>3 DEF PrioType
  <2>6. Inherited(q, r, s, w)
    BY <1>7, <1>8, <2>1, <2>5 DEF Inherited, owner
  <2> QED
    BY <2>3, <2>4, <2>6
<1> QED
  BY <1>6, <1>7

\* OsPriorityRestore raises a task further or gives it its own priority back.
LEMMA Restore ==
  ASSUME NEW q, NEW ts, SchedOK(q, ts), NEW s \in Sems,
         semOwner \in [Sems -> Tasks \cup {NoTask}], originalPriority \in PrioType,
         NEW r, r = OsPriorityRestore(q, s)
  PROVE  /\ SchedOK(r, ts) /\ SameButOrder(q, r)
         /\ \A t \in Tasks : \/ r.priority[t] <= q.priority[t]
                             \/ r.priority[t] = originalPriority[t]
         /\ Restored(q, r, s)
<1> DEFINE owner == semOwner[s]
           p == OsSemFindHighestWaiterPriority(q, s)
<1>1. /\ q \in SchedType /\ LinkedOK(q, ts) /\ q.priority \in PrioType
      /\ \A t \in Tasks : t \in TCBs
  BY Names, SchedFields DEF SchedOK, LinkedOK
<1>2. \A t \in TCBs : q.priority[t] \in 0 .. OS_TSK_PRIORITY_LOWEST + 1
  BY <1>1 DEF PrioType
<1>3. p \in Nat
  BY <1>1, HighestWaiter
<1>9. ASSUME p < 65 PROVE \E w \in Range(q.list[s]) : p = q.priority[w]
  BY <1>1, <1>9, HighestWaiter DEF NoWaiterPrio
<1> DEFINE Stays == ~ HasOwner(q, s) \/ q.priority[owner] = originalPriority[owner]
<1>4. \/ Stays /\ r = q
      \/ ~ Stays /\ p < q.priority[owner] /\ r = SetPriority(q, owner, p)
      \/ ~ Stays /\ r = SetPriority(q, owner, originalPriority[owner])
  BY DEF OsPriorityRestore
<1> HIDE DEF p
<1>5. CASE Stays /\ r = q
  BY <1>5, <1>1, <1>2 DEF SameButOrder, Restored, OS_TSK_PRIORITY_LOWEST
<1>6. ASSUME ~ Stays,
             NEW v \in 0 .. OS_TSK_PRIORITY_LOWEST + 1, r = SetPriority(q, owner, v),
             \/ v < q.priority[owner] /\ \E w \in Range(q.list[s]) : v = q.priority[w]
             \/ v = originalPriority[owner]
      PROVE  /\ SchedOK(r, ts) /\ SameButOrder(q, r)
             /\ \A t \in Tasks : \/ r.priority[t] <= q.priority[t]
                                 \/ r.priority[t] = originalPriority[t]
             /\ Restored(q, r, s)
  <2>1. owner \in Tasks
    BY <1>6 DEF HasOwner
  <2> HIDE DEF owner
  <2>2. /\ SchedOK(r, ts) /\ SameButOrder(q, r)
        /\ r.priority = [q.priority EXCEPT ![owner] = v]
    BY <1>6, <2>1, SetsPriority
  <2>3. ASSUME NEW t \in Tasks
        PROVE  r.priority[t] <= q.priority[t] \/ r.priority[t] = originalPriority[t]
    <3>1. r.priority[t] = IF t = owner THEN v ELSE q.priority[t]
      BY <1>1, <2>2 DEF PrioType
    <3> QED
      BY <3>1, <1>1, <1>2, <1>6 DEF OS_TSK_PRIORITY_LOWEST
  <2>4. \A t \in Tasks : r.priority[t] = IF t = owner THEN v ELSE q.priority[t]
    BY <1>1, <2>2 DEF PrioType
  <2>5. Restored(q, r, s)
    BY <1>6, <2>1, <2>4 DEF Restored, owner
  <2> QED
    BY <2>2, <2>3, <2>5
<1>7. CASE ~ Stays /\ p < q.priority[owner] /\ r = SetPriority(q, owner, p)
  <2>1. owner \in TCBs
    BY <1>1, <1>7 DEF HasOwner
  <2> HIDE DEF owner
  <2>2. p \in 0 .. OS_TSK_PRIORITY_LOWEST + 1
    BY <2>1, <1>2, <1>3, <1>7 DEF OS_TSK_PRIORITY_LOWEST
  <2>3. \E w \in Range(q.list[s]) : p = q.priority[w]
    BY <2>2, <1>9 DEF OS_TSK_PRIORITY_LOWEST
  <2> QED
    BY <2>2, <2>3, <1>6, <1>7 DEF owner
<1>8. CASE ~ Stays /\ r = SetPriority(q, owner, originalPriority[owner])
  <2>1. originalPriority[owner] \in 0 .. OS_TSK_PRIORITY_LOWEST + 1
    BY <1>1, <1>8 DEF HasOwner, PrioType
  <2> QED
    BY <2>1, <1>6, <1>8
<1> QED
  BY <1>4, <1>5, <1>7, <1>8

\* OsSemPendListPut: the running task, which was ready, waits for s from now on.
LEMMA PendListPut ==
  ASSUME NEW q, NEW ts, SchedOK(q, ts),
         NEW s \in Sems, running \in Tasks, "READY" \in q.status[running],
         semOwner \in [Sems -> Tasks \cup {NoTask}],
         NEW ts2, ts2[running] = s, \A u \in Tasks \ {running} : ts2[u] = ts[u],
         NEW r, r = OsSemPendListPut(q, s)
  PROVE  /\ SchedOK(r, ts2)
         /\ r.running = q.running /\ r.uniFlag = q.uniFlag
         /\ r.status = [q.status EXCEPT ![running] = (@ \ {"READY"}) \cup {"PEND"}]
         /\ r.list[s] = Append(q.list[s], running)
         /\ \A h \in Heads \ {RunQueue, s} : r.list[h] = q.list[h]
         /\ \A t \in Tasks : r.priority[t] <= q.priority[t]
         /\ \A t \in Tasks : t # semOwner[s] \/ ~ HasOwner(q, s) =>
                             r.priority[t] = q.priority[t]
         /\ HasOwner(q, s) =>
              /\ \A v \in Range(r.list[s]) : r.priority[semOwner[s]] <= q.priority[v]
              /\ \/ r.priority[semOwner[s]] = q.priority[semOwner[s]]
                 \/ \E v \in Range(r.list[s]) :
                      r.priority[semOwner[s]] = q.priority[v]
<1> DEFINE d == OsTskReadyDel(q, running)
           w == [d EXCEPT !.status[running] = @ \cup {"PEND"},
                          !.list[s] = ListTailAdd(@, running)]
<1>1. LinkedOK(q, ts) /\ q \in SchedType /\ running \in TCBs /\ s \in Heads
      /\ s # RunQueue
  BY Names DEF SchedOK, LinkedOK
<1>2. /\ SchedOK(d, ts)
      /\ d.status = [q.status EXCEPT ![running] = @ \ {"READY"}]
      /\ d.priority = q.priority /\ d.running = q.running /\ d.uniFlag = q.uniFlag
      /\ \A h \in Heads \ {RunQueue} : d.list[h] = q.list[h]
  <2>1. LinkedOK(q, ts) /\ running \in Tasks /\ "READY" \in q.status[running]
    BY <1>1
  <2> QED
    BY ONLY <2>1, ReadyDel
<1> HIDE DEF d
<1>3. d \in SchedType /\ LinksOK(d.status, ts, d.list)
  BY <1>2 DEF SchedOK, LinkedOK
<1>4. /\ w.status = [d.status EXCEPT ![running] = @ \cup {"PEND"}]
      /\ w.list = [d.list EXCEPT ![s] = ListTailAdd(@, running)]
      /\ w.priority = d.priority /\ w.running = d.running /\ w.uniFlag = d.uniFlag
      /\ w.highest = d.highest
  BY <1>3 DEF SchedType
<1>w. ASSUME w.status \in StatusType, w.list \in ListType PROVE w \in SchedType
  BY <1>3, <1>w DEF SchedType, StatusType, ListType
<1> HIDE DEF w
<1>5. q.status \in StatusType /\ d.status \in StatusType /\ d.list \in ListType
  BY <1>1, <1>3, SchedFields
<1>6. d.status[running] = q.status[running] \ {"READY"}
  BY <1>1, <1>2, <1>5 DEF StatusType
<1>7. /\ d.status[running] # {}
      /\ d.status[running] \cap {"READY", "PEND", "SUSPEND"} = {}
  BY <1>1, <1>6 DEF LinkedOK, LinksOK, StatusOK
<1>8. /\ w.status \in StatusType /\ w.list \in ListType
      /\ LinksOK(w.status, ts2, w.list)
      /\ \A h \in Heads \ {s} : w.list[h] = d.list[h]
  BY <1>3, <1>4, <1>5, <1>7, LinkWait
<1>9. SchedOK(w, ts2)
  <2>1. LinkedOK(w, ts2)
    BY <1>8, <1>w DEF LinkedOK
  <2>2. w.list[RunQueue] = d.list[RunQueue]
    BY <1>1, <1>8, Names
  <2> QED
    BY <1>2, <1>4, <2>1, <2>2 DEF SchedOK
<1>10. r = OsPriorityInherit(w, s, running)
  BY DEF OsSemPendListPut, w, d
<1>11. /\ SchedOK(r, ts2) /\ SameButOrder(w, r)
       /\ \A t \in Tasks : r.priority[t] <= w.priority[t]
       /\ Inherited(w, r, s, running)
  BY <1>9, <1>10, Inherit
<1>12. w.list[s] = Append(q.list[s], running)
  BY <1>1, <1>2, <1>4, <1>5 DEF ListType, ListTailAdd
<1>13. w.status = [q.status EXCEPT ![running] = (@ \ {"READY"}) \cup {"PEND"}]
  BY <1>1, <1>2, <1>4, <1>5, <1>6 DEF StatusType
<1>14. HasOwner(w, s) <=> HasOwner(q, s)
  <2>1. \A t \in Tasks : w.status[t] = {} <=> q.status[t] = {}
    BY <1>1, <1>5, <1>6, <1>7, <1>13 DEF StatusType
  <2> QED
    BY <2>1 DEF HasOwner
<1>15. r.list[s] = w.list[s] /\ w.priority = q.priority
  BY <1>1, <1>2, <1>4, <1>11 DEF SameButOrder
<1>16. Range(w.list[s]) \cup {running} = Range(w.list[s])
  <2>1. q.list[s] \in Seq(Tasks)
    BY <1>1, SchedFields DEF ListType
  <2>2. running \in Range(Append(q.list[s], running))
    BY <2>1, AppendProperties DEF Range
  <2> QED
    BY <1>12, <2>2
<1>17. /\ \A t \in Tasks : t # semOwner[s] \/ ~ HasOwner(q, s) =>
                           r.priority[t] = q.priority[t]
       /\ HasOwner(q, s) =>
            /\ \A v \in Range(r.list[s]) : r.priority[semOwner[s]] <= q.priority[v]
            /\ \/ r.priority[semOwner[s]] = q.priority[semOwner[s]]
               \/ \E v \in Range(r.list[s]) :
                    r.priority[semOwner[s]] = q.priority[v]
  BY <1>11, <1>14, <1>15, <1>16 DEF Inherited
<1> QED
  BY <1>1, <1>2, <1>4, <1>8, <1>11, <1>12, <1>13, <1>17 DEF SameButOrder

\* OsSemPendListGet: the first waiter of s waits no more and is ready.
LEMMA PendListGet ==
  ASSUME NEW q, NEW ts, LinkedOK(q, ts),
         NEW s \in Sems, q.list[s] # << >>,
         NEW t, t = Head(q.list[s]),
         NEW ts2, \A u \in Tasks \ {t} : ts2[u] = ts[u],
         NEW r, r = OsSemPendListGet(q, s)
  PROVE  /\ t \in Tasks /\ "PEND" \in q.status[t]
         /\ SchedOK(r, ts2)
         /\ r.priority = q.priority /\ r.running = q.running /\ r.uniFlag = q.uniFlag
         /\ r.status = [q.status EXCEPT ![t] = (@ \ {"PEND"}) \cup {"READY"}]
         /\ r.list[s] = Tail(q.list[s])
         /\ \A h \in Heads \ {RunQueue, s} : r.list[h] = q.list[h]
<1> DEFINE b == q.status[t] \ {"PEND"}
           d == [q EXCEPT !.list = [h \in Heads |-> ListDelete(@[h], t)],
                          !.status[t] = @ \ {"PEND"}]
<1>1. /\ q \in SchedType /\ LinksOK(q.status, ts, q.list)
      /\ q.status \in StatusType /\ q.list \in ListType
      /\ s \in Heads /\ s # RunQueue /\ s # FreeList
  BY Names, SchedFields DEF LinkedOK
<1>2. /\ q.list[s] \in Seq(Tasks) /\ Enumerates(q.list[s], On(q.status, ts, s))
      /\ IsInjective(q.list[s])
  BY <1>1 DEF ListType, LinksOK, Enumerates
<1>3. t \in Tasks /\ t \in On(q.status, ts, s)
  BY <1>2, HeadOfList DEF Enumerates
<1>4. "PEND" \in q.status[t] /\ ts[t] = s /\ t \in TCBs
  BY <1>1, <1>3, Names DEF On
<1>5. /\ b \subseteq StatusBits /\ "INUSE" \in b
      /\ b \cap {"READY", "PEND", "SUSPEND"} = {}
  BY <1>1, <1>3, <1>4 DEF StatusType, LinksOK, StatusOK
<1>6. /\ d.status = [q.status EXCEPT ![t] = b]
      /\ d.list = [h \in Heads |-> ListDelete(q.list[h], t)]
      /\ d.priority = q.priority /\ d.running = q.running /\ d.uniFlag = q.uniFlag
  BY <1>1 DEF SchedType
<1>d. ASSUME d.status \in StatusType, d.list \in ListType PROVE d \in SchedType
  BY <1>1, <1>d DEF SchedType, StatusType, ListType
<1> HIDE DEF d, b
<1>7. /\ d.list \in ListType /\ LinksOK(d.status, ts, d.list)
      /\ \A h \in Heads : t \notin On(q.status, ts, h) => d.list[h] = q.list[h]
  BY <1>1, <1>3, <1>5, <1>6, Unlink
<1>8. d.status \in StatusType
  <2>1. [q.status EXCEPT ![t] = b] \in StatusType
    BY <1>1, <1>5, StatusExcept
  <2> QED
    BY <1>6, <2>1
<1>9. d.status[t] = b
  BY <1>1, <1>4, <1>6 DEF StatusType
<1>10. LinksOK(d.status, ts2, d.list)
  <2>1. \A u \in Tasks : "PEND" \in d.status[u] => ts2[u] = ts[u]
    BY <1>5, <1>9, Names
  <2>2. SameBits(d.status, d.status)
    BY DEF SameBits
  <2> QED
    BY <1>7, <2>1, <2>2, SameLinks, Zenon
<1>11. LinkedOK(d, ts2)
  BY <1>7, <1>8, <1>10, <1>d DEF LinkedOK
<1>12. r = OsTskReadyAdd(d, t)
  BY <1>5, <1>9 DEF OsSemPendListGet, d
<1>13. /\ SchedOK(r, ts2)
       /\ r.status = [d.status EXCEPT ![t] = @ \cup {"READY"}]
       /\ r.priority = d.priority /\ r.running = d.running /\ r.uniFlag = d.uniFlag
       /\ \A h \in Heads \ {RunQueue} : r.list[h] = d.list[h]
  <2>1. d.status[t] # {} /\ d.status[t] \cap {"READY", "PEND", "SUSPEND"} = {}
    BY <1>5, <1>9
  <2> QED
    BY <1>3, <1>11, <1>12, <2>1, ReadyAdd
<1>14. d.list[s] = Tail(q.list[s])
  <2>1. d.list[s] = ListDelete(q.list[s], t)
    BY <1>1, <1>6
  <2> QED
    BY <1>2, <2>1, DeleteHead
<1>15. \A h \in Heads \ {RunQueue, s} : t \notin On(q.status, ts, h)
  BY <1>4 DEF On
<1>16. r.status = [q.status EXCEPT ![t] = (@ \ {"PEND"}) \cup {"READY"}]
  BY <1>1, <1>4, <1>6, <1>9, <1>13 DEF StatusType, b
<1> QED
  BY <1>1, <1>3, <1>4, <1>6, <1>7, <1>13, <1>14, <1>15, <1>16

\* With somebody on the run queue, g_highestTask is a task there.
LEMMA HighestReady ==
  ASSUME NEW h, NEW ts, SchedOK(h, ts), h.list[RunQueue] # << >>
  PROVE  h.highest \in Tasks /\ "READY" \in h.status[h.highest]
<1> DEFINE l == h.list[RunQueue]
<1>1. /\ h \in SchedType /\ LinksOK(h.status, ts, h.list)
      /\ h.highest = HighestOf(l, h.priority)
  BY DEF SchedOK, LinkedOK
<1>2. l \in Seq(Tasks) /\ l # << >> /\ h.priority \in [TCBs -> Nat]
  BY <1>1, Names, SchedFields, PrioNat DEF ListType
<1>3. Range(l) = {t \in Tasks : "READY" \in h.status[t]}
  BY <1>1, Names DEF LinksOK, Enumerates, On
<1>4. h.highest = FirstHighest(l, h.priority)
  BY <1>1, <1>2 DEF HighestOf, ListEmpty
<1> QED
  BY <1>2, <1>3, <1>4, FirstHighestPicks

\* OsTskSchedule, with somebody on the run queue: it is the highest task that runs.
LEMMA Schedule ==
  ASSUME NEW q, NEW ts, LinkedOK(q, ts), q.list[RunQueue] # << >>,
         NEW r, r = OsTskSchedule(q)
  PROVE  /\ SchedOK(r, ts)
         /\ r.priority = q.priority /\ r.list = q.list
         /\ SameBits(q.status, r.status)
         /\ "BGD_ACTIVE" \in r.uniFlag <=> "BGD_ACTIVE" \in q.uniFlag
         /\ r.running = r.highest /\ r.running \in Tasks
         /\ "READY" \in r.status[r.running]
<1> DEFINE h == OsTskHighestSet(q)
           m == [h EXCEPT !.uniFlag = @ \cup {"TSK_REQ"}]
           top == h.highest
           gone == [h.status EXCEPT ![h.running] = @ \ {"RUNNING"}]
           sw == [m EXCEPT !.uniFlag = @ \ {"TSK_REQ"},
                           !.status[m.running] = @ \ {"RUNNING"},
                           !.status[m.highest] = @ \cup {"RUNNING"},
                           !.running = m.highest]
<1>1. /\ SchedOK(h, ts)
      /\ h.status = q.status /\ h.priority = q.priority /\ h.list = q.list
      /\ h.running = q.running /\ h.uniFlag = q.uniFlag
  BY HighestSet
<1>2. r = IF top # h.running THEN OsMainSchedule(m) ELSE h
  BY DEF OsTskSchedule
<1>3. OsMainSchedule(m) = IF "TSK_REQ" \in m.uniFlag THEN sw ELSE m
  BY DEF OsMainSchedule
<1> HIDE DEF h
<1>4. /\ h \in SchedType /\ LinksOK(h.status, ts, h.list)
      /\ top = HighestOf(h.list[RunQueue], h.priority)
      /\ h.status \in StatusType /\ h.running \in TCBs
  BY <1>1, SchedFields DEF SchedOK, LinkedOK
<1>5. top \in Tasks /\ "READY" \in h.status[top] /\ top \in TCBs
  BY <1>1, HighestReady, Names
<1>6. CASE top = h.running
  <2>1. r = h
    BY <1>2, <1>6
  <2>2. SameBits(q.status, r.status)
    BY <1>1, <2>1 DEF SameBits
  <2> QED
    BY <1>1, <1>5, <1>6, <2>1, <2>2
<1>7. CASE top # h.running
  <2>1. /\ m.uniFlag = h.uniFlag \cup {"TSK_REQ"} /\ m.status = h.status
        /\ m.priority = h.priority /\ m.list = h.list
        /\ m.running = h.running /\ m.highest = top
        /\ m \in SchedType
    BY <1>4 DEF SchedType
  <2>2. r = sw
    BY <1>2, <1>3, <1>7, <2>1
  <2> HIDE DEF m
  <2>3. /\ sw.uniFlag = m.uniFlag \ {"TSK_REQ"}
        /\ sw.status = [[m.status EXCEPT ![m.running] = @ \ {"RUNNING"}]
                          EXCEPT ![m.highest] = @ \cup {"RUNNING"}]
        /\ sw.running = m.highest /\ sw.highest = m.highest
        /\ sw.priority = m.priority /\ sw.list = m.list
    BY <2>1 DEF SchedType
  <2>r. ASSUME sw.status \in StatusType PROVE sw \in SchedType
    BY <2>1, <2>r, <1>5 DEF SchedType, StatusType
  <2> HIDE DEF sw
  <2>4. gone \in StatusType
    <3>1. h.status[h.running] \ {"RUNNING"} \subseteq StatusBits
      BY <1>4 DEF StatusType
    <3> QED
      BY <1>4, <3>1, StatusExcept
  <2>5. r.status = [gone EXCEPT ![top] = @ \cup {"RUNNING"}]
    BY <2>1, <2>2, <2>3
  <2>6. \A t \in Tasks : gone[t] = IF t = h.running THEN h.status[t] \ {"RUNNING"}
                                                   ELSE h.status[t]
    BY <1>4, Names DEF StatusType
  <2> HIDE DEF gone, top
  <2>7. r.status \in StatusType
    <3>1. gone[top] \cup {"RUNNING"} \subseteq StatusBits
      BY <1>5, <2>4 DEF StatusType, StatusBits
    <3>2. [gone EXCEPT ![top] = @ \cup {"RUNNING"}] \in StatusType
      BY <2>4, <3>1, StatusExcept
    <3> QED
      BY <2>5, <3>2
  <2>8. ASSUME NEW t \in Tasks
        PROVE  r.status[t] = IF t = top THEN gone[t] \cup {"RUNNING"} ELSE gone[t]
    <3>1. t \in DOMAIN gone
      BY <2>4, Names DEF StatusType
    <3> QED
      BY <2>5, <3>1
  <2>9. SameBits(h.status, r.status)
    <3>1. ASSUME NEW t \in Tasks
          PROVE  /\ r.status[t] = {} <=> h.status[t] = {}
                 /\ \A b \in {"INUSE", "READY", "PEND", "SUSPEND"} :
                      b \in r.status[t] <=> b \in h.status[t]
      <4>1. r.status[t] \ {"RUNNING"} = h.status[t] \ {"RUNNING"}
        BY <2>6, <2>8
      <4>2. h.status[t] # {} => "INUSE" \in h.status[t]
        BY <1>4 DEF LinksOK, StatusOK
      <4>3. h.status[t] = {} => r.status[t] = {}
        BY <1>5, <2>6, <2>8
      <4> QED
        BY <4>1, <4>2, <4>3
    <3> QED
      BY <3>1 DEF SameBits
  <2>10. LinksOK(r.status, ts, r.list)
    BY <1>4, <2>1, <2>2, <2>3, <2>9, SameLinks
  <2>11. SchedOK(r, ts)
    BY <1>4, <2>1, <2>2, <2>3, <2>7, <2>10, <2>r DEF SchedOK, LinkedOK, top
  <2>12. "READY" \in r.status[top]
    BY <1>5, <2>9 DEF SameBits
  <2> QED
    BY <1>1, <1>5, <2>1, <2>2, <2>3, <2>9, <2>11, <2>12
<1> QED
  BY <1>6, <1>7

-----------------------------------------------------------------------------
(***************************************************************************)
(* The calls, and the theorems.                                             *)
(***************************************************************************)
RestType ==
  /\ originalPriority \in PrioType
  /\ taskSem \in [TCBs -> Sems \cup {NoSem}]
  /\ idleTaskId \in Tasks \cup {NoTask}
  /\ stackMemUsed \in 0 .. NumStacks
  /\ semStat \in [Sems -> {"UNUSED", "USED"}]
  /\ semCount \in [Sems -> Nat]
  /\ semOwner \in [Sems -> Tasks \cup {NoTask}]
  /\ unusedSem \in Seq(Sems)

\* Before OsActivate the boot code runs and nobody waits; after it the running
\* task and the idle task are ready.
BootOrRun ==
  IF Active
  THEN /\ running \in Tasks /\ "READY" \in status[running]
       /\ idleTaskId \in Tasks /\ "READY" \in status[idleTaskId]
  ELSE /\ running = Zombie /\ idleTaskId = NoTask
       /\ \A t \in Tasks : "PEND" \notin status[t]

UnusedSems ==
  /\ Range(unusedSem) = {s \in Sems : semStat[s] = "UNUSED"}
  /\ IsInjective(unusedSem)
  /\ \A s \in Sems : semStat[s] = "UNUSED" => list[s] = << >>

Stacks == stackMemUsed = Cardinality(InUse)

IInv == /\ SchedOK(Sched, taskSem)
        /\ RestType
        /\ BootOrRun
        /\ NoIdleToken
        /\ UnusedSems
        /\ Stacks
        /\ NeverDemoted

\* What the lists make of a task: its bits but RUNNING.
State(t) == status[t] \ {"RUNNING"}
FreeTask == {}
SuspendedTask == {"INUSE", "SUSPEND"}
ReadyTask == {"INUSE", "READY"}
WaitingTask == {"INUSE", "PEND"}
ExitedTask == {"INUSE"}

\* Task t changes its state, and no other task does.
Goes(t, from, to) == /\ State(t) = from /\ State(t)' = to
                     /\ \A u \in Tasks \ {t} : State(u)' = State(u)

\* The wait queues other than that of s are left alone.
SameQueues(S) == \A s \in S : list'[s] = list[s]

-----------------------------------------------------------------------------
LEMMA SchedTyped ==
  Sched \in SchedType <=>
    /\ status \in StatusType /\ priority \in PrioType /\ list \in ListType
    /\ highest \in Tasks \cup {NoTask} /\ running \in TCBs
    /\ uniFlag \subseteq {"BGD_ACTIVE", "TSK_REQ"}
BY DEF Sched, SchedType, StatusType, PrioType, ListType

LEMMA SchedIs ==
  ASSUME NEW r \in SchedType, SetSched(r)
  PROVE  Sched' = r
BY DEF SetSched, Sched, SchedType

\* What IInv says, without the record.
LEMMA Invariants ==
  ASSUME IInv
  PROVE  /\ status \in StatusType /\ priority \in PrioType /\ list \in ListType
         /\ highest \in Tasks \cup {NoTask} /\ running \in TCBs
         /\ uniFlag \subseteq {"BGD_ACTIVE", "TSK_REQ"}
         /\ LinksOK(status, taskSem, list)
         /\ highest = HighestOf(list[RunQueue], priority)
         /\ LinkedOK(Sched, taskSem)
         /\ Sched.status = status /\ Sched.priority = priority /\ Sched.list = list
         /\ Sched.highest = highest /\ Sched.running = running
         /\ Sched.uniFlag = uniFlag
<1>1. Sched \in SchedType /\ LinkedOK(Sched, taskSem)
  BY DEF IInv, SchedOK, LinkedOK
<1>2. /\ Sched.status = status /\ Sched.priority = priority /\ Sched.list = list
      /\ Sched.highest = highest /\ Sched.running = running
      /\ Sched.uniFlag = uniFlag
  BY DEF Sched
<1>3. /\ LinksOK(status, taskSem, list)
      /\ highest = HighestOf(list[RunQueue], priority)
  BY <1>2 DEF IInv, SchedOK, LinkedOK
<1> QED
  BY <1>1, <1>2, <1>3, SchedTyped

\* The named invariants of Kernel are consequences.
LEMMA Consequences ==
  ASSUME IInv
  PROVE  TypeOK /\ ListsWellFormed /\ RunningIsReady /\ HighestIsCurrent /\ PoolsConserved
<1>1. TypeOK
  BY Invariants DEF IInv, RestType, TypeOK, StatusType, PrioType, ListType
<1>2. ListsWellFormed
  <2>1. \A h \in Heads : IsInjective(list[h]) /\ Range(list[h]) = On(status, taskSem, h)
    BY Invariants DEF LinksOK, Enumerates
  <2>2. ASSUME NEW h \in Heads, NEW g \in Heads, h # g
        PROVE  Range(list[h]) \cap Range(list[g]) = {}
    <3>1. \A t \in Tasks : StatusOK(status[t])
      BY Invariants DEF LinksOK
    <3>2. ASSUME NEW t \in On(status, taskSem, h), t \in On(status, taskSem, g)
          PROVE  FALSE
      BY <2>2, <3>1, <3>2 DEF On, StatusOK
    <3> QED
      BY <2>1, <3>2
  <2>3. On(status, taskSem, RunQueue) = {t \in Tasks : "READY" \in status[t]}
    BY DEF On
  <2>4. On(status, taskSem, FreeList) = {t \in Tasks : status[t] = {}}
    BY Names DEF On
  <2>5. \A s \in Sems : On(status, taskSem, s)
                          = {t \in Tasks : "PEND" \in status[t] /\ taskSem[t] = s}
    BY Names DEF On
  <2> QED
    BY <2>1, <2>2, <2>3, <2>4, <2>5, Names DEF ListsWellFormed
<1>3. RunningIsReady
  <2>1. Range(list[RunQueue]) = {t \in Tasks : "READY" \in status[t]}
    BY <1>2 DEF ListsWellFormed
  <2> QED
    BY <2>1 DEF IInv, BootOrRun, RunningIsReady
<1>4. HighestIsCurrent
  BY Invariants DEF HighestIsCurrent, HighestOf
<1>5. PoolsConserved
  BY DEF IInv, UnusedSems, Stacks, PoolsConserved
<1> QED
  BY <1>1, <1>2, <1>3, <1>4, <1>5

-----------------------------------------------------------------------------
(***************************************************************************)
(* The invariant holds initially and every call preserves it.               *)
(***************************************************************************)
LEMMA InitInv == ASSUME Init PROVE IInv
<1> USE DEF Init
<1>1. /\ status \in StatusType /\ priority \in PrioType /\ list \in ListType
      /\ status[Zombie] = {"INUSE", "RUNNING"} /\ \A t \in Tasks : status[t] = {}
      /\ list[RunQueue] = << >>
      /\ \A s \in Sems : list[s] = << >>
      /\ list[FreeList] = [i \in 1 .. NumTasks |-> i - 1]
  <2>1. [i \in 1 .. NumTasks |-> i - 1] \in Seq(Tasks)
    BY SizesAssumption DEF Tasks
  <2>2. list \in ListType
    BY <2>1, EmptySeq DEF ListType
  <2>3. priority \in PrioType
    BY DEF PrioType, OS_TSK_PRIORITY_LOWEST
  <2>4. status \in StatusType
    BY DEF StatusType, StatusBits
  <2> QED
    BY <2>2, <2>3, <2>4, Names
<1>2. LinksOK(status, taskSem, list)
  <2>1. Enumerates(list[FreeList], Tasks)
    <3>1. IsInjective(list[FreeList])
      BY <1>1, SizesAssumption DEF IsInjective
    <3>2. Range(list[FreeList]) = Tasks
      <4>1. \A i \in 1 .. NumTasks : list[FreeList][i] = i - 1 /\ i - 1 \in Tasks
        BY <1>1, SizesAssumption DEF Tasks
      <4>2. \A t \in Tasks : t + 1 \in 1 .. NumTasks /\ list[FreeList][t + 1] = t
        BY <1>1, SizesAssumption DEF Tasks
      <4>3. DOMAIN list[FreeList] = 1 .. NumTasks
        BY <1>1
      <4>4. Range(list[FreeList]) \subseteq Tasks
        BY <4>1, <4>3, Zenon DEF Range
      <4>5. Tasks \subseteq Range(list[FreeList])
        BY <4>2, <4>3, Zenon DEF Range
      <4> QED
        BY <4>4, <4>5
    <3> QED
      BY <3>1, <3>2 DEF Enumerates
  <2>2. Enumerates(<< >>, {})
    BY DEF Enumerates, IsInjective, Range
  <2>3. /\ On(status, taskSem, RunQueue) = {}
        /\ On(status, taskSem, FreeList) = Tasks
        /\ \A s \in Sems : On(status, taskSem, s) = {}
    BY <1>1, Names DEF On
  <2>4. \A t \in Tasks : StatusOK(status[t])
    BY <1>1 DEF StatusOK
  <2> QED
    BY <1>1, <2>1, <2>2, <2>3, <2>4, Names DEF LinksOK
<1>3. SchedOK(Sched, taskSem)
  <2>1. highest = HighestOf(list[RunQueue], priority)
    BY <1>1 DEF HighestOf, ListEmpty
  <2>2. Sched \in SchedType
    BY <1>1, SchedTyped, Names
  <2> QED
    BY <1>2, <2>1, <2>2 DEF SchedOK, LinkedOK, Sched
<1>4. RestType
  <2>1. unusedSem \in Seq(Sems)
    BY SizesAssumption DEF Sems
  <2> QED
    BY <2>1, SizesAssumption DEF RestType, PrioType, OS_TSK_PRIORITY_LOWEST
<1>5. BootOrRun
  BY <1>1 DEF BootOrRun, Active
<1>6. UnusedSems
  <2>1. \A i \in 1 .. NumSems : unusedSem[i] = i - 1 /\ i - 1 \in Sems
    BY SizesAssumption DEF Sems
  <2>2. \A s \in Sems : s + 1 \in 1 .. NumSems /\ unusedSem[s + 1] = s
    BY SizesAssumption DEF Sems
  <2>3. DOMAIN unusedSem = 1 .. NumSems
    OBVIOUS
  <2>4. Range(unusedSem) = Sems
    BY <2>1, <2>2, <2>3 DEF Range
  <2>5. IsInjective(unusedSem)
    BY <2>1, <2>3, SizesAssumption DEF IsInjective
  <2> QED
    BY <1>1, <2>4, <2>5 DEF UnusedSems
<1>7. Stacks
  <2>1. InUse = {}
    BY <1>1 DEF InUse
  <2> QED
    BY <2>1, FS_EmptySet DEF Stacks
<1> QED
  BY <1>1, <1>3, <1>4, <1>5, <1>6, <1>7 DEF IInv, NoIdleToken, NeverDemoted, InUse

\* The error returns, and every other step that changes nothing.
LEMMA StutterInv == ASSUME IInv, UNCHANGED vars PROVE IInv'
BY DEF IInv, vars, schedVars, semVars, tskVars, Sched, SchedOK, LinkedOK, RestType,
       BootOrRun, Active, NoIdleToken, UnusedSems, Stacks, InUse, NeverDemoted

\* A scheduler state a helper made is the one the call leaves behind.
LEMMA NextSched ==
  ASSUME NEW r, SchedOK(r, taskSem'), SetSched(r)
  PROVE  /\ SchedOK(Sched, taskSem)'
         /\ status' = r.status /\ priority' = r.priority /\ list' = r.list
         /\ highest' = r.highest /\ running' = r.running /\ uniFlag' = r.uniFlag
<1>1. r \in SchedType
  BY DEF SchedOK, LinkedOK
<1>2. Sched' = r
  BY <1>1, SchedIs
<1> QED
  BY <1>2 DEF SetSched

\* With a ready task the run queue is not empty.
LEMMA SomebodyReady ==
  ASSUME NEW q, NEW ts, LinkedOK(q, ts), NEW t \in Tasks, "READY" \in q.status[t]
  PROVE  q.list[RunQueue] # << >>
<1>1. /\ q.list[RunQueue] \in Seq(Tasks)
      /\ Range(q.list[RunQueue]) = On(q.status, ts, RunQueue)
  <2>1. q.list \in ListType /\ RunQueue \in Heads
    BY Names, SchedFields DEF LinkedOK
  <2>2. q.list[RunQueue] \in Seq(Tasks)
    BY <2>1 DEF ListType
  <2> QED
    BY <2>1, <2>2 DEF LinkedOK, LinksOK, Enumerates
<1>2. t \in Range(q.list[RunQueue])
  BY <1>1 DEF On
<1> QED
  BY <1>1, <1>2, EmptyList DEF ListEmpty

\* Nobody waits on a list whose tasks would have to be waiting.
LEMMA OnWaitQueue ==
  ASSUME NEW q, NEW ts, LinkedOK(q, ts), NEW s \in Sems, NEW t \in Tasks
  PROVE  t \in Range(q.list[s]) <=> "PEND" \in q.status[t] /\ ts[t] = s
<1>1. s \in Heads /\ s # RunQueue /\ s # FreeList
  BY Names
<1>2. Range(q.list[s]) = On(q.status, ts, s)
  BY <1>1 DEF LinkedOK, LinksOK, Enumerates
<1> QED
  BY <1>1, <1>2 DEF On

\* A priority is a number, and a call that raises tasks or gives them their own
\* priority back demotes nobody.
LEMMA PriorityNat ==
  ASSUME NEW p \in PrioType, NEW t \in Tasks
  PROVE  p[t] \in Nat
BY Names DEF PrioType, OS_TSK_PRIORITY_LOWEST

LEMMA StillNotDemoted ==
  ASSUME IInv, NEW r, r \in SchedType, priority' = r.priority,
         originalPriority' = originalPriority,
         \A t \in Tasks : status'[t] = {} <=> status[t] = {},
         \A t \in Tasks : \/ r.priority[t] <= priority[t]
                           \/ r.priority[t] = originalPriority[t]
  PROVE  NeverDemoted'
<1> SUFFICES ASSUME NEW t \in Tasks, status'[t] # {}
             PROVE  r.priority[t] <= originalPriority[t]
  BY DEF NeverDemoted, InUse
<1>1. priority[t] <= originalPriority[t]
  BY DEF IInv, NeverDemoted, InUse
<1>2. priority \in PrioType /\ originalPriority \in PrioType /\ r.priority \in PrioType
  BY Invariants, SchedFields DEF IInv, RestType
<1>3. priority[t] \in Nat /\ originalPriority[t] \in Nat /\ r.priority[t] \in Nat
  BY <1>2, PriorityNat
<1> QED
  BY <1>1, <1>3

\* The stacks stay counted while no TCB is taken.
LEMMA SameStacks ==
  ASSUME Stacks, stackMemUsed' = stackMemUsed,
         \A t \in Tasks : status'[t] = {} <=> status[t] = {}
  PROVE  Stacks'
BY DEF Stacks, InUse

\* A task is in one of five states, and its bits say in which.
LEMMA States ==
  ASSUME IInv, NEW t \in Tasks
  PROVE  /\ State(t) \in {FreeTask, SuspendedTask, ReadyTask, WaitingTask, ExitedTask}
         /\ status[t] = {} <=> State(t) = FreeTask
         /\ "READY" \in status[t] <=> State(t) = ReadyTask
         /\ "PEND" \in status[t] <=> State(t) = WaitingTask
         /\ "SUSPEND" \in status[t] <=> State(t) = SuspendedTask
         /\ Exited(t) <=> State(t) = ExitedTask
<1>1. StatusOK(status[t]) /\ status[t] \subseteq StatusBits
  BY Invariants, Names DEF LinksOK, StatusType
<1>2. CASE status[t] = {}
  BY <1>2 DEF State, FreeTask, SuspendedTask, ReadyTask, WaitingTask, ExitedTask, Exited
<1>3. CASE status[t] # {}
  BY <1>1, <1>3 DEF StatusOK, StatusBits, State, FreeTask, SuspendedTask, ReadyTask,
                    WaitingTask, ExitedTask, Exited
<1> QED
  BY <1>2, <1>3

\* The same of the next state.
BitsSay == \A t \in Tasks : status[t] = {} <=> State(t) = FreeTask

LEMMA BitsSayNext == IInv' => BitsSay'
<1>1. IInv => BitsSay
  BY States DEF BitsSay
<1> QED
  BY <1>1, PTL

\* Whoever is in use stays so while its state does not become free.
LEMMA InUseNext ==
  ASSUME IInv', NEW t \in Tasks
  PROVE  t \in InUse' <=> State(t)' # FreeTask
<1>1. status'[t] = {} <=> State(t)' = FreeTask
  BY BitsSayNext DEF BitsSay
<1> QED
  BY <1>1 DEF InUse

\* A helper that leaves the bits of all but t alone, then a switch.
LEMMA GoesBy ==
  ASSUME NEW t \in Tasks, NEW b, NEW st,
         \A u \in Tasks : st[u] = IF u = t THEN b ELSE status[u],
         \A u \in Tasks : status[u] \subseteq StatusBits,
         \A u \in Tasks : status'[u] \subseteq StatusBits,
         b \subseteq StatusBits,
         SameBits(st, status')
  PROVE  /\ State(t)' = b \ {"RUNNING"}
         /\ \A u \in Tasks \ {t} : State(u)' = State(u)
<1>1. ASSUME NEW u \in Tasks PROVE status'[u] \ {"RUNNING"} = st[u] \ {"RUNNING"}
  BY DEF SameBits, StatusBits
<1> QED
  BY <1>1 DEF State

LEMMA SemPendTakeInv ==
  ASSUME IInv, TaskRuns, NEW s \in Sems, SemPendTake(s)
  PROVE  IInv'
<1> USE DEF SemPendTake, schedVars, tskVars
<1>1. SchedOK(Sched, taskSem)'
  BY DEF IInv, SchedOK, LinkedOK, Sched
<1>2. RestType'
  BY DEF IInv, RestType, TaskRuns
<1>3. BootOrRun' /\ Stacks' /\ NeverDemoted'
  BY DEF IInv, BootOrRun, Active, Stacks, InUse, NeverDemoted
<1>4. NoIdleToken'
  BY DEF IInv, RestType, NoIdleToken
<1>5. UnusedSems'
  BY DEF IInv, UnusedSems
<1> QED
  BY <1>1, <1>2, <1>3, <1>4, <1>5 DEF IInv

LEMMA SemPostKeepInv ==
  ASSUME IInv, NEW s \in Sems, semStat[s] = "USED", SemPostKeep(s)
  PROVE  /\ IInv'
         /\ status' = status /\ running' = running /\ uniFlag' = uniFlag
         /\ SameQueues(Sems)
         /\ \A u \in Tasks : priority'[u] = IF u = semOwner[s] /\ status[u] # {}
                                           THEN originalPriority[u] ELSE priority[u]
         /\ \/ /\ semOwner[s] \in Tasks /\ status[semOwner[s]] # {}
               /\ priority[semOwner[s]] # originalPriority[semOwner[s]]
            \/ priority' = priority /\ list' = list /\ highest' = highest
<1> DEFINE r == OsPriorityRestore(Sched, s)
<1>1. /\ SetSched(r) /\ list[s] = << >>
      /\ semCount' = [semCount EXCEPT ![s] = @ + 1]
      /\ semOwner' = [semOwner EXCEPT ![s] = NoTask]
      /\ UNCHANGED <<semStat, unusedSem>> /\ UNCHANGED tskVars
  BY DEF SemPostKeep, ListEmpty
<1>2. /\ SchedOK(r, taskSem) /\ SameButOrder(Sched, r)
      /\ \A t \in Tasks : \/ r.priority[t] <= priority[t]
                          \/ r.priority[t] = originalPriority[t]
      /\ Restored(Sched, r, s)
  <2>1. /\ SchedOK(Sched, taskSem) /\ originalPriority \in PrioType
        /\ semOwner \in [Sems -> Tasks \cup {NoTask}]
    BY DEF IInv, RestType
  <2> QED
    BY <2>1, Restore, Invariants
<1> HIDE DEF r
<1>3. /\ SchedOK(Sched, taskSem)'
      /\ status' = r.status /\ priority' = r.priority /\ list' = r.list
      /\ highest' = r.highest /\ running' = r.running /\ uniFlag' = r.uniFlag
  <2>1. SchedOK(r, taskSem')
    BY <1>1, <1>2 DEF tskVars
  <2> QED
    BY <1>1, <2>1, NextSched
<1>4. /\ status' = status /\ running' = running /\ uniFlag' = uniFlag
      /\ \A h \in Sems : list'[h] = list[h]
  BY <1>2, <1>3, Invariants, Names DEF SameButOrder
<1>5. RestType'
  BY <1>1 DEF IInv, RestType, tskVars
<1>6. BootOrRun' /\ Stacks'
  BY <1>1, <1>4 DEF IInv, BootOrRun, Active, Stacks, InUse, tskVars
<1>7. NoIdleToken'
  BY <1>1, <1>4 DEF IInv, RestType, NoIdleToken
<1>8. UnusedSems'
  BY <1>1, <1>4 DEF IInv, UnusedSems
<1>9. NeverDemoted'
  <2>1. r \in SchedType /\ originalPriority' = originalPriority
    BY <1>1, <1>2 DEF SchedOK, LinkedOK, tskVars
  <2> QED
    BY <1>2, <1>3, <1>4, <2>1, StillNotDemoted
<1>10. HasOwner(Sched, s) <=> semOwner[s] # NoTask /\ status[semOwner[s]] # {}
  BY Invariants DEF HasOwner
<1>11. \A u \in Tasks : priority'[u] = IF u = semOwner[s] /\ status[u] # {}
                                      THEN originalPriority[u] ELSE priority[u]
  <2>1. Range(list[s]) = {}
    BY <1>1, EmptySeq DEF Range
  <2> QED
    BY <1>2, <1>3, <1>10, <2>1, Invariants, Names DEF Restored
<1>12. \/ /\ semOwner[s] \in Tasks /\ status[semOwner[s]] # {}
          /\ priority[semOwner[s]] # originalPriority[semOwner[s]]
       \/ priority' = priority /\ list' = list /\ highest' = highest
  <2>1. semOwner[s] \in Tasks \cup {NoTask}
    BY DEF IInv, RestType
  <2>2. \/ /\ HasOwner(Sched, s)
           /\ Sched.priority[semOwner[s]] # originalPriority[semOwner[s]]
        \/ r = Sched
    BY <1>2 DEF Restored
  <2>3. CASE r = Sched
    BY <1>3, <2>3, Invariants
  <2> QED
    BY <1>10, <2>1, <2>2, <2>3, Invariants
<1> QED
  BY <1>3, <1>4, <1>5, <1>6, <1>7, <1>8, <1>9, <1>11, <1>12 DEF IInv, SameQueues

LEMMA SemPostWakeInv ==
  ASSUME IInv, NEW s \in Sems, semStat[s] = "USED", SemPostWake(s),
         NEW t, t = Head(list[s])
  PROVE  /\ IInv'
         /\ t \in Tasks /\ Goes(t, WaitingTask, ReadyTask)
         /\ list'[s] = Tail(list[s]) /\ SameQueues(Sems \ {s})
         /\ Active /\ Active' /\ running' = highest'
         /\ \A u \in Tasks : u # semOwner[s] => priority'[u] = priority[u]
         /\ ~ HasOwner(Sched, s) \/ priority[semOwner[s]] = originalPriority[semOwner[s]]
              => priority' = priority
         /\ HasOwner(Sched, s) =>
              \/ priority'[semOwner[s]] = originalPriority[semOwner[s]]
              \/ \E w \in Range(list[s]) : /\ priority'[semOwner[s]] = priority[w]
                                           /\ priority[w] < priority[semOwner[s]]
<1> DEFINE a == OsPriorityRestore(Sched, s)
           b == OsSemPendListGet(a, s)
           r == OsTskSchedule(b)
<1>1. /\ SetSched(r) /\ list[s] # << >>
      /\ taskSem' = [taskSem EXCEPT ![t] = NoSem]
      /\ semOwner' = [semOwner EXCEPT ![s] = t]
      /\ UNCHANGED <<semStat, semCount, unusedSem, originalPriority, idleTaskId,
                     stackMemUsed>>
  BY DEF SemPostWake, ListEmpty, OsTskScheduleFastPs
<1>2. /\ SchedOK(a, taskSem) /\ SameButOrder(Sched, a)
      /\ \A u \in Tasks : \/ a.priority[u] <= priority[u]
                          \/ a.priority[u] = originalPriority[u]
      /\ Restored(Sched, a, s)
  <2>1. /\ SchedOK(Sched, taskSem) /\ originalPriority \in PrioType
        /\ semOwner \in [Sems -> Tasks \cup {NoTask}]
    BY DEF IInv, RestType
  <2> QED
    BY <2>1, Restore, Invariants
<1> HIDE DEF a
<1>3. /\ a.status = status /\ a.running = running /\ a.uniFlag = uniFlag
      /\ \A h \in Heads \ {RunQueue} : a.list[h] = list[h]
      /\ LinkedOK(a, taskSem)
  BY <1>2, Invariants DEF SameButOrder, SchedOK
<1>4. a.list[s] = list[s]
  BY <1>3, Names
<1>5. \A u \in Tasks \ {t} : taskSem'[u] = taskSem[u]
  BY <1>1, Names DEF IInv, RestType
<1>6. /\ t \in Tasks /\ "PEND" \in status[t]
      /\ SchedOK(b, taskSem')
      /\ b.priority = a.priority /\ b.running = a.running /\ b.uniFlag = a.uniFlag
      /\ b.status = [status EXCEPT ![t] = (@ \ {"PEND"}) \cup {"READY"}]
      /\ b.list[s] = Tail(list[s])
      /\ \A h \in Heads \ {RunQueue, s} : b.list[h] = a.list[h]
  <2>1. t = Head(a.list[s]) /\ a.list[s] # << >>
    BY <1>1, <1>4
  <2>2. /\ t \in Tasks /\ "PEND" \in a.status[t]
        /\ SchedOK(b, taskSem')
        /\ b.priority = a.priority /\ b.running = a.running /\ b.uniFlag = a.uniFlag
        /\ b.status = [a.status EXCEPT ![t] = (@ \ {"PEND"}) \cup {"READY"}]
        /\ b.list[s] = Tail(a.list[s])
        /\ \A h \in Heads \ {RunQueue, s} : b.list[h] = a.list[h]
    BY <2>1, <1>3, <1>5, PendListGet
  <2> HIDE DEF b
  <2> QED
    BY <2>2, <1>3, <1>4
<1> HIDE DEF b
<1>7. \A u \in Tasks : b.status[u] = IF u = t THEN (status[t] \ {"PEND"}) \cup {"READY"}
                                              ELSE status[u]
  BY <1>6, Invariants, Names DEF StatusType
<1>8. LinkedOK(b, taskSem') /\ b.list[RunQueue] # << >>
  <2>1. LinkedOK(b, taskSem') /\ "READY" \in b.status[t]
    BY <1>6, <1>7 DEF SchedOK
  <2> QED
    BY <2>1, <1>6, SomebodyReady
<1>9. /\ SchedOK(r, taskSem')
      /\ r.priority = b.priority /\ r.list = b.list
      /\ SameBits(b.status, r.status)
      /\ "BGD_ACTIVE" \in r.uniFlag <=> "BGD_ACTIVE" \in b.uniFlag
      /\ r.running = r.highest /\ r.running \in Tasks
      /\ "READY" \in r.status[r.running]
  BY <1>8, Schedule
<1> HIDE DEF r
<1>10. /\ SchedOK(Sched, taskSem)'
       /\ status' = r.status /\ priority' = r.priority /\ list' = r.list
       /\ highest' = r.highest /\ running' = r.running /\ uniFlag' = r.uniFlag
  BY <1>1, <1>9, NextSched
<1>11. \A u \in Tasks : status'[u] = {} <=> status[u] = {}
  <2>1. status[t] # {} /\ b.status[t] # {}
    BY <1>6, <1>7
  <2>2. \A u \in Tasks : status'[u] = {} <=> b.status[u] = {}
    BY <1>9, <1>10 DEF SameBits
  <2> QED
    BY <2>1, <2>2, <1>7
<1>12. RestType'
  BY <1>1, <1>6, Names DEF IInv, RestType
<1>19. Active
  BY <1>6 DEF IInv, BootOrRun
<1>13. Active' /\ BootOrRun'
  <2>1. Active
    BY <1>19
  <2>2. Active'
    BY <2>1, <1>3, <1>6, <1>9, <1>10 DEF Active
  <2>3. idleTaskId' \in Tasks /\ "READY" \in status'[idleTaskId']
    <3>1. idleTaskId' = idleTaskId /\ idleTaskId \in Tasks
          /\ "READY" \in status[idleTaskId]
      BY <1>1, <2>1 DEF IInv, BootOrRun
    <3>2. "READY" \in b.status[idleTaskId]
      BY <1>7, <3>1
    <3> QED
      BY <3>1, <3>2, <1>9, <1>10 DEF SameBits
  <2> QED
    BY <2>2, <2>3, <1>9, <1>10 DEF BootOrRun
<1>14. Stacks'
  BY <1>1, <1>11, SameStacks DEF IInv
<1>15. \A h \in Sems \ {s} : list'[h] = list[h]
  BY <1>3, <1>6, <1>9, <1>10, Names
<1>16. NoIdleToken'
  BY <1>1, <1>15 DEF IInv, NoIdleToken
<1>17. UnusedSems'
  BY <1>1, <1>15 DEF IInv, UnusedSems
<1>18. NeverDemoted'
  <2>1. r \in SchedType
    BY <1>9 DEF SchedOK, LinkedOK
  <2> QED
    BY <1>1, <1>2, <1>6, <1>9, <1>10, <1>11, <2>1, StillNotDemoted
<1>20. IInv'
  BY <1>10, <1>12, <1>13, <1>14, <1>16, <1>17, <1>18 DEF IInv
<1>21. Goes(t, WaitingTask, ReadyTask)
  <2>1. State(t) = WaitingTask
    BY <1>6, States
  <2> DEFINE c == (status[t] \ {"PEND"}) \cup {"READY"}
  <2>2. c \subseteq StatusBits /\ c \ {"RUNNING"} = ReadyTask
    <3>1. status[t] \subseteq StatusBits
      BY <1>6, Invariants, Names DEF StatusType
    <3> QED
      BY <2>1, <3>1 DEF State, WaitingTask, ReadyTask, StatusBits
  <2>3. \A u \in Tasks : status[u] \subseteq StatusBits /\ status'[u] \subseteq StatusBits
    BY <1>10, <1>9, Invariants, Names, SchedFields DEF StatusType, SchedOK, LinkedOK
  <2>4. SameBits(b.status, status') /\ \A u \in Tasks : b.status[u] = IF u = t THEN c ELSE status[u]
    BY <1>7, <1>9, <1>10
  <2> HIDE DEF c
  <2> QED
    BY <1>6, <2>1, <2>2, <2>3, <2>4, GoesBy DEF Goes
<1>22. /\ list'[s] = Tail(list[s]) /\ SameQueues(Sems \ {s}) /\ running' = highest'
  BY <1>6, <1>9, <1>10, <1>15 DEF SameQueues
<1>23. Restored(Sched, a, s) /\ priority' = a.priority /\ Sched.priority = priority
       /\ Sched.list = list
  BY <1>2, <1>6, <1>9, <1>10, Invariants
<1> QED
  BY <1>6, <1>13, <1>19, <1>20, <1>21, <1>22, <1>23 DEF Restored

\* The endless wait: whoever waits is not idle, so somebody is left to run.
LEMMA SemPendBlockInv ==
  ASSUME IInv, TaskRuns, NEW s \in Sems, semStat[s] = "USED",
         SemPendBlock(s, "FOREVER"), NEW t, t = running
  PROVE  /\ IInv'
         /\ t \in Tasks /\ Goes(t, ReadyTask, WaitingTask)
         /\ list'[s] = Append(list[s], t) /\ SameQueues(Sems \ {s})
         /\ Active /\ Active' /\ running' = highest'
         /\ \A u \in Tasks : priority'[u] <= priority[u]
         /\ \A u \in Tasks : u # semOwner[s] \/ ~ HasOwner(Sched, s) =>
                             priority'[u] = priority[u]
         /\ HasOwner(Sched, s) =>
              /\ \A w \in Range(list'[s]) : priority'[semOwner[s]] <= priority[w]
              /\ \/ priority'[semOwner[s]] = priority[semOwner[s]]
                 \/ \E w \in Range(list'[s]) : priority'[semOwner[s]] = priority[w]
<1> DEFINE b == OsSemPendListPut(Sched, s)
           r == OsTskSchedule(b)
<1>1. /\ SetSched(r) /\ semCount[s] = 0
      /\ taskSem' = [taskSem EXCEPT ![running] = s]
      /\ UNCHANGED semVars /\ UNCHANGED <<originalPriority, idleTaskId, stackMemUsed>>
  BY DEF SemPendBlock, OsTskScheduleFastPs
<1>2. /\ running \in Tasks /\ running # idleTaskId /\ Active
      /\ "READY" \in status[running]
      /\ idleTaskId \in Tasks /\ "READY" \in status[idleTaskId]
  BY Names DEF TaskRuns, CallerRuns, IInv, BootOrRun
<1>3. /\ taskSem'[running] = s
      /\ \A u \in Tasks \ {running} : taskSem'[u] = taskSem[u]
  BY <1>1, <1>2, Names DEF IInv, RestType
<1>4. /\ SchedOK(b, taskSem')
      /\ b.running = running /\ b.uniFlag = uniFlag
      /\ b.status = [status EXCEPT ![running] = (@ \ {"READY"}) \cup {"PEND"}]
      /\ b.list[s] = Append(list[s], running)
      /\ \A h \in Heads \ {RunQueue, s} : b.list[h] = list[h]
      /\ \A u \in Tasks : b.priority[u] <= priority[u]
      /\ \A u \in Tasks : u # semOwner[s] \/ ~ HasOwner(Sched, s) =>
                          b.priority[u] = priority[u]
      /\ HasOwner(Sched, s) =>
           /\ \A w \in Range(b.list[s]) : b.priority[semOwner[s]] <= priority[w]
           /\ \/ b.priority[semOwner[s]] = priority[semOwner[s]]
              \/ \E w \in Range(b.list[s]) : b.priority[semOwner[s]] = priority[w]
  <2>1. /\ SchedOK(Sched, taskSem) /\ semOwner \in [Sems -> Tasks \cup {NoTask}]
        /\ "READY" \in Sched.status[running]
    BY <1>2, Invariants DEF IInv, RestType
  <2>2. /\ SchedOK(b, taskSem')
        /\ b.running = Sched.running /\ b.uniFlag = Sched.uniFlag
        /\ b.status = [Sched.status EXCEPT ![running] = (@ \ {"READY"}) \cup {"PEND"}]
        /\ b.list[s] = Append(Sched.list[s], running)
        /\ \A h \in Heads \ {RunQueue, s} : b.list[h] = Sched.list[h]
        /\ \A u \in Tasks : b.priority[u] <= Sched.priority[u]
        /\ \A u \in Tasks : u # semOwner[s] \/ ~ HasOwner(Sched, s) =>
                            b.priority[u] = Sched.priority[u]
        /\ HasOwner(Sched, s) =>
             /\ \A w \in Range(b.list[s]) : b.priority[semOwner[s]] <= Sched.priority[w]
             /\ \/ b.priority[semOwner[s]] = Sched.priority[semOwner[s]]
                \/ \E w \in Range(b.list[s]) : b.priority[semOwner[s]] = Sched.priority[w]
    BY <2>1, <1>2, <1>3, PendListPut
  <2>3. /\ Sched.running = running /\ Sched.uniFlag = uniFlag /\ Sched.status = status
        /\ Sched.list = list /\ Sched.priority = priority
    BY Invariants
  <2> HIDE DEF b
  <2> QED
    BY <2>2, <2>3
<1> HIDE DEF b
<1>5. \A u \in Tasks :
        b.status[u] = IF u = running THEN (status[u] \ {"READY"}) \cup {"PEND"}
                                     ELSE status[u]
  <2>1. status \in StatusType /\ \A u \in Tasks : u \in TCBs
    BY Invariants, Names
  <2> QED
    BY <2>1, <1>2, <1>4 DEF StatusType
<1>6. LinkedOK(b, taskSem') /\ b.list[RunQueue] # << >>
  <2>1. LinkedOK(b, taskSem') /\ "READY" \in b.status[idleTaskId]
    BY <1>2, <1>4, <1>5 DEF SchedOK
  <2> QED
    BY <2>1, <1>2, SomebodyReady
<1>7. /\ SchedOK(r, taskSem')
      /\ r.priority = b.priority /\ r.list = b.list
      /\ SameBits(b.status, r.status)
      /\ "BGD_ACTIVE" \in r.uniFlag <=> "BGD_ACTIVE" \in b.uniFlag
      /\ r.running = r.highest /\ r.running \in Tasks
      /\ "READY" \in r.status[r.running]
  BY <1>6, Schedule
<1> HIDE DEF r
<1>8. /\ SchedOK(Sched, taskSem)'
      /\ status' = r.status /\ priority' = r.priority /\ list' = r.list
      /\ highest' = r.highest /\ running' = r.running /\ uniFlag' = r.uniFlag
  BY <1>1, <1>7, NextSched
<1>9. \A u \in Tasks : status'[u] = {} <=> status[u] = {}
  <2>1. status[running] # {} /\ b.status[running] # {}
    BY <1>2, <1>5
  <2>2. \A u \in Tasks : status'[u] = {} <=> b.status[u] = {}
    BY <1>7, <1>8 DEF SameBits
  <2> QED
    BY <2>1, <2>2, <1>5
<1>10. RestType'
  BY <1>1, <1>2, Names DEF IInv, RestType, semVars
<1>11. BootOrRun'
  <2>1. Active'
    BY <1>2, <1>4, <1>7, <1>8 DEF Active
  <2>2. idleTaskId' \in Tasks /\ "READY" \in status'[idleTaskId']
    BY <1>1, <1>2, <1>5, <1>7, <1>8 DEF SameBits
  <2> QED
    BY <2>1, <2>2, <1>7, <1>8 DEF BootOrRun
<1>12. Stacks'
  BY <1>1, <1>9, SameStacks DEF IInv
<1>13. \A h \in Sems \ {s} : list'[h] = list[h]
  BY <1>4, <1>7, <1>8, Names
<1>14. NoIdleToken'
  BY <1>1, <1>13 DEF IInv, NoIdleToken, semVars
<1>15. UnusedSems'
  BY <1>1, <1>13 DEF IInv, UnusedSems, semVars
<1>16. NeverDemoted'
  <2>1. r \in SchedType
    BY <1>7 DEF SchedOK, LinkedOK
  <2> QED
    BY <1>1, <1>4, <1>7, <1>8, <1>9, <2>1, StillNotDemoted
<1>17. IInv'
  BY <1>8, <1>10, <1>11, <1>12, <1>14, <1>15, <1>16 DEF IInv
<1>18. Goes(t, ReadyTask, WaitingTask)
  <2>1. State(t) = ReadyTask
    BY <1>2, States
  <2> DEFINE c == (status[t] \ {"READY"}) \cup {"PEND"}
  <2>2. c \subseteq StatusBits /\ c \ {"RUNNING"} = WaitingTask
    <3>1. status[t] \subseteq StatusBits
      BY <1>2, Invariants, Names DEF StatusType
    <3> QED
      BY <2>1, <3>1 DEF State, WaitingTask, ReadyTask, StatusBits
  <2>3. \A u \in Tasks : status[u] \subseteq StatusBits /\ status'[u] \subseteq StatusBits
    BY <1>8, <1>7, Invariants, Names, SchedFields DEF StatusType, SchedOK, LinkedOK
  <2>4. SameBits(b.status, status') /\ \A u \in Tasks : b.status[u] = IF u = t THEN c ELSE status[u]
    BY <1>5, <1>7, <1>8
  <2> HIDE DEF c
  <2> QED
    BY <1>2, <2>1, <2>2, <2>3, <2>4, GoesBy DEF Goes
<1>19. list'[s] = Append(list[s], t) /\ SameQueues(Sems \ {s}) /\ running' = highest'
  BY <1>4, <1>7, <1>8, <1>13 DEF SameQueues
<1>20. Active'
  BY <1>2, <1>4, <1>7, <1>8 DEF Active
<1>21. priority' = b.priority /\ list'[s] = b.list[s]
  BY <1>7, <1>8
<1> QED
  BY <1>2, <1>4, <1>17, <1>18, <1>19, <1>20, <1>21

LEMMA OsTaskExitInv ==
  ASSUME IInv, OsTaskExit, NEW t, t = running
  PROVE  /\ IInv'
         /\ t \in Tasks /\ Goes(t, ReadyTask, ExitedTask)
         /\ SameQueues(Sems) /\ priority' = priority
         /\ Active /\ Active' /\ running' = highest'
<1> DEFINE b == OsTskReadyDel(Sched, running)
           r == OsTskSchedule(b)
<1>1. SetSched(r) /\ UNCHANGED semVars /\ UNCHANGED tskVars /\ TaskRuns
  BY DEF OsTaskExit
<1>2. /\ running \in Tasks /\ running # idleTaskId /\ Active
      /\ "READY" \in status[running]
      /\ idleTaskId \in Tasks /\ "READY" \in status[idleTaskId]
  BY <1>1, Names DEF TaskRuns, CallerRuns, IInv, BootOrRun
<1>3. /\ SchedOK(b, taskSem)
      /\ b.running = running /\ b.uniFlag = uniFlag /\ b.priority = priority
      /\ b.status = [status EXCEPT ![running] = @ \ {"READY"}]
      /\ \A h \in Heads \ {RunQueue} : b.list[h] = list[h]
  <2>1. LinkedOK(Sched, taskSem) /\ "READY" \in Sched.status[running]
    BY <1>2, Invariants
  <2>2. /\ SchedOK(b, taskSem)
        /\ b.status = [Sched.status EXCEPT ![running] = @ \ {"READY"}]
        /\ b.priority = Sched.priority /\ b.running = Sched.running
        /\ b.uniFlag = Sched.uniFlag
        /\ \A h \in Heads \ {RunQueue} : b.list[h] = Sched.list[h]
    BY <2>1, <1>2, ReadyDel
  <2> HIDE DEF b
  <2> QED
    BY <2>2, Invariants
<1> HIDE DEF b
<1>4. \A u \in Tasks :
        b.status[u] = IF u = running THEN status[u] \ {"READY"} ELSE status[u]
  BY <1>2, <1>3, Invariants, Names DEF StatusType
<1>5. LinkedOK(b, taskSem) /\ b.list[RunQueue] # << >>
  <2>1. LinkedOK(b, taskSem) /\ "READY" \in b.status[idleTaskId]
    BY <1>2, <1>3, <1>4 DEF SchedOK
  <2> QED
    BY <2>1, <1>2, SomebodyReady
<1>6. /\ SchedOK(r, taskSem)
      /\ r.priority = b.priority /\ r.list = b.list
      /\ SameBits(b.status, r.status)
      /\ "BGD_ACTIVE" \in r.uniFlag <=> "BGD_ACTIVE" \in b.uniFlag
      /\ r.running = r.highest /\ r.running \in Tasks
      /\ "READY" \in r.status[r.running]
  BY <1>5, Schedule
<1> HIDE DEF r
<1>7. /\ SchedOK(Sched, taskSem)'
      /\ status' = r.status /\ priority' = r.priority /\ list' = r.list
      /\ highest' = r.highest /\ running' = r.running /\ uniFlag' = r.uniFlag
  <2>1. SchedOK(r, taskSem')
    BY <1>1, <1>6 DEF tskVars
  <2> QED
    BY <1>1, <2>1, NextSched
<1>8. \A u \in Tasks : status'[u] = {} <=> status[u] = {}
  <2>1. status[running] # {} /\ b.status[running] # {}
    <3>1. "INUSE" \in status[running]
      <4>1. StatusOK(status[running])
        BY <1>2, Invariants DEF LinksOK
      <4> QED
        BY <4>1, <1>2 DEF StatusOK
    <3>2. "INUSE" \in b.status[running]
      BY <3>1, <1>2, <1>4
    <3> QED
      BY <3>1, <3>2
  <2>2. \A u \in Tasks : status'[u] = {} <=> b.status[u] = {}
    BY <1>6, <1>7 DEF SameBits
  <2> QED
    BY <2>1, <2>2, <1>4
<1>9. RestType'
  BY <1>1 DEF IInv, RestType, semVars, tskVars
<1>10. BootOrRun'
  <2>1. Active'
    BY <1>2, <1>3, <1>6, <1>7 DEF Active
  <2>2. idleTaskId' \in Tasks /\ "READY" \in status'[idleTaskId']
    BY <1>1, <1>2, <1>4, <1>6, <1>7 DEF SameBits, tskVars
  <2> QED
    BY <2>1, <2>2, <1>6, <1>7 DEF BootOrRun
<1>11. Stacks'
  BY <1>1, <1>8, SameStacks DEF IInv, tskVars
<1>12. \A h \in Sems : list'[h] = list[h]
  BY <1>3, <1>6, <1>7, Names
<1>13. NoIdleToken' /\ UnusedSems'
  BY <1>1, <1>12 DEF IInv, NoIdleToken, UnusedSems, semVars
<1>14. NeverDemoted'
  <2>1. \A u \in Tasks : r.priority[u] <= priority[u]
    BY <1>3, <1>6, Invariants, PriorityNat
  <2>2. r \in SchedType
    BY <1>6 DEF SchedOK, LinkedOK
  <2> QED
    BY <1>1, <1>7, <1>8, <2>1, <2>2, StillNotDemoted DEF tskVars
<1>15. IInv'
  BY <1>7, <1>9, <1>10, <1>11, <1>13, <1>14 DEF IInv
<1>16. Goes(t, ReadyTask, ExitedTask)
  <2>1. State(t) = ReadyTask
    BY <1>2, States
  <2> DEFINE c == status[t] \ {"READY"}
  <2>2. c \subseteq StatusBits /\ c \ {"RUNNING"} = ExitedTask
    <3>1. status[t] \subseteq StatusBits
      BY <1>2, Invariants, Names DEF StatusType
    <3> QED
      BY <2>1, <3>1 DEF State, ExitedTask, ReadyTask, StatusBits
  <2>3. \A u \in Tasks : status[u] \subseteq StatusBits /\ status'[u] \subseteq StatusBits
    BY <1>6, <1>7, Invariants, Names, SchedFields DEF StatusType, SchedOK, LinkedOK
  <2>4. SameBits(b.status, status') /\ \A u \in Tasks : b.status[u] = IF u = t THEN c ELSE status[u]
    BY <1>4, <1>6, <1>7
  <2> HIDE DEF c
  <2> QED
    BY <1>2, <2>1, <2>2, <2>3, <2>4, GoesBy DEF Goes
<1>17. Active' /\ running' = highest' /\ priority' = priority
  BY <1>2, <1>3, <1>6, <1>7 DEF Active
<1> QED
  BY <1>2, <1>12, <1>15, <1>16, <1>17 DEF SameQueues

\* A suspended task, taken out of suspension: it waits for nothing, so it is readied.
LEMMA ResumeInv ==
  ASSUME IInv, NEW t \in Tasks, "SUSPEND" \in status[t],
         SetSched(OsMoveTaskToReady([Sched EXCEPT !.status[t] = @ \ {"SUSPEND"}], t)),
         UNCHANGED semVars, UNCHANGED tskVars
  PROVE  /\ IInv'
         /\ Goes(t, SuspendedTask, ReadyTask)
         /\ SameQueues(Sems) /\ priority' = priority
         /\ Active' <=> Active
         /\ IF Active THEN running' = highest' ELSE running' = running
<1> DEFINE q == [Sched EXCEPT !.status[t] = @ \ {"SUSPEND"}]
           a == OsTskReadyAdd(q, t)
           r == IF "BGD_ACTIVE" \in uniFlag THEN OsTskSchedule(a) ELSE a
           bits == status[t] \ {"SUSPEND"}
<1>1. /\ q.status = [status EXCEPT ![t] = bits]
      /\ q.priority = priority /\ q.list = list /\ q.running = running
      /\ q.uniFlag = uniFlag
  BY Invariants DEF LinkedOK, SchedType
<1>2. /\ \A u \in Tasks : q.status[u] = IF u = t THEN bits ELSE status[u]
      /\ "INUSE" \in bits /\ bits \cap {"READY", "PEND", "SUSPEND"} = {}
      /\ bits \subseteq StatusBits
  <2>1. StatusOK(status[t]) /\ status[t] \subseteq StatusBits
    BY Invariants, Names DEF LinksOK, StatusType
  <2>2. \A u \in Tasks : q.status[u] = IF u = t THEN bits ELSE status[u]
    <3>1. status \in StatusType
      BY Invariants
    <3> HIDE DEF q, bits
    <3> QED
      BY <1>1, <3>1, Names DEF StatusType
  <2> HIDE DEF q
  <2> QED
    BY <2>1, <2>2 DEF StatusOK
<1>3. LinkedOK(q, taskSem)
  <2>1. q.status \in StatusType
    <3>1. [status EXCEPT ![t] = bits] \in StatusType
      BY <1>2, Invariants, StatusExcept
    <3> QED
      BY <1>1, <3>1
  <2>2. q \in SchedType
    BY <2>1, Invariants DEF LinkedOK, SchedType, StatusType
  <2> HIDE DEF q, bits
  <2>3. \A h \in Heads : On(q.status, taskSem, h) = On(status, taskSem, h)
    <3>1. \A u \in Tasks : /\ q.status[u] = {} <=> status[u] = {}
                           /\ "READY" \in q.status[u] <=> "READY" \in status[u]
                           /\ "PEND" \in q.status[u] <=> "PEND" \in status[u]
      BY <1>2 DEF bits
    <3> QED
      BY <3>1 DEF On
  <2>4. \A u \in Tasks : StatusOK(q.status[u])
    BY <1>2, Invariants DEF LinksOK, StatusOK
  <2> QED
    BY <1>1, <2>2, <2>3, <2>4, Invariants DEF LinkedOK, LinksOK
<1>4. OsMoveTaskToReady(q, t) = r
  <2>1. q.status[t] \cap {"PEND", "SUSPEND"} = {}
    BY <1>2
  <2> QED
    BY <1>1, <2>1 DEF OsMoveTaskToReady
<1>5. SetSched(r)
  BY <1>4
<1> HIDE DEF q, bits
<1>6. /\ SchedOK(a, taskSem)
      /\ a.status = [q.status EXCEPT ![t] = @ \cup {"READY"}]
      /\ a.priority = q.priority /\ a.running = q.running /\ a.uniFlag = q.uniFlag
      /\ \A h \in Heads \ {RunQueue} : a.list[h] = q.list[h]
  <2>1. q.status[t] # {} /\ q.status[t] \cap {"READY", "PEND", "SUSPEND"} = {}
    BY <1>2
  <2> QED
    BY <1>3, <2>1, ReadyAdd
<1> HIDE DEF a
<1>7. \A u \in Tasks : a.status[u] = IF u = t THEN bits \cup {"READY"} ELSE status[u]
  <2>1. q.status \in StatusType
    BY <1>3, SchedFields DEF LinkedOK
  <2> QED
    BY <1>2, <1>6, <2>1, Names DEF StatusType
<1>8. /\ SchedOK(r, taskSem)
      /\ r.priority = a.priority /\ r.list = a.list
      /\ SameBits(a.status, r.status)
      /\ "BGD_ACTIVE" \in r.uniFlag <=> "BGD_ACTIVE" \in uniFlag
      /\ IF Active THEN /\ r.running \in Tasks /\ "READY" \in r.status[r.running]
                        /\ r.running = r.highest
                   ELSE r.running = running
  <2>1. CASE Active
    <3>1. LinkedOK(a, taskSem) /\ a.list[RunQueue] # << >>
      <4>1. LinkedOK(a, taskSem) /\ "READY" \in a.status[t]
        BY <1>6, <1>7 DEF SchedOK
      <4> QED
        BY <4>1, SomebodyReady
    <3>2. r = OsTskSchedule(a)
      BY <2>1 DEF Active
    <3> HIDE DEF r
    <3> QED
      BY <1>1, <1>6, <2>1, <3>1, <3>2, Schedule
  <2>2. CASE ~ Active
    <3>1. r = a
      BY <2>2 DEF Active
    <3>2. SameBits(a.status, a.status)
      BY DEF SameBits
    <3> QED
      BY <1>1, <1>6, <2>2, <3>1, <3>2
  <2> QED
    BY <2>1, <2>2
<1> HIDE DEF r
<1>9. /\ SchedOK(Sched, taskSem)'
      /\ status' = r.status /\ priority' = r.priority /\ list' = r.list
      /\ highest' = r.highest /\ running' = r.running /\ uniFlag' = r.uniFlag
  <2>1. SchedOK(r, taskSem')
    BY <1>8 DEF tskVars
  <2> QED
    BY <1>5, <2>1, NextSched
<1>10. \A u \in Tasks : status'[u] = {} <=> status[u] = {}
  <2>1. \A u \in Tasks : status'[u] = {} <=> a.status[u] = {}
    BY <1>8, <1>9 DEF SameBits
  <2> QED
    BY <2>1, <1>2, <1>7
<1>11. RestType'
  BY DEF IInv, RestType, semVars, tskVars
<1>12. BootOrRun'
  <2>1. Active' <=> Active
    BY <1>8, <1>9 DEF Active
  <2>2. idleTaskId' = idleTaskId
    BY DEF tskVars
  <2>3. CASE Active
    <3>1. "READY" \in a.status[idleTaskId] /\ idleTaskId \in Tasks
      BY <2>3, <1>7 DEF IInv, BootOrRun
    <3> QED
      BY <2>1, <2>2, <2>3, <3>1, <1>8, <1>9 DEF BootOrRun, SameBits
  <2>4. CASE ~ Active
    <3>1. \A u \in Tasks : "PEND" \notin a.status[u]
      BY <2>4, <1>2, <1>7 DEF IInv, BootOrRun
    <3> QED
      BY <2>1, <2>2, <2>4, <3>1, <1>8, <1>9 DEF IInv, BootOrRun, SameBits
  <2> QED
    BY <2>3, <2>4
<1>13. Stacks'
  BY <1>10, SameStacks DEF IInv, tskVars
<1>14. \A h \in Sems : list'[h] = list[h]
  BY <1>1, <1>6, <1>8, <1>9, Names
<1>15. NoIdleToken' /\ UnusedSems'
  BY <1>14 DEF IInv, NoIdleToken, UnusedSems, semVars
<1>16. NeverDemoted'
  <2>1. \A u \in Tasks : r.priority[u] <= priority[u]
    BY <1>1, <1>6, <1>8, Invariants, PriorityNat
  <2>2. r \in SchedType
    BY <1>8 DEF SchedOK, LinkedOK
  <2> QED
    BY <1>9, <1>10, <2>1, <2>2, StillNotDemoted DEF tskVars
<1>17. IInv'
  BY <1>9, <1>11, <1>12, <1>13, <1>15, <1>16 DEF IInv
<1>18. Goes(t, SuspendedTask, ReadyTask)
  <2>1. State(t) = SuspendedTask
    BY States
  <2> DEFINE c == bits \cup {"READY"}
  <2>2. c \subseteq StatusBits /\ c \ {"RUNNING"} = ReadyTask
    <3>1. status[t] \subseteq StatusBits
      BY Invariants, Names DEF StatusType
    <3> QED
      BY <2>1, <3>1 DEF State, SuspendedTask, ReadyTask, StatusBits, bits
  <2>3. \A u \in Tasks : status[u] \subseteq StatusBits /\ status'[u] \subseteq StatusBits
    BY <1>8, <1>9, Invariants, Names, SchedFields DEF StatusType, SchedOK, LinkedOK
  <2>4. SameBits(a.status, status') /\ \A u \in Tasks : a.status[u] = IF u = t THEN c ELSE status[u]
    BY <1>7, <1>8, <1>9
  <2> HIDE DEF c
  <2> QED
    BY <2>1, <2>2, <2>3, <2>4, GoesBy DEF Goes
<1>19. /\ Active' <=> Active
       /\ IF Active THEN running' = highest' ELSE running' = running
       /\ priority' = priority
  BY <1>1, <1>6, <1>8, <1>9 DEF Active
<1> QED
  BY <1>14, <1>17, <1>18, <1>19 DEF SameQueues

\* The first TCB of the free list is unused.
LEMMA FirstFree ==
  ASSUME IInv, list[FreeList] # << >>
  PROVE  Head(list[FreeList]) \in Tasks /\ status[Head(list[FreeList])] = {}
<1>1. /\ list[FreeList] \in Seq(Tasks) /\ FreeList \in Heads /\ FreeList # RunQueue
      /\ Enumerates(list[FreeList], On(status, taskSem, FreeList))
  BY Invariants, Names DEF ListType, LinksOK
<1>2. Head(list[FreeList]) \in On(status, taskSem, FreeList)
  BY <1>1, HeadOfList DEF Enumerates
<1> QED
  BY <1>1, <1>2 DEF On

\* One more TCB in use, one more stack.
LEMMA OneMoreStack ==
  ASSUME Stacks, NEW t \in Tasks, status[t] = {}, InUse' = InUse \cup {t},
         stackMemUsed' = stackMemUsed + 1
  PROVE  Stacks'
<1>1. IsFiniteSet(Tasks)
  BY SizesAssumption, FS_Interval DEF Tasks
<1>2. IsFiniteSet(InUse)
  BY <1>1, FS_Subset DEF InUse
<1>3. t \notin InUse
  BY DEF InUse
<1>4. Cardinality(InUse') = Cardinality(InUse) + 1
  BY <1>2, <1>3, FS_AddElement
<1> QED
  BY <1>4 DEF Stacks

LEMMA TaskCreatedInv ==
  ASSUME IInv, NEW p \in 0 .. OS_TSK_PRIORITY_LOWEST, TaskCreated(p),
         NEW t, t = Head(list[FreeList])
  PROVE  /\ IInv'
         /\ t \in Tasks /\ Goes(t, FreeTask, SuspendedTask)
         /\ SameQueues(Sems)
         /\ \A u \in Tasks \ {t} : /\ priority'[u] = priority[u]
                                  /\ originalPriority'[u] = originalPriority[u]
         /\ priority'[t] = p /\ originalPriority'[t] = p
<1> DEFINE b == {"SUSPEND", "INUSE"}
<1>1. /\ list[FreeList] # << >> /\ stackMemUsed < NumStacks
      /\ list' = [h \in Heads |-> ListDelete(list[h], t)]
      /\ priority' = [priority EXCEPT ![t] = p]
      /\ originalPriority' = [originalPriority EXCEPT ![t] = p]
      /\ taskSem' = [taskSem EXCEPT ![t] = NoSem]
      /\ status' = [status EXCEPT ![t] = b]
      /\ stackMemUsed' = stackMemUsed + 1
      /\ UNCHANGED <<highest, running, uniFlag>> /\ UNCHANGED semVars
      /\ UNCHANGED idleTaskId
  BY DEF TaskCreated, ListEmpty
<1>2. /\ b \subseteq StatusBits /\ "INUSE" \in b /\ "READY" \notin b /\ "PEND" \notin b
  BY DEF StatusBits
<1>t. t \in Tasks /\ status[t] = {}
  BY <1>1, FirstFree
<1> HIDE DEF b
<1>3. /\ t \in Tasks /\ status[t] = {}
      /\ status' \in StatusType /\ list' \in ListType
      /\ LinksOK(status', taskSem, list')
      /\ \A h \in Heads \ {FreeList} : list'[h] = list[h]
      /\ \A u \in Tasks : status'[u] = IF u = t THEN b ELSE status[u]
  <2> DEFINE q == [status |-> status, list |-> list]
             r == [status |-> status', list |-> list']
  <2>1. /\ q.status = status /\ q.list = list /\ r.status = status' /\ r.list = list'
        /\ r.status = [q.status EXCEPT ![t] = b]
        /\ r.list = [h \in Heads |-> ListDelete(q.list[h], t)]
    BY <1>1
  <2> HIDE DEF q, r
  <2>2. q.status \in StatusType /\ q.list \in ListType /\ LinksOK(q.status, taskSem, q.list)
    BY <2>1, Invariants
  <2>3. /\ r.list \in ListType /\ LinksOK(r.status, taskSem, r.list)
        /\ \A h \in Heads : t \notin On(q.status, taskSem, h) => r.list[h] = q.list[h]
    BY <1>2, <1>t, <2>1, <2>2, Unlink
  <2>4. [q.status EXCEPT ![t] = b] \in StatusType
    BY <1>2, <2>2, StatusExcept
  <2>5. \A h \in Heads \ {FreeList} : t \notin On(q.status, taskSem, h)
    BY <1>t, <2>1 DEF On
  <2>6. \A u \in Tasks : r.status[u] = IF u = t THEN b ELSE q.status[u]
    BY <2>1, <2>2, Names DEF StatusType
  <2> QED
    BY <1>t, <2>1, <2>3, <2>4, <2>5, <2>6
<1>4. p \in 0 .. OS_TSK_PRIORITY_LOWEST + 1
  BY DEF OS_TSK_PRIORITY_LOWEST
<1>5. /\ priority' \in PrioType /\ originalPriority' \in PrioType
      /\ \A u \in Tasks : /\ priority'[u] = IF u = t THEN p ELSE priority[u]
                          /\ originalPriority'[u] = IF u = t THEN p ELSE originalPriority[u]
  <2>1. priority \in PrioType /\ originalPriority \in PrioType
    BY Invariants DEF IInv, RestType
  <2>2. /\ [priority EXCEPT ![t] = p] \in PrioType
        /\ [originalPriority EXCEPT ![t] = p] \in PrioType
    BY <1>4, <2>1, ExceptType DEF PrioType
  <2>3. DOMAIN priority = TCBs /\ DOMAIN originalPriority = TCBs
    BY <2>1 DEF PrioType
  <2> QED
    BY <1>1, <2>2, <2>3, Names
<1>6. LinksOK(status', taskSem', list')
  <2>1. SameBits(status', status')
    BY DEF SameBits
  <2>2. \A u \in Tasks : "PEND" \in status'[u] => taskSem'[u] = taskSem[u]
    BY <1>1, <1>2, <1>3, Names DEF IInv, RestType
  <2> QED
    BY <1>3, <2>1, <2>2, SameLinks, Zenon
<1>7. highest' = HighestOf(list'[RunQueue], priority')
  <2> DEFINE l == list[RunQueue]
  <2>1. list'[RunQueue] = l /\ l \in Seq(Tasks)
    BY <1>3, Invariants, Names DEF ListType
  <2>2. \A u \in Range(l) : priority'[u] = priority[u]
    <3>1. Range(l) = {u \in Tasks : "READY" \in status[u]}
      BY Invariants, Names DEF LinksOK, Enumerates, On
    <3> QED
      BY <3>1, <1>3, <1>5
  <2>3. l # << >> => FirstHighest(l, priority') = FirstHighest(l, priority)
    <3>1. priority' \in [TCBs -> Nat] /\ priority \in [TCBs -> Nat]
      BY <1>5, Invariants, PrioNat
    <3> QED
      BY <2>1, <2>2, <3>1, FirstHighestPicks
  <2> QED
    BY <1>1, <2>1, <2>3, Invariants DEF HighestOf, ListEmpty
<1>8. SchedOK(Sched, taskSem)'
  <2>1. (Sched \in SchedType)'
    BY <1>1, <1>3, <1>5, Invariants DEF Sched, SchedType, StatusType, PrioType, ListType
  <2> QED
    BY <2>1, <1>6, <1>7 DEF SchedOK, LinkedOK, Sched
<1>9. RestType'
  BY <1>1, <1>3, <1>5, Names, SizesAssumption DEF IInv, RestType, semVars
<1>10. BootOrRun'
  BY <1>1, <1>2, <1>3 DEF IInv, BootOrRun, Active
<1>11. \A s \in Sems : list'[s] = list[s]
  BY <1>3, Names
<1>12. NoIdleToken' /\ UnusedSems'
  BY <1>1, <1>11 DEF IInv, NoIdleToken, UnusedSems, semVars
<1>13. Stacks'
  <2>1. InUse' = InUse \cup {t}
    BY <1>2, <1>3 DEF InUse
  <2> QED
    BY <1>1, <1>3, <2>1, OneMoreStack DEF IInv
<1>14. NeverDemoted'
  BY <1>3, <1>4, <1>5 DEF IInv, NeverDemoted, InUse, OS_TSK_PRIORITY_LOWEST
<1>15. IInv'
  BY <1>8, <1>9, <1>10, <1>12, <1>13, <1>14 DEF IInv
<1>16. Goes(t, FreeTask, SuspendedTask)
  BY <1>3 DEF Goes, State, FreeTask, SuspendedTask, b
<1> QED
  BY <1>3, <1>5, <1>11, <1>15, <1>16 DEF SameQueues

\* The TCB goes back where it came from.
LEMMA TaskNotCreatedInv ==
  ASSUME IInv, TaskNotCreated
  PROVE  /\ IInv'
         /\ SameQueues(Sems)
         /\ UNCHANGED <<status, priority, highest, running, uniFlag>>
         /\ UNCHANGED semVars /\ UNCHANGED tskVars
<1> DEFINE t == Head(list[FreeList])
           d == [h \in Heads |-> ListDelete(list[h], t)]
<1>1. CASE Fail("TCB_UNAVAILABLE")
  BY <1>1, StutterInv DEF Fail, SameQueues, vars, schedVars
<1>2. CASE /\ list[FreeList] # << >>
           /\ list' = [d EXCEPT ![FreeList] = ListAdd(@, t)]
           /\ UNCHANGED <<status, priority, highest, running, uniFlag>>
           /\ UNCHANGED semVars /\ UNCHANGED tskVars
  <2> DEFINE l == list[FreeList]
             R == On(status, taskSem, FreeList)
  <2>1. /\ l \in Seq(Tasks) /\ FreeList \in Heads /\ FreeList # RunQueue
        /\ Enumerates(l, R)
    BY Invariants, Names DEF ListType, LinksOK
  <2>2. t \in Tasks /\ t \in R
    BY <2>1, <1>2, HeadOfList DEF Enumerates
  <2>3. status[t] = {}
    BY <2>1, <2>2 DEF On
  <2> HIDE DEF t
  <2>4. ASSUME NEW h \in Heads, h # FreeList PROVE list'[h] = list[h]
    <3>1. list[h] \in Seq(Tasks) /\ Enumerates(list[h], On(status, taskSem, h))
      BY Invariants DEF ListType, LinksOK
    <3>2. t \notin On(status, taskSem, h)
      BY <2>3, <2>4 DEF On
    <3>3. ListDelete(list[h], t) = list[h]
      BY <3>1, <3>2, DeleteList
    <3> QED
      BY <1>2, <2>4, <3>3
  <2>5. list'[FreeList] \in Seq(Tasks) /\ Enumerates(list'[FreeList], R)
    <3> DEFINE e == ListDelete(l, t)
    <3>1. e \in Seq(Tasks) /\ Enumerates(e, R \ {t})
      BY <2>1, DeleteList
    <3> HIDE DEF e, R
    <3>2. ListAdd(e, t) \in Seq(Tasks) /\ Enumerates(ListAdd(e, t), (R \ {t}) \cup {t})
      BY <2>2, <3>1, AddList
    <3>3. (R \ {t}) \cup {t} = R
      BY <2>2
    <3>4. list'[FreeList] = ListAdd(e, t)
      BY <1>2, <2>1 DEF e
    <3> QED
      BY <3>2, <3>3, <3>4
  <2>6. list' \in ListType
    <3>1. DOMAIN list' = Heads /\ list' = [h \in Heads |-> list'[h]]
      BY <1>2
    <3>2. \A h \in Heads : list'[h] \in Seq(Tasks)
      BY <2>4, <2>5, Invariants DEF ListType
    <3> QED
      BY <3>1, <3>2 DEF ListType
  <2>7. LinksOK(status, taskSem, list')
    BY <2>4, <2>5, Invariants DEF LinksOK
  <2>8. SchedOK(Sched, taskSem)'
    <3>1. (Sched \in SchedType)'
      BY <1>2, <2>6, Invariants DEF Sched, SchedType, StatusType, PrioType, ListType
    <3>2. list'[RunQueue] = list[RunQueue]
      BY <2>1, <2>4, Names
    <3> QED
      BY <1>2, <2>7, <3>1, <3>2, Invariants DEF SchedOK, LinkedOK, Sched, tskVars
  <2>9. \A s \in Sems : list'[s] = list[s]
    BY <2>4, Names
  <2> QED
    BY <1>2, <2>8, <2>9
       DEF IInv, RestType, BootOrRun, Active, NoIdleToken, UnusedSems, Stacks, InUse,
           NeverDemoted, semVars, tskVars, SameQueues
<1> QED
  BY <1>1, <1>2 DEF TaskNotCreated, ListEmpty

\* The end of boot: the idle task makes the run queue non-empty.
LEMMA OsActivateInv ==
  ASSUME IInv, OsActivate, NEW t, t = Head(list[FreeList])
  PROVE  /\ IInv'
         /\ t \in Tasks /\ Goes(t, FreeTask, ReadyTask)
         /\ SameQueues(Sems)
         /\ \A u \in Tasks \ {t} : /\ priority'[u] = priority[u]
                                  /\ originalPriority'[u] = originalPriority[u]
         /\ priority'[t] = OS_TSK_PRIORITY_LOWEST
         /\ originalPriority'[t] = OS_TSK_PRIORITY_LOWEST
         /\ ~ Active /\ Active' /\ running' = highest' /\ idleTaskId' = t
<1> DEFINE b == {"INUSE"}
           low == OS_TSK_PRIORITY_LOWEST
           idle == [Sched EXCEPT !.list = [h \in Heads |-> ListDelete(@[h], t)],
                                 !.priority[t] = low, !.status[t] = b]
           a == OsTskReadyAdd(idle, t)
           q == OsTskHighestSet(a)
           r == [q EXCEPT !.uniFlag = @ \cup {"BGD_ACTIVE", "TSK_REQ"},
                          !.running = q.highest,
                          !.status[q.highest] = @ \cup {"RUNNING"}]
<1>1. /\ running = Zombie /\ list[FreeList] # << >> /\ stackMemUsed < NumStacks
      /\ SetSched(r)
      /\ originalPriority' = [originalPriority EXCEPT ![t] = low]
      /\ taskSem' = [taskSem EXCEPT ![t] = NoSem]
      /\ idleTaskId' = t /\ stackMemUsed' = stackMemUsed + 1
      /\ UNCHANGED semVars
  BY DEF OsActivate, ListEmpty
<1>2. t \in Tasks /\ status[t] = {} /\ t \in TCBs
  BY <1>1, FirstFree, Names
<1>3. \A u \in Tasks : "PEND" \notin status[u]
  BY <1>1, Names DEF IInv, BootOrRun
<1>4. /\ idle.status = [status EXCEPT ![t] = b]
      /\ idle.list = [h \in Heads |-> ListDelete(list[h], t)]
      /\ idle.priority = [priority EXCEPT ![t] = low]
      /\ idle.highest = highest /\ idle.running = running /\ idle.uniFlag = uniFlag
  BY Invariants DEF LinkedOK, SchedType
<1>s. ASSUME idle.status \in StatusType, idle.priority \in PrioType, idle.list \in ListType
      PROVE  idle \in SchedType
  BY <1>s, Invariants DEF LinkedOK, SchedType, StatusType, PrioType, ListType
<1> HIDE DEF idle
<1>5. b \subseteq StatusBits /\ "INUSE" \in b /\ "READY" \notin b /\ "PEND" \notin b
  BY DEF StatusBits
<1>6. /\ \A u \in Tasks : idle.status[u] = IF u = t THEN b ELSE status[u]
      /\ \A u \in Tasks : idle.priority[u] = IF u = t THEN low ELSE priority[u]
      /\ idle.status \in StatusType /\ idle.priority \in PrioType
  <2>1. status \in StatusType /\ priority \in PrioType
    BY Invariants
  <2>2. /\ [status EXCEPT ![t] = b] \in StatusType
        /\ [priority EXCEPT ![t] = low] \in PrioType
    <3>1. low \in 0 .. OS_TSK_PRIORITY_LOWEST + 1
      BY DEF OS_TSK_PRIORITY_LOWEST
    <3>2. [priority EXCEPT ![t] = low] \in PrioType
      BY <2>1, <3>1, ExceptType DEF PrioType
    <3> HIDE DEF low
    <3> QED
      BY <1>5, <2>1, <3>2, StatusExcept
  <2>3. DOMAIN status = TCBs /\ DOMAIN priority = TCBs
    BY <2>1 DEF StatusType, PrioType
  <2> HIDE DEF b, low
  <2> QED
    BY <1>4, <2>2, <2>3, Names
<1> HIDE DEF b, low
<1>7. /\ idle.list \in ListType /\ LinksOK(idle.status, taskSem, idle.list)
      /\ \A h \in Heads \ {FreeList} : idle.list[h] = list[h]
  <2> DEFINE p == [status |-> status, list |-> list]
  <2>1. p.status = status /\ p.list = list
    OBVIOUS
  <2> HIDE DEF p
  <2>2. /\ idle.status = [p.status EXCEPT ![t] = b]
        /\ idle.list = [h \in Heads |-> ListDelete(p.list[h], t)]
        /\ p.status \in StatusType /\ p.list \in ListType
        /\ LinksOK(p.status, taskSem, p.list)
    BY <1>4, <2>1, Invariants
  <2>3. /\ idle.list \in ListType /\ LinksOK(idle.status, taskSem, idle.list)
        /\ \A h \in Heads : t \notin On(p.status, taskSem, h) => idle.list[h] = p.list[h]
    BY <1>2, <1>5, <2>2, Unlink
  <2>4. \A h \in Heads \ {FreeList} : t \notin On(p.status, taskSem, h)
    BY <1>2, <2>1 DEF On
  <2> QED
    BY <2>1, <2>3, <2>4
<1>8. LinkedOK(idle, taskSem')
  <2>1. SameBits(idle.status, idle.status)
    BY DEF SameBits
  <2>2. \A u \in Tasks : "PEND" \in idle.status[u] => taskSem'[u] = taskSem[u]
    BY <1>3, <1>5, <1>6
  <2>3. LinksOK(idle.status, taskSem', idle.list)
    BY <1>7, <2>1, <2>2, SameLinks
  <2> QED
    BY <1>6, <1>7, <1>s, <2>3 DEF LinkedOK
<1>9. /\ SchedOK(a, taskSem')
      /\ a.status = [idle.status EXCEPT ![t] = @ \cup {"READY"}]
      /\ a.priority = idle.priority /\ a.running = idle.running
      /\ a.uniFlag = idle.uniFlag
      /\ \A h \in Heads \ {RunQueue} : a.list[h] = idle.list[h]
  <2>1. idle.status[t] # {} /\ idle.status[t] \cap {"READY", "PEND", "SUSPEND"} = {}
    BY <1>2, <1>6 DEF b
  <2> QED
    BY <1>2, <1>8, <2>1, ReadyAdd
<1> HIDE DEF a
<1>10. \A u \in Tasks : a.status[u] = IF u = t THEN b \cup {"READY"} ELSE status[u]
  BY <1>6, <1>9, Names DEF StatusType
<1>11. /\ SchedOK(q, taskSem')
       /\ q.status = a.status /\ q.priority = a.priority /\ q.list = a.list
       /\ q.uniFlag = a.uniFlag
  <2>1. LinkedOK(a, taskSem')
    BY <1>9 DEF SchedOK
  <2> QED
    BY <2>1, HighestSet
<1> HIDE DEF q
<1>12. /\ q.highest \in Tasks /\ "READY" \in q.status[q.highest]
       /\ q.highest \in TCBs
  <2>1. LinkedOK(q, taskSem') /\ "READY" \in q.status[t]
    BY <1>2, <1>10, <1>11 DEF SchedOK
  <2>2. q.list[RunQueue] # << >>
    BY <1>2, <2>1, SomebodyReady
  <2> QED
    BY <1>11, <2>2, HighestReady, Names
<1>13. /\ r.status = [q.status EXCEPT ![q.highest] = @ \cup {"RUNNING"}]
       /\ r.priority = q.priority /\ r.list = q.list /\ r.highest = q.highest
       /\ r.running = q.highest
       /\ r.uniFlag = q.uniFlag \cup {"BGD_ACTIVE", "TSK_REQ"}
       /\ (r.status \in StatusType => r \in SchedType)
  <2>1. q \in SchedType
    BY <1>11 DEF SchedOK, LinkedOK
  <2> QED
    BY <2>1, <1>12 DEF SchedType, StatusType
<1> HIDE DEF r
<1>14. r.status \in StatusType /\ SameBits(q.status, r.status)
  <2> DEFINE top == q.highest
             more == q.status[top] \cup {"RUNNING"}
  <2>1. q.status \in StatusType /\ LinksOK(q.status, taskSem', q.list)
    BY <1>11, SchedFields DEF SchedOK, LinkedOK
  <2>2. more \subseteq StatusBits
    BY <1>12, <2>1 DEF StatusType, StatusBits
  <2>3. [q.status EXCEPT ![top] = more] \in StatusType
    BY <2>1, <2>2, StatusExcept
  <2>4. \A u \in Tasks : r.status[u] = IF u = top THEN q.status[u] \cup {"RUNNING"}
                                                  ELSE q.status[u]
    BY <1>13, <2>1, Names DEF StatusType
  <2>5. q.status[top] # {}
    BY <1>12
  <2> QED
    BY <1>12, <1>13, <2>3, <2>4, <2>5 DEF SameBits
<1>15. SchedOK(r, taskSem')
  <2>1. LinksOK(q.status, taskSem', q.list)
    BY <1>11 DEF SchedOK, LinkedOK
  <2>2. LinksOK(r.status, taskSem', q.list)
    BY <1>14, <2>1, SameLinks
  <2> QED
    BY <1>11, <1>13, <1>14, <2>2 DEF SchedOK, LinkedOK
<1>16. /\ SchedOK(Sched, taskSem)'
       /\ status' = r.status /\ priority' = r.priority /\ list' = r.list
       /\ highest' = r.highest /\ running' = r.running /\ uniFlag' = r.uniFlag
  BY <1>1, <1>15, NextSched
<1>17. \A u \in Tasks : /\ "READY" \in status'[u] <=> u = t \/ "READY" \in status[u]
                        /\ status'[u] = {} <=> u # t /\ status[u] = {}
  <2>1. \A u \in Tasks : /\ "READY" \in status'[u] <=> "READY" \in a.status[u]
                         /\ status'[u] = {} <=> a.status[u] = {}
    BY <1>11, <1>14, <1>16 DEF SameBits
  <2> QED
    BY <2>1, <1>10
<1>18. RestType'
  <2>1. low \in 0 .. OS_TSK_PRIORITY_LOWEST + 1
    BY DEF low, OS_TSK_PRIORITY_LOWEST
  <2>2. originalPriority' \in PrioType
    BY <1>1, <2>1, ExceptType DEF IInv, RestType, PrioType
  <2>3. stackMemUsed' \in 0 .. NumStacks
    BY <1>1, SizesAssumption DEF IInv, RestType
  <2>4. taskSem' \in [TCBs -> Sems \cup {NoSem}]
    BY <1>1 DEF IInv, RestType
  <2> QED
    BY <1>1, <1>2, <2>2, <2>3, <2>4 DEF IInv, RestType, semVars
<1>19. BootOrRun'
  BY <1>1, <1>2, <1>12, <1>13, <1>14, <1>16, <1>17 DEF BootOrRun, Active, SameBits
<1>20. \A s \in Sems : list'[s] = list[s]
  BY <1>7, <1>9, <1>11, <1>13, <1>16, Names
<1>21. NoIdleToken' /\ UnusedSems'
  BY <1>1, <1>20 DEF IInv, NoIdleToken, UnusedSems, semVars
<1>22. Stacks'
  <2>1. InUse' = InUse \cup {t}
    BY <1>2, <1>17 DEF InUse
  <2> QED
    BY <1>1, <1>2, <2>1, OneMoreStack DEF IInv
<1>24. \A u \in Tasks : priority'[u] = IF u = t THEN low ELSE priority[u]
  BY <1>6, <1>9, <1>11, <1>13, <1>16
<1>25. \A u \in Tasks : originalPriority'[u] = IF u = t THEN low ELSE originalPriority[u]
  BY <1>1, Names DEF IInv, RestType, PrioType
<1>23. NeverDemoted'
  <2>1. low <= low
    BY DEF low, OS_TSK_PRIORITY_LOWEST
  <2> QED
    BY <1>17, <1>24, <1>25, <2>1 DEF IInv, NeverDemoted, InUse
<1>26. IInv'
  BY <1>16, <1>18, <1>19, <1>21, <1>22, <1>23 DEF IInv
<1>27. Goes(t, FreeTask, ReadyTask)
  <2> DEFINE c == b \cup {"READY"}
  <2>1. State(t) = FreeTask
    BY <1>2 DEF State, FreeTask
  <2>2. c \subseteq StatusBits /\ c \ {"RUNNING"} = ReadyTask
    BY DEF b, StatusBits, ReadyTask
  <2>3. \A u \in Tasks : status[u] \subseteq StatusBits /\ status'[u] \subseteq StatusBits
    BY <1>14, <1>16, Invariants, Names DEF StatusType
  <2>4. SameBits(a.status, status') /\ \A u \in Tasks : a.status[u] = IF u = t THEN c ELSE status[u]
    BY <1>10, <1>11, <1>14, <1>16
  <2> HIDE DEF c
  <2> QED
    BY <1>2, <2>1, <2>2, <2>3, <2>4, GoesBy DEF Goes
<1>28. ~ Active /\ Active' /\ running' = highest'
  BY <1>1, <1>13, <1>16, Names DEF IInv, BootOrRun, Active
<1> QED
  BY <1>1, <1>2, <1>20, <1>24, <1>25, <1>26, <1>27, <1>28 DEF SameQueues, low

\* The semaphore taken from the unused list had an empty wait queue.
LEMMA SemCreateInv ==
  ASSUME IInv, NEW count \in Nat, PRT_SemCreate(count), NEW s, s = Head(unusedSem)
  PROVE  /\ IInv'
         /\ \/ UNCHANGED vars
            \/ /\ s \in Sems /\ semStat[s] = "UNUSED" /\ unusedSem # << >>
               /\ count <= OS_SEM_COUNT_MAX
               /\ semCount' = [semCount EXCEPT ![s] = count]
               /\ semStat' = [semStat EXCEPT ![s] = "USED"]
               /\ semOwner' = [semOwner EXCEPT ![s] = NoTask]
               /\ unusedSem' = Tail(unusedSem)
               /\ UNCHANGED schedVars /\ UNCHANGED tskVars
<1>1. CASE \E code \in ErrorCodes : Fail(code)
  BY <1>1, StutterInv DEF Fail
<1>2. CASE /\ unusedSem # << >> /\ count <= OS_SEM_COUNT_MAX
           /\ semCount' = [semCount EXCEPT ![s] = count]
           /\ semStat' = [semStat EXCEPT ![s] = "USED"]
           /\ semOwner' = [semOwner EXCEPT ![s] = NoTask]
           /\ list' = [list EXCEPT ![s] = << >>]
           /\ unusedSem' = Tail(unusedSem)
           /\ UNCHANGED <<status, priority, highest, running, uniFlag>>
           /\ UNCHANGED tskVars
  <2> DEFINE U == {x \in Sems : semStat[x] = "UNUSED"}
  <2>1. unusedSem \in Seq(Sems) /\ Enumerates(unusedSem, U)
    BY DEF IInv, RestType, UnusedSems, Enumerates
  <2>2. s \in Sems /\ semStat[s] = "UNUSED" /\ list[s] = << >>
    <3>1. s \in Sems /\ s \in U
      BY <1>2, <2>1, HeadOfList DEF Enumerates
    <3> QED
      BY <3>1 DEF IInv, UnusedSems
  <2>3. Tail(unusedSem) \in Seq(Sems) /\ Enumerates(Tail(unusedSem), U \ {s})
    <3>1. ListDelete(unusedSem, s) = Tail(unusedSem)
      BY <1>2, <2>1, DeleteHead DEF Enumerates
    <3> HIDE DEF U
    <3>2. /\ ListDelete(unusedSem, s) \in Seq(Sems)
          /\ Enumerates(ListDelete(unusedSem, s), U \ {s})
      BY <2>1, DeleteList
    <3> QED
      BY <3>1, <3>2
  <2>4. list' = list
    <3>1. list = [h \in Heads |-> list[h]] /\ list' = [h \in Heads |-> list'[h]]
      BY <1>2, Invariants DEF ListType
    <3>2. \A h \in Heads : list'[h] = list[h]
      BY <1>2, <2>2, Invariants DEF ListType
    <3> QED
      BY <3>1, <3>2
  <2>5. SchedOK(Sched, taskSem)'
    BY <1>2, <2>4 DEF IInv, SchedOK, LinkedOK, Sched, tskVars
  <2>6. RestType'
    BY <1>2, <2>2, <2>3 DEF IInv, RestType, tskVars
  <2>7. BootOrRun' /\ Stacks' /\ NeverDemoted'
    BY <1>2, <2>4 DEF IInv, BootOrRun, Active, Stacks, InUse, NeverDemoted, tskVars
  <2>8. NoIdleToken'
    BY <1>2, <2>2, <2>4 DEF IInv, RestType, NoIdleToken
  <2>9. UnusedSems'
    <3>1. {x \in Sems : semStat'[x] = "UNUSED"} = U \ {s}
      BY <1>2, <2>2 DEF IInv, RestType
    <3> HIDE DEF U
    <3>2. IsInjective(unusedSem') /\ Range(unusedSem') = U \ {s}
      BY <1>2, <2>3 DEF Enumerates
    <3>3. \A x \in Sems : semStat'[x] = "UNUSED" => list'[x] = << >>
      BY <1>2, <2>2, <2>4 DEF IInv, RestType, UnusedSems
    <3> QED
      BY <3>1, <3>2, <3>3 DEF UnusedSems
  <2>10. IInv'
    BY <2>5, <2>6, <2>7, <2>8, <2>9 DEF IInv
  <2> QED
    BY <1>2, <2>2, <2>4, <2>10 DEF schedVars
<1> QED
  BY <1>1, <1>2 DEF PRT_SemCreate, ErrorCodes

LEMMA NextInv ==
  ASSUME "TICKS" \notin Timeouts, IInv, [Next]_vars
  PROVE  IInv'
<1>1. ASSUME NEW code, Fail(code) PROVE IInv'
  BY <1>1, StutterInv DEF Fail
<1>2. CASE UNCHANGED vars
  BY <1>2, StutterInv
<1>3. ASSUME NEW p \in Prios, PRT_TaskCreate(p) PROVE IInv'
  BY <1>3, PriosAssumption, TaskCreatedInv, TaskNotCreatedInv DEF PRT_TaskCreate
<1>4. ASSUME NEW t \in Tasks, PRT_TaskResume(t) PROVE IInv'
  <2>1. CASE /\ "SUSPEND" \in status[t]
             /\ SetSched(OsMoveTaskToReady([Sched EXCEPT !.status[t] = @ \ {"SUSPEND"}], t))
             /\ UNCHANGED <<semVars, tskVars>>
    <3>1. UNCHANGED semVars /\ UNCHANGED tskVars
      BY <2>1
    <3> QED
      BY <2>1, <3>1, ResumeInv
  <2> QED
    BY <1>1, <1>4, <2>1 DEF PRT_TaskResume
<1>5. CASE OsTaskExit
  BY <1>5, OsTaskExitInv
<1>6. CASE OsActivate
  BY <1>6, OsActivateInv
<1>7. ASSUME NEW c \in InitCounts, PRT_SemCreate(c) PROVE IInv'
  BY <1>7, CountsAssumption, SemCreateInv
<1>8. ASSUME NEW s \in Sems, NEW timeout \in Timeouts, PRT_SemPend(s, timeout)
      PROVE  IInv'
  <2>1. CASE semStat[s] = "USED" /\ SemPendTake(s)
    BY <1>8, <2>1, SemPendTakeInv DEF PRT_SemPend
  <2>2. CASE semStat[s] = "USED" /\ SemPendBlock(s, timeout)
    <3>1. timeout = "FOREVER"
      BY <2>2, TimeoutsAssumption DEF SemPendBlock
    <3> QED
      BY <1>8, <2>2, <3>1, SemPendBlockInv DEF PRT_SemPend
  <2> QED
    BY <1>1, <1>8, <2>1, <2>2 DEF PRT_SemPend
<1>9. ASSUME NEW s \in Sems, PRT_SemPost(s) PROVE IInv'
  BY <1>1, <1>9, SemPostWakeInv, SemPostKeepInv DEF PRT_SemPost
<1> QED
  BY <1>2, <1>3, <1>4, <1>5, <1>6, <1>7, <1>8, <1>9 DEF Next

LEMMA InvariantHolds ==
  ASSUME "TICKS" \notin Timeouts
  PROVE  Spec => []IInv
<1>1. Init => IInv
  BY InitInv
<1>2. IInv /\ [Next]_vars => IInv'
  BY NextInv
<1> QED
  BY <1>1, <1>2, PTL DEF Spec

-----------------------------------------------------------------------------
(***************************************************************************)
(* What the steps do to exited tasks and to the abstract semaphore.         *)
(***************************************************************************)

\* Whoever changes its state was free, suspended, ready or waiting before.
LEMMA ExitedGoes ==
  ASSUME NEW t \in Tasks, NEW from, NEW to, Goes(t, from, to), from # ExitedTask,
         NEW u \in Tasks, State(u) = ExitedTask
  PROVE  Exited(u)'
<1>1. u # t
  BY DEF Goes
<1>2. State(u)' = ExitedTask
  BY <1>1 DEF Goes
<1> QED
  BY <1>2 DEF State, ExitedTask, Exited

LEMMA ExitedStep ==
  ASSUME "TICKS" \notin Timeouts, IInv, [Next]_vars, NEW u \in Tasks, Exited(u)
  PROVE  Exited(u)'
<1>1. State(u) = ExitedTask
  BY States
<1>2. /\ FreeTask # ExitedTask /\ SuspendedTask # ExitedTask
      /\ ReadyTask # ExitedTask /\ WaitingTask # ExitedTask
  BY DEF FreeTask, SuspendedTask, ReadyTask, WaitingTask, ExitedTask
<1>3. ASSUME status' = status PROVE Exited(u)'
  BY <1>3 DEF Exited
<1>4. ASSUME NEW code, Fail(code) PROVE Exited(u)'
  BY <1>3, <1>4 DEF Fail, vars, schedVars
<1>5. ASSUME NEW p \in Prios, PRT_TaskCreate(p) PROVE Exited(u)'
  <2>1. CASE TaskCreated(p)
    BY <1>1, <1>2, <2>1, PriosAssumption, TaskCreatedInv, ExitedGoes
  <2>2. CASE TaskNotCreated
    BY <1>3, <2>2, TaskNotCreatedInv
  <2> QED
    BY <1>5, <2>1, <2>2 DEF PRT_TaskCreate
<1>6. ASSUME NEW t \in Tasks, PRT_TaskResume(t) PROVE Exited(u)'
  <2>1. CASE /\ "SUSPEND" \in status[t]
             /\ SetSched(OsMoveTaskToReady([Sched EXCEPT !.status[t] = @ \ {"SUSPEND"}], t))
             /\ UNCHANGED <<semVars, tskVars>>
    <3>1. UNCHANGED semVars /\ UNCHANGED tskVars
      BY <2>1
    <3> QED
      BY <1>1, <1>2, <2>1, <3>1, ResumeInv, ExitedGoes
  <2> QED
    BY <1>4, <1>6, <2>1 DEF PRT_TaskResume
<1>7. CASE OsTaskExit
  BY <1>1, <1>2, <1>7, OsTaskExitInv, ExitedGoes
<1>8. CASE OsActivate
  BY <1>1, <1>2, <1>8, OsActivateInv, ExitedGoes
<1>9. ASSUME NEW c \in InitCounts, PRT_SemCreate(c) PROVE Exited(u)'
  BY <1>3, <1>9, CountsAssumption, SemCreateInv DEF vars, schedVars
<1>10. ASSUME NEW s \in Sems, NEW timeout \in Timeouts, PRT_SemPend(s, timeout)
       PROVE  Exited(u)'
  <2>1. CASE SemPendTake(s)
    BY <1>3, <2>1 DEF SemPendTake, schedVars
  <2>2. CASE semStat[s] = "USED" /\ SemPendBlock(s, timeout)
    <3>1. timeout = "FOREVER"
      BY <2>2, TimeoutsAssumption DEF SemPendBlock
    <3>2. TaskRuns
      BY <1>10 DEF PRT_SemPend
    <3> QED
      BY <1>1, <1>2, <2>2, <3>1, <3>2, SemPendBlockInv, ExitedGoes
  <2> QED
    BY <1>4, <1>10, <2>1, <2>2 DEF PRT_SemPend
<1>11. ASSUME NEW s \in Sems, PRT_SemPost(s) PROVE Exited(u)'
  <2>1. CASE semStat[s] = "USED" /\ SemPostWake(s)
    BY <1>1, <1>2, <2>1, SemPostWakeInv, ExitedGoes
  <2>2. CASE semStat[s] = "USED" /\ SemPostKeep(s)
    BY <1>3, <2>2, SemPostKeepInv
  <2> QED
    BY <1>4, <1>11, <2>1, <2>2 DEF PRT_SemPost
<1> QED
  BY <1>3, <1>5, <1>6, <1>7, <1>8, <1>9, <1>10, <1>11 DEF Next, vars, schedVars

\* A call that moves no waiter and no token is a stuttering step.
LEMMA FifoStutter ==
  ASSUME UNCHANGED semVars, SameQueues(Sems)
  PROVE  UNCHANGED FifoSem!semvars
BY DEF semVars, SameQueues, FifoSem!semvars

LEMMA FifoCreate ==
  ASSUME IInv, NEW count \in Nat, PRT_SemCreate(count)
  PROVE  FifoSem!Next \/ UNCHANGED FifoSem!semvars
<1> DEFINE s == Head(unusedSem)
<1>1. CASE UNCHANGED vars
  BY <1>1, FifoStutter DEF vars, schedVars, SameQueues
<1>2. CASE /\ s \in Sems /\ semStat[s] = "UNUSED" /\ count <= OS_SEM_COUNT_MAX
           /\ semCount' = [semCount EXCEPT ![s] = count]
           /\ semStat' = [semStat EXCEPT ![s] = "USED"]
           /\ UNCHANGED schedVars
  <2> HIDE DEF s
  <2>1. \A x \in Sems : semStat'[x] = IF x = s THEN "USED" ELSE semStat[x]
    BY <1>2 DEF IInv, RestType
  <2>2. {x \in Sems : semStat'[x] = "USED"} = {x \in Sems : semStat[x] = "USED"} \cup {s}
    BY <1>2, <2>1
  <2>3. FifoSem!Create(s, count)
    BY <1>2, <2>2 DEF FifoSem!Create, schedVars
  <2>4. count \in 0 .. OS_SEM_COUNT_MAX
    BY <1>2, CountsAssumption
  <2> QED
    BY <1>2, <2>3, <2>4 DEF FifoSem!Next
<1> QED
  BY <1>1, <1>2, SemCreateInv

LEMMA FifoTake ==
  ASSUME NEW s \in Sems, semStat[s] = "USED", SemPendTake(s)
  PROVE  FifoSem!Next
<1>1. FifoSem!Take(s)
  BY DEF SemPendTake, schedVars, FifoSem!Take
<1> QED
  BY <1>1 DEF FifoSem!Next

LEMMA FifoWait ==
  ASSUME IInv, TaskRuns, NEW s \in Sems, semStat[s] = "USED",
         SemPendBlock(s, "FOREVER"), NEW t, t = running
  PROVE  FifoSem!Next
<1> DEFINE waits == [x \in Sems |-> list[x]]
<1>1. /\ t \in Tasks /\ State(t) = ReadyTask
      /\ list'[s] = Append(list[s], t) /\ \A x \in Sems \ {s} : list'[x] = list[x]
  BY SemPendBlockInv DEF Goes, SameQueues
<1>2. semCount[s] = 0 /\ UNCHANGED semVars
  BY DEF SemPendBlock
<1>3. "PEND" \notin status[t]
  BY <1>1 DEF State, ReadyTask
<1>4. \A x \in Sems : t \notin Range(list[x])
  BY <1>1, <1>3, OnWaitQueue, Invariants
<1>5. [x \in Sems |-> list'[x]] = [waits EXCEPT ![s] = Append(@, t)]
  BY <1>1
<1>6. FifoSem!Wait(s, t)
  BY <1>2, <1>4, <1>5 DEF FifoSem!Wait, FifoSem!Range, Range, semVars
<1> QED
  BY <1>1, <1>6 DEF FifoSem!Next

LEMMA FifoHandOver ==
  ASSUME IInv, NEW s \in Sems, semStat[s] = "USED", SemPostWake(s)
  PROVE  FifoSem!Next
<1> DEFINE waits == [x \in Sems |-> list[x]]
<1>1. list'[s] = Tail(list[s]) /\ \A x \in Sems \ {s} : list'[x] = list[x]
  BY SemPostWakeInv DEF SameQueues
<1>2. list[s] # << >> /\ UNCHANGED <<semStat, semCount>>
  BY DEF SemPostWake, ListEmpty
<1>3. [x \in Sems |-> list'[x]] = [waits EXCEPT ![s] = Tail(@)]
  BY <1>1
<1>4. FifoSem!HandOver(s)
  BY <1>2, <1>3 DEF FifoSem!HandOver
<1> QED
  BY <1>4 DEF FifoSem!Next

LEMMA FifoKeep ==
  ASSUME IInv, NEW s \in Sems, semStat[s] = "USED", semCount[s] < OS_SEM_COUNT_MAX,
         SemPostKeep(s)
  PROVE  FifoSem!Next
<1>1. \A x \in Sems : list'[x] = list[x]
  BY SemPostKeepInv DEF SameQueues
<1>2. /\ list[s] = << >> /\ UNCHANGED semStat
      /\ semCount' = [semCount EXCEPT ![s] = @ + 1]
  BY DEF SemPostKeep, ListEmpty
<1>3. FifoSem!Keep(s)
  BY <1>1, <1>2 DEF FifoSem!Keep
<1> QED
  BY <1>3 DEF FifoSem!Next

LEMMA FifoStep ==
  ASSUME "TICKS" \notin Timeouts, IInv, [Next]_vars
  PROVE  FifoSem!Next \/ UNCHANGED FifoSem!semvars
<1>1. CASE UNCHANGED vars
  BY <1>1, FifoStutter DEF vars, schedVars, SameQueues
<1>2. ASSUME NEW code, Fail(code) PROVE UNCHANGED FifoSem!semvars
  BY <1>1, <1>2, FifoStutter DEF Fail, vars, schedVars, SameQueues
<1>3. ASSUME NEW p \in Prios, PRT_TaskCreate(p) PROVE UNCHANGED FifoSem!semvars
  <2>1. CASE TaskCreated(p)
    <3>1. UNCHANGED semVars
      BY <2>1 DEF TaskCreated
    <3> QED
      BY <2>1, <3>1, PriosAssumption, TaskCreatedInv, FifoStutter
  <2>2. CASE TaskNotCreated
    BY <2>2, TaskNotCreatedInv, FifoStutter
  <2> QED
    BY <1>3, <2>1, <2>2 DEF PRT_TaskCreate
<1>4. ASSUME NEW t \in Tasks, PRT_TaskResume(t) PROVE UNCHANGED FifoSem!semvars
  <2>1. CASE /\ "SUSPEND" \in status[t]
             /\ SetSched(OsMoveTaskToReady([Sched EXCEPT !.status[t] = @ \ {"SUSPEND"}], t))
             /\ UNCHANGED <<semVars, tskVars>>
    <3>1. UNCHANGED semVars /\ UNCHANGED tskVars
      BY <2>1
    <3> QED
      BY <2>1, <3>1, ResumeInv, FifoStutter
  <2> QED
    BY <1>2, <1>4, <2>1 DEF PRT_TaskResume
<1>5. CASE OsTaskExit
  <2>1. UNCHANGED semVars
    BY <1>5 DEF OsTaskExit
  <2> QED
    BY <1>5, <2>1, OsTaskExitInv, FifoStutter
<1>6. CASE OsActivate
  <2>1. UNCHANGED semVars
    BY <1>6 DEF OsActivate
  <2> QED
    BY <1>6, <2>1, OsActivateInv, FifoStutter
<1>7. ASSUME NEW c \in InitCounts, PRT_SemCreate(c)
      PROVE  FifoSem!Next \/ UNCHANGED FifoSem!semvars
  BY <1>7, CountsAssumption, FifoCreate
<1>8. ASSUME NEW s \in Sems, NEW timeout \in Timeouts, PRT_SemPend(s, timeout)
      PROVE  FifoSem!Next \/ UNCHANGED FifoSem!semvars
  <2>1. CASE semStat[s] = "USED" /\ SemPendTake(s)
    BY <2>1, FifoTake
  <2>2. CASE semStat[s] = "USED" /\ SemPendBlock(s, timeout)
    <3>1. timeout = "FOREVER" /\ TaskRuns
      BY <1>8, <2>2, TimeoutsAssumption DEF SemPendBlock, PRT_SemPend
    <3> QED
      BY <2>2, <3>1, FifoWait
  <2> QED
    BY <1>2, <1>8, <2>1, <2>2 DEF PRT_SemPend
<1>9. ASSUME NEW s \in Sems, PRT_SemPost(s)
      PROVE  FifoSem!Next \/ UNCHANGED FifoSem!semvars
  BY <1>2, <1>9, FifoHandOver, FifoKeep DEF PRT_SemPost
<1> QED
  BY <1>1, <1>3, <1>4, <1>5, <1>6, <1>7, <1>8, <1>9 DEF Next

LEMMA FifoInit == ASSUME Init PROVE FifoSem!Init
<1>1. \A s \in Sems : semStat[s] = "UNUSED"
  BY DEF Init
<1>2. {s \in Sems : semStat[s] = "USED"} = {}
  BY <1>1
<1>3. \A s \in Sems : list[s] = << >>
  BY Names DEF Init
<1>4. [s \in Sems |-> list[s]] = [s \in Sems |-> << >>]
  BY <1>3
<1>5. semCount = [s \in Sems |-> 0]
  BY DEF Init
<1> QED
  BY <1>2, <1>4, <1>5 DEF FifoSem!Init

-----------------------------------------------------------------------------
(***************************************************************************)
(* The theorems, for any number of tasks, semaphores and stacks and any      *)
(* priorities and counts, as long as nobody waits for a number of ticks.     *)
(***************************************************************************)

\* Every variable keeps its type: no count goes below zero, no list ever holds
\* anything but tasks, and g_highestTask is a task or NULL.
THEOREM TypeCorrect ==
  ASSUME "TICKS" \notin Timeouts
  PROVE  Spec => []TypeOK
<1>1. IInv => TypeOK
  BY Consequences
<1> QED
  BY <1>1, InvariantHolds, PTL

\* However calls interleave, a TCB is on exactly the list its status says: the
\* one pendList of a TCB is never linked twice (prt_task.c, prt_sem.c).
THEOREM ListsStayWellFormed ==
  ASSUME "TICKS" \notin Timeouts
  PROVE  Spec => []ListsWellFormed
<1>1. IInv => ListsWellFormed
  BY Consequences
<1> QED
  BY <1>1, InvariantHolds, PTL

\* PRT_SemPost never counts a token while somebody waits for it, and PRT_SemPend
\* never waits while there is one.
THEOREM NoLostWakeup ==
  ASSUME "TICKS" \notin Timeouts
  PROVE  Spec => []NoIdleToken
<1>1. IInv => NoIdleToken
  BY DEF IInv
<1> QED
  BY <1>1, InvariantHolds, PTL

\* After OsActivate the running task and the idle task are always on the run queue,
\* so OsMainSchedule always has a task to switch to.
THEOREM SomebodyAlwaysRuns ==
  ASSUME "TICKS" \notin Timeouts
  PROVE  Spec => []RunningIsReady
<1>1. IInv => RunningIsReady
  BY Consequences
<1> QED
  BY <1>1, InvariantHolds, PTL

\* g_highestTask is what OsTskHighestSet would compute, after every call.
THEOREM HighestNeverStale ==
  ASSUME "TICKS" \notin Timeouts
  PROVE  Spec => []HighestIsCurrent
<1>1. IInv => HighestIsCurrent
  BY Consequences
<1> QED
  BY <1>1, InvariantHolds, PTL

\* A creation that fails half-way leaves no TCB, stack or semaphore behind
\* (OsTaskCreateOnly, OsSemCreate).
THEOREM PoolsAreConserved ==
  ASSUME "TICKS" \notin Timeouts
  PROVE  Spec => []PoolsConserved
<1>1. IInv => PoolsConserved
  BY Consequences
<1> QED
  BY <1>1, InvariantHolds, PTL

\* Priority inheritance and restoration never leave a task below the priority it
\* was created with.
THEOREM InheritanceNeverDemotes ==
  ASSUME "TICKS" \notin Timeouts
  PROVE  Spec => []NeverDemoted
<1>1. IInv => NeverDemoted
  BY DEF IInv
<1> QED
  BY <1>1, InvariantHolds, PTL
\* A TCB whose entry function returned is never readied, resumed or taken again,
\* although semaphores still name it as their holder (OsTaskExit keeps the TCB).
THEOREM ExitedTasksStayExited ==
  ASSUME "TICKS" \notin Timeouts
  PROVE  Spec => ExitedStaysExited
<1>1. ASSUME IInv, [Next]_vars
      PROVE  [\A t \in Tasks : Exited(t) => Exited(t)']_vars
  BY <1>1, ExitedStep
<1> QED
  BY <1>1, InvariantHolds, PTL DEF Spec, ExitedStaysExited

\* PRT_SemCreate, PRT_SemPend and PRT_SemPost, with all they do to tasks, priorities
\* and run queues, are a first-in first-out counting semaphore.
THEOREM RefinesFifoSemaphore ==
  ASSUME "TICKS" \notin Timeouts
  PROVE  Spec => ImplementsFifoSemaphore
<1>1. Init => FifoSem!Init
  BY FifoInit
<1>2. IInv /\ [Next]_vars => [FifoSem!Next]_FifoSem!semvars
  BY FifoStep
<1> QED
  BY <1>1, <1>2, InvariantHolds, PTL DEF Spec, ImplementsFifoSemaphore, FifoSem!Spec
=============================================================================
