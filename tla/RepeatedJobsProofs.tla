------------------------- MODULE RepeatedJobsProofs -------------------------
(***************************************************************************)
(* The timer list of RepeatedJobs is well formed at every instant, for     *)
(* every set of jobs and intervals, every resolution and either build.     *)
(***************************************************************************)
EXTENDS RepeatedJobs, WellFoundedInduction, TLAPS

-----------------------------------------------------------------------------
(* Sequences *)

\* A set of indices has a least one.
LEMMA LeastIndex ==
    ASSUME NEW S, S \subseteq Nat, S # {}
    PROVE  Min(S) \in S /\ \A i \in S : Min(S) <= i
<1>1. PICK x \in S : \A y \in S : <<y, x>> \notin OpToRel(<, Nat)
  BY NatLessThanWellFounded, WFMin, Zenon
<1>2. ASSUME NEW y \in S
      PROVE  x <= y
  <2>1. ~(y < x)
    BY <1>1, Zenon DEF OpToRel
  <2>. QED
    BY <2>1
<1>. QED
  BY <1>2, Zenon DEF Min

\* InsertAt shifts the elements from position p on.
LEMMA Inserted ==
    ASSUME NEW S, NEW s \in Seq(S), NEW p \in 1 .. Len(s) + 1, NEW e \in S
    PROVE  /\ InsertAt(s, p, e) \in Seq(S)
           /\ Len(InsertAt(s, p, e)) = Len(s) + 1
           /\ InsertAt(s, p, e)[p] = e
           /\ \A i \in 1 .. p - 1 : InsertAt(s, p, e)[i] = s[i]
           /\ \A i \in p .. Len(s) : InsertAt(s, p, e)[i + 1] = s[i]
           /\ \A i \in 1 .. Len(s) + 1 : i < p \/ i = p \/ (i - 1 \in p .. Len(s) /\ i = (i - 1) + 1)
<1>. DEFINE a == SubSeq(s, 1, p - 1)
            b == SubSeq(s, p, Len(s))
<1>0. Len(s) \in Nat
  OBVIOUS
<1>1. a \in Seq(S) /\ Len(a) = p - 1 /\ \A i \in 1 .. p - 1 : a[i] = s[i]
  OBVIOUS
<1>2. b \in Seq(S) /\ Len(b) = Len(s) + 1 - p /\ \A i \in 1 .. Len(b) : b[i] = s[i + p - 1]
  OBVIOUS
<1>3. InsertAt(s, p, e) = a \o <<e>> \o b
  BY DEF InsertAt
<1>. HIDE DEF a, b
<1>. DEFINE c == a \o <<e>>
<1>4. c \in Seq(S) /\ Len(c) = p /\ c[p] = e /\ \A i \in 1 .. p - 1 : c[i] = a[i]
  BY <1>1
<1>. HIDE DEF c
<1>5. /\ c \o b \in Seq(S)
      /\ Len(c \o b) = Len(s) + 1
      /\ \A i \in 1 .. p : (c \o b)[i] = c[i]
      /\ \A i \in p .. Len(s) : (c \o b)[i + 1] = b[i + 1 - p]
  BY <1>0, <1>2, <1>4
<1>6. InsertAt(s, p, e) = c \o b
  BY <1>3 DEF c
<1>7. \A i \in p .. Len(s) : b[i + 1 - p] = s[i]
  BY <1>0, <1>2
<1>. QED
  BY <1>0, <1>1, <1>4, <1>5, <1>6, <1>7

\* RemoveAt moves the elements behind position p forward.
LEMMA RemovedAt ==
    ASSUME NEW S, NEW s \in Seq(S), NEW p \in 1 .. Len(s)
    PROVE  /\ RemoveAt(s, p) \in Seq(S)
           /\ Len(RemoveAt(s, p)) = Len(s) - 1
           /\ \A i \in 1 .. p - 1 : RemoveAt(s, p)[i] = s[i]
           /\ \A i \in p .. Len(s) - 1 : RemoveAt(s, p)[i] = s[i + 1]
<1>. DEFINE a == SubSeq(s, 1, p - 1)
            b == SubSeq(s, p + 1, Len(s))
<1>0. Len(s) \in Nat
  OBVIOUS
<1>1. a \in Seq(S) /\ Len(a) = p - 1 /\ \A i \in 1 .. p - 1 : a[i] = s[i]
  OBVIOUS
<1>2. b \in Seq(S) /\ Len(b) = Len(s) - p /\ \A i \in 1 .. Len(b) : b[i] = s[i + p]
  OBVIOUS
<1>3. RemoveAt(s, p) = a \o b
  BY DEF RemoveAt
<1>. HIDE DEF a, b
<1>4. a \o b \in Seq(S) /\ Len(a \o b) = Len(a) + Len(b)
  <2>1. a \in Seq(S) /\ b \in Seq(S)
    BY <1>1, <1>2
  <2>. QED
    BY <2>1
<1>5. \A i \in 1 .. Len(a) + Len(b) : (a \o b)[i] = IF i <= Len(a) THEN a[i] ELSE b[i - Len(a)]
  BY <1>1, <1>2
<1>6. Len(RemoveAt(s, p)) = Len(s) - 1
  BY <1>0, <1>1, <1>2, <1>3, <1>4
<1>7. ASSUME NEW i \in 1 .. p - 1
      PROVE  RemoveAt(s, p)[i] = s[i]
  BY <1>0, <1>1, <1>2, <1>3, <1>5
<1>8. ASSUME NEW i \in p .. Len(s) - 1
      PROVE  RemoveAt(s, p)[i] = s[i + 1]
  <2>1. RemoveAt(s, p)[i] = b[i - (p - 1)]
    BY <1>0, <1>1, <1>2, <1>3, <1>5
  <2>2. i - (p - 1) \in 1 .. Len(b) /\ (i - (p - 1)) + p = i + 1
    BY <1>0, <1>2
  <2>. QED
    BY <1>2, <2>1, <2>2
<1>. QED
  BY <1>3, <1>4, <1>6, <1>7, <1>8, Zenon

-----------------------------------------------------------------------------
(* Lists that are well formed *)

\* Earlier entries are due earlier.  Stated for any two entries and not only for neighbours, as
\* the searches compare an entry with all before it.
Sorted(l) == \A i, k \in 1 .. Len(l) : i < k => l[i].nextTime <= l[k].nextTime
IntervalsOnce(l) == \A i, k \in 1 .. Len(l) : l[i].interval = l[k].interval => i = k
InReach(l) == \A i \in 1 .. Len(l) : l[i].nextTime <= l[i].interval
JobsOnce(l) == \A i \in 1 .. Len(l) : IsInjective(l[i].jobs)
JobsApart(l) ==
    \A i, k \in 1 .. Len(l) : \A id \in Range(l[i].jobs) : id \in Range(l[k].jobs) => i = k

ListOK(l) ==
    /\ l \in Seq(Entry)
    /\ Sorted(l)
    /\ IntervalsOnce(l)
    /\ InReach(l)
    /\ JobsOnce(l)
    /\ JobsApart(l)

\* The job is in the list.
InList(l, id) == \E i \in 1 .. Len(l) : id \in Range(l[i].jobs)

\* A part of a list in the same order is well formed.
LEMMA PartOK ==
    ASSUME NEW l, ListOK(l), NEW l2 \in Seq(Entry),
           NEW f \in [1 .. Len(l2) -> 1 .. Len(l)],
           \A i, k \in 1 .. Len(l2) : i < k => f[i] < f[k],
           \A i \in 1 .. Len(l2) : l2[i] = l[f[i]]
    PROVE  ListOK(l2) /\ \A id : InList(l2, id) => InList(l, id)
<1>0. Len(l) \in Nat /\ Len(l2) \in Nat
  BY DEF ListOK
<1>1. \A i, k \in 1 .. Len(l2) : f[i] = f[k] => i = k
  BY <1>0
<1>2. Sorted(l2)
  BY Zenon DEF ListOK, Sorted
<1>3. IntervalsOnce(l2)
  <2>. SUFFICES ASSUME NEW i \in 1 .. Len(l2), NEW k \in 1 .. Len(l2),
                       l2[i].interval = l2[k].interval
                PROVE  i = k
    BY DEF IntervalsOnce
  <2>1. f[i] \in 1 .. Len(l) /\ f[k] \in 1 .. Len(l) /\ l[f[i]].interval = l[f[k]].interval
    OBVIOUS
  <2>. QED
    BY <1>1, <2>1 DEF ListOK, IntervalsOnce
<1>4. InReach(l2) /\ JobsOnce(l2)
  BY Zenon DEF ListOK, InReach, JobsOnce
<1>5. JobsApart(l2)
  BY <1>1, ZenonT(30) DEF ListOK, JobsApart
<1>6. ASSUME NEW id, InList(l2, id)
      PROVE  InList(l, id)
  BY <1>6, Zenon DEF InList
<1>. QED
  BY <1>2, <1>3, <1>4, <1>5, <1>6 DEF ListOK

\* So is a list without its entry at p,
LEMMA WithoutOK ==
    ASSUME NEW l, ListOK(l), NEW p \in 1 .. Len(l)
    PROVE  ListOK(RemoveAt(l, p)) /\ \A id : InList(RemoveAt(l, p), id) => InList(l, id)
<1>. DEFINE l2 == RemoveAt(l, p)
            f == [i \in 1 .. Len(l2) |-> IF i < p THEN i ELSE i + 1]
<1>0. l \in Seq(Entry) /\ Len(l) \in Nat
  BY DEF ListOK
<1>1. /\ l2 \in Seq(Entry)
      /\ Len(l2) = Len(l) - 1
      /\ \A i \in 1 .. p - 1 : l2[i] = l[i]
      /\ \A i \in p .. Len(l) - 1 : l2[i] = l[i + 1]
  BY <1>0, RemovedAt, Zenon
<1>. HIDE DEF l2
<1>2. f \in [1 .. Len(l2) -> 1 .. Len(l)]
  BY <1>0, <1>1
<1>3. \A i, k \in 1 .. Len(l2) : i < k => f[i] < f[k]
  BY <1>0, <1>1
<1>4. ASSUME NEW i \in 1 .. Len(l2)
      PROVE  l2[i] = l[f[i]]
  <2>1. CASE i < p
    BY <1>0, <1>1, <2>1
  <2>2. CASE ~(i < p)
    BY <1>0, <1>1, <2>2
  <2>. QED
    BY <2>1, <2>2
<1>. HIDE DEF f
<1>5. ListOK(l2) /\ \A id : InList(l2, id) => InList(l, id)
  BY <1>1, <1>2, <1>3, <1>4, PartOK, Zenon
<1>. QED
  BY <1>5 DEF l2

\* and a list without its head.
LEMMA TailOK ==
    ASSUME NEW l, ListOK(l), l # <<>>
    PROVE  /\ ListOK(Tail(l))
           /\ Len(Tail(l)) = Len(l) - 1
           /\ \A i \in 1 .. Len(Tail(l)) : Tail(l)[i] = l[i + 1]
           /\ \A id : InList(Tail(l), id) => InList(l, id)
<1>. DEFINE l2 == Tail(l)
            f == [i \in 1 .. Len(l2) |-> i + 1]
<1>0. l \in Seq(Entry) /\ Len(l) \in Nat
  BY DEF ListOK
<1>1. /\ l2 \in Seq(Entry)
      /\ Len(l2) = Len(l) - 1
      /\ \A i \in 1 .. Len(l2) : l2[i] = l[i + 1]
  BY <1>0
<1>. HIDE DEF l2
<1>2. f \in [1 .. Len(l2) -> 1 .. Len(l)]
  BY <1>0, <1>1
<1>3. \A i, k \in 1 .. Len(l2) : i < k => f[i] < f[k]
  BY <1>0, <1>1
<1>4. \A i \in 1 .. Len(l2) : l2[i] = l[f[i]]
  BY <1>1
<1>. HIDE DEF f
<1>5. ListOK(l2) /\ \A id : InList(l2, id) => InList(l, id)
  BY <1>1, <1>2, <1>3, <1>4, PartOK, Zenon
<1>. QED
  BY <1>1, <1>5 DEF l2

\* A new entry is inserted behind those that are due earlier or with it, and before the others.
LEMMA InsertOK ==
    ASSUME NEW l, ListOK(l), NEW p \in 1 .. Len(l) + 1, NEW e \in Entry,
           \A i \in 1 .. Len(l) : i < p => l[i].nextTime <= e.nextTime,
           \A i \in 1 .. Len(l) : p <= i => e.nextTime <= l[i].nextTime,
           \A i \in 1 .. Len(l) : l[i].interval # e.interval,
           e.nextTime <= e.interval,
           IsInjective(e.jobs),
           \A id \in Range(e.jobs) : ~InList(l, id)
    PROVE  /\ ListOK(InsertAt(l, p, e))
           /\ \A id : InList(InsertAt(l, p, e), id) => InList(l, id) \/ id \in Range(e.jobs)
<1>. DEFINE l2 == InsertAt(l, p, e)
            Old(i) == IF i < p THEN i ELSE i - 1
<1>0. l \in Seq(Entry) /\ Len(l) \in Nat
  BY DEF ListOK
<1>1. /\ l2 \in Seq(Entry)
      /\ Len(l2) = Len(l) + 1
      /\ l2[p] = e
      /\ \A i \in 1 .. p - 1 : l2[i] = l[i]
      /\ \A i \in p .. Len(l) : l2[i + 1] = l[i]
  BY <1>0, Inserted
<1>. HIDE DEF l2
<1>2. ASSUME NEW i \in 1 .. Len(l2), i # p
      PROVE  Old(i) \in 1 .. Len(l) /\ l2[i] = l[Old(i)]
  <2>1. CASE i < p
    BY <1>0, <1>1, <2>1
  <2>2. CASE ~(i < p)
    <3>1. i - 1 \in p .. Len(l) /\ (i - 1) + 1 = i
      BY <1>0, <1>1, <1>2, <2>2
    <3>. QED
      BY <1>0, <1>1, <2>2, <3>1
  <2>. QED
    BY <2>1, <2>2
<1>3. ASSUME NEW i \in 1 .. Len(l2), NEW k \in 1 .. Len(l2), i # p, k # p
      PROVE  (Old(i) = Old(k) => i = k) /\ (i < k => Old(i) < Old(k))
  BY <1>0, <1>1, <1>3
<1>3a. ASSUME NEW i \in 1 .. Len(l2), i # p
       PROVE  (i < p => Old(i) < p) /\ (p < i => p <= Old(i))
  BY <1>0, <1>1, <1>3a
<1>. HIDE DEF Old
<1>4. Sorted(l2)
  <2>. SUFFICES ASSUME NEW i \in 1 .. Len(l2), NEW k \in 1 .. Len(l2), i < k
                PROVE  l2[i].nextTime <= l2[k].nextTime
    BY DEF Sorted
  <2>1. CASE i = p
    <3>1. k # p /\ p < k
      BY <1>0, <1>1, <2>1
    <3>. QED
      BY <1>1, <1>2, <1>3a, <2>1, <3>1, SMTT(30)
  <2>2. CASE k = p
    <3>1. i # p /\ i < p
      BY <1>0, <1>1, <2>2
    <3>. QED
      BY <1>1, <1>2, <1>3a, <2>2, <3>1
  <2>3. CASE i # p /\ k # p
    <3>1. l[Old(i)].nextTime <= l[Old(k)].nextTime
      BY <1>2, <1>3, <2>3 DEF ListOK, Sorted
    <3>. QED
      BY <1>2, <2>3, <3>1
  <2>. QED
    BY <2>1, <2>2, <2>3
<1>5. IntervalsOnce(l2)
  <2>. SUFFICES ASSUME NEW i \in 1 .. Len(l2), NEW k \in 1 .. Len(l2),
                       l2[i].interval = l2[k].interval
                PROVE  i = k
    BY DEF IntervalsOnce
  <2>1. CASE i = p /\ k # p
    BY <1>1, <1>2, <2>1
  <2>2. CASE k = p /\ i # p
    BY <1>1, <1>2, <2>2
  <2>3. CASE i # p /\ k # p
    <3>1. Old(i) = Old(k)
      BY <1>2, <2>3 DEF ListOK, IntervalsOnce
    <3>. QED
      BY <1>3, <2>3, <3>1
  <2>. QED
    BY <2>1, <2>2, <2>3
<1>6. InReach(l2) /\ JobsOnce(l2)
  BY <1>1, <1>2, Zenon DEF ListOK, InReach, JobsOnce
<1>7. ASSUME NEW id, InList(l2, id)
      PROVE  InList(l, id) \/ id \in Range(e.jobs)
  BY <1>1, <1>2, <1>7, Zenon DEF InList
<1>8. JobsApart(l2)
  <2>. SUFFICES ASSUME NEW i \in 1 .. Len(l2), NEW k \in 1 .. Len(l2),
                       NEW id \in Range(l2[i].jobs), id \in Range(l2[k].jobs)
                PROVE  i = k
    BY Zenon DEF JobsApart
  <2>1. CASE i = p /\ k # p
    BY <1>1, <1>2, <2>1, Zenon DEF InList
  <2>2. CASE k = p /\ i # p
    BY <1>1, <1>2, <2>2, Zenon DEF InList
  <2>3. CASE i # p /\ k # p
    <3>1. Old(i) = Old(k)
      BY <1>2, <2>3, Zenon DEF ListOK, JobsApart
    <3>. QED
      BY <1>3, <2>3, <3>1
  <2>. QED
    BY <2>1, <2>2, <2>3
<1>9. ListOK(l2)
  BY <1>1, <1>4, <1>5, <1>6, <1>8 DEF ListOK
<1>. QED
  BY <1>7, <1>9 DEF l2

\* The jobs of one entry are replaced by some of them and perhaps one that is new to the list.
LEMMA ChangeOK ==
    ASSUME NEW l, ListOK(l), NEW p \in 1 .. Len(l), NEW js \in Seq(Ids), js # <<>>,
           IsInjective(js),
           \A id \in Range(js) : id \in Range(l[p].jobs) \/ ~InList(l, id)
    PROVE  /\ ListOK([l EXCEPT ![p].jobs = js])
           /\ \A id : InList([l EXCEPT ![p].jobs = js], id) => InList(l, id) \/ id \in Range(js)
<1>. DEFINE l2 == [l EXCEPT ![p].jobs = js]
<1>0. l \in Seq(Entry) /\ Len(l) \in Nat /\ DOMAIN l = 1 .. Len(l)
  BY DEF ListOK
<1>1. l[p] \in Entry
  BY <1>0
<1>2. /\ [l[p] EXCEPT !.jobs = js] \in Entry
      /\ [l[p] EXCEPT !.jobs = js].nextTime = l[p].nextTime
      /\ [l[p] EXCEPT !.jobs = js].interval = l[p].interval
      /\ [l[p] EXCEPT !.jobs = js].jobs = js
  BY <1>1, SMTT(30) DEF Entry
<1>3. l2 = [l EXCEPT ![p] = [l[p] EXCEPT !.jobs = js]]
  BY <1>0
<1>4. /\ l2 \in Seq(Entry) /\ Len(l2) = Len(l)
      /\ l2[p] = [l[p] EXCEPT !.jobs = js]
      /\ \A i \in 1 .. Len(l) : i # p => l2[i] = l[i]
  BY <1>0, <1>2, <1>3
<1>. HIDE DEF l2
<1>5. \A i \in 1 .. Len(l) :
         /\ l2[i].nextTime = l[i].nextTime
         /\ l2[i].interval = l[i].interval
         /\ i # p => l2[i].jobs = l[i].jobs
  BY <1>2, <1>4, Zenon
<1>6. l2[p].jobs = js
  BY <1>2, <1>4
<1>7. Sorted(l2) /\ IntervalsOnce(l2) /\ InReach(l2)
  BY <1>4, <1>5, Zenon DEF ListOK, Sorted, IntervalsOnce, InReach
<1>8. JobsOnce(l2)
  BY <1>4, <1>5, <1>6, Zenon DEF ListOK, JobsOnce
<1>9. JobsApart(l2)
  <2>. SUFFICES ASSUME NEW i \in 1 .. Len(l), NEW k \in 1 .. Len(l),
                       NEW id \in Range(l2[i].jobs), id \in Range(l2[k].jobs)
                PROVE  i = k
    BY <1>4, Zenon DEF JobsApart
  <2>1. CASE i = p /\ k # p
    BY <1>5, <1>6, <2>1, Zenon DEF InList, ListOK, JobsApart
  <2>2. CASE k = p /\ i # p
    BY <1>5, <1>6, <2>2, Zenon DEF InList, ListOK, JobsApart
  <2>3. CASE i # p /\ k # p
    BY <1>5, <2>3, Zenon DEF ListOK, JobsApart
  <2>. QED
    BY <2>1, <2>2, <2>3
<1>10. ASSUME NEW id, InList(l2, id)
       PROVE  InList(l, id) \/ id \in Range(js)
  BY <1>4, <1>5, <1>6, <1>10, Zenon DEF InList
<1>11. ListOK(l2)
  BY <1>4, <1>7, <1>8, <1>9 DEF ListOK
<1>. QED
  BY <1>10, <1>11, Zenon DEF l2

-----------------------------------------------------------------------------
(* The operations on the list *)

\* The first entry that is later than a time separates the earlier ones from the later ones.
LEMMA PositionOK ==
    ASSUME NEW l, ListOK(l), NEW time \in Int
    PROVE  /\ Position(l, time) \in 1 .. Len(l) + 1
           /\ \A i \in 1 .. Len(l) : i < Position(l, time) => l[i].nextTime <= time
           /\ \A i \in 1 .. Len(l) : Position(l, time) <= i => time < l[i].nextTime
<1>. DEFINE S == {i \in 1 .. Len(l) : l[i].nextTime > time}
<1>0. l \in Seq(Entry) /\ Len(l) \in Nat
  BY DEF ListOK
<1>1. \A i \in 1 .. Len(l) : l[i].nextTime \in Int
  <2>. SUFFICES ASSUME NEW i \in 1 .. Len(l)
                PROVE  l[i].nextTime \in Int
    OBVIOUS
  <2>1. l[i] \in Entry
    BY <1>0
  <2>. QED
    BY <2>1 DEF Entry
<1>2. Position(l, time) = LET later == IF S # {} THEN Min(S) ELSE 0
                          IN  IF later = 0 THEN Len(l) + 1 ELSE later
  BY DEF Position, SelectInSeq
<1>3. CASE S = {}
  <2>1. Position(l, time) = Len(l) + 1
    BY <1>2, <1>3
  <2>2. \A i \in 1 .. Len(l) : ~(l[i].nextTime > time)
    BY <1>3
  <2>. QED
    BY <1>0, <1>1, <2>1, <2>2
<1>4. CASE S # {}
  <2>1. Min(S) \in S /\ \A i \in S : Min(S) <= i
    <3>1. S \subseteq Nat
      BY <1>0
    <3>. QED
      BY <1>4, <3>1, LeastIndex, Zenon
  <2>2. Min(S) \in 1 .. Len(l) /\ l[Min(S)].nextTime > time
    BY <2>1
  <2>3. Position(l, time) = Min(S)
    BY <1>0, <1>2, <1>4, <2>2
  <2>4. ASSUME NEW i \in 1 .. Len(l), i < Min(S)
        PROVE  l[i].nextTime <= time
    <3>1. i \notin S
      BY <1>0, <2>1, <2>2, <2>4
    <3>2. ~(l[i].nextTime > time)
      BY <3>1
    <3>. QED
      BY <1>1, <3>2
  <2>5. ASSUME NEW i \in 1 .. Len(l), Min(S) <= i
        PROVE  time < l[i].nextTime
    <3>1. CASE i = Min(S)
      BY <1>1, <2>2, <3>1
    <3>2. CASE i # Min(S)
      <4>1. Min(S) < i
        BY <1>0, <2>2, <2>5, <3>2
      <4>2. l[Min(S)].nextTime <= l[i].nextTime
        BY <2>2, <4>1 DEF ListOK, Sorted
      <4>. QED
        BY <1>1, <2>2, <4>2
    <3>. QED
      BY <3>1, <3>2
  <2>6. Position(l, time) \in 1 .. Len(l) + 1
    BY <1>0, <2>2, <2>3
  <2>. QED
    BY <2>3, <2>4, <2>5, <2>6
<1>. QED
  BY <1>3, <1>4

\* The search of addRepeatedJob ends at the first entry with the interval or a later time.  It
\* does not miss an entry with the interval: that one is due within the interval, and all
\* before it are due earlier.
LEMMA SearchOK ==
    ASSUME NEW l, ListOK(l), NEW interval \in Nat
    PROVE  LET found == SelectInSeq(l, LAMBDA e : e.interval = interval \/ e.nextTime > interval)
           IN  \/ found \in 1 .. Len(l) /\ found # 0 /\ l[found].interval = interval
               \/ /\ found = 0 \/ l[found].interval # interval
                  /\ \A i \in 1 .. Len(l) : l[i].interval # interval
<1>. DEFINE S == {i \in 1 .. Len(l) : l[i].interval = interval \/ l[i].nextTime > interval}
            found == IF S # {} THEN Min(S) ELSE 0
<1>0. l \in Seq(Entry) /\ Len(l) \in Nat
  BY DEF ListOK
<1>1. \A i \in 1 .. Len(l) : l[i].nextTime \in Int
  <2>. SUFFICES ASSUME NEW i \in 1 .. Len(l)
                PROVE  l[i].nextTime \in Int
    OBVIOUS
  <2>1. l[i] \in Entry
    BY <1>0
  <2>. QED
    BY <2>1 DEF Entry
<1>2. \/ found \in 1 .. Len(l) /\ found # 0 /\ l[found].interval = interval
      \/ /\ found = 0 \/ l[found].interval # interval
         /\ \A i \in 1 .. Len(l) : l[i].interval # interval
  <2>1. CASE S = {}
    BY <2>1
  <2>2. CASE S # {}
    <3>1. Min(S) \in S /\ \A i \in S : Min(S) <= i
      <4>1. S \subseteq Nat
        BY <1>0
      <4>. QED
        BY <2>2, <4>1, LeastIndex, Zenon
    <3>2. Min(S) \in 1 .. Len(l) /\ Min(S) # 0
      BY <1>0, <3>1
    <3>3. ASSUME NEW i \in 1 .. Len(l), l[i].interval = interval
          PROVE  l[Min(S)].interval = interval
      <4>1. Min(S) <= i
        BY <3>1, <3>3
      <4>2. CASE Min(S) = i
        BY <3>3, <4>2
      <4>3. CASE Min(S) # i
        <5>1. Min(S) < i
          BY <1>0, <3>2, <4>1, <4>3
        <5>2. l[Min(S)].nextTime <= l[i].nextTime
          BY <3>2, <5>1 DEF ListOK, Sorted
        <5>3. l[i].nextTime <= interval
          BY <3>3 DEF ListOK, InReach
        <5>4. ~(l[Min(S)].nextTime > interval)
          BY <1>1, <3>2, <5>2, <5>3
        <5>. QED
          BY <3>1, <5>4
      <4>. QED
        BY <4>2, <4>3
    <3>. QED
      BY <2>2, <3>2, <3>3
  <2>. QED
    BY <2>1, <2>2, Zenon
<1>3. SelectInSeq(l, LAMBDA e : e.interval = interval \/ e.nextTime > interval) = found
  BY DEF SelectInSeq
<1>. HIDE DEF found
<1>. QED
  BY <1>2, <1>3

\* Adding a job that is not in the list yet keeps the list well formed.  The head stays the head
\* unless it has the interval of the new job or is due later.
LEMMA AddedOK ==
    ASSUME NEW l, ListOK(l), NEW id \in Ids, ~InList(l, id), NEW interval \in 0 .. IntervalMod - 1
    PROVE  /\ ListOK(Added(l, id, interval))
           /\ \A j : InList(Added(l, id, interval), j) => InList(l, j) \/ j = id
           /\ l # <<>> /\ l[1].interval # interval /\ l[1].nextTime <= interval
                 => Added(l, id, interval) # <<>> /\ Added(l, id, interval)[1] = l[1]
<1>. DEFINE found == SelectInSeq(l, LAMBDA e : e.interval = interval \/ e.nextTime > interval)
            new == [nextTime |-> interval, interval |-> interval, jobs |-> <<id>>]
            p == Position(l, interval)
            a == Added(l, id, interval)
<1>0. l \in Seq(Entry) /\ Len(l) \in Nat /\ interval \in Nat /\ interval \in Int
  BY RepeatedAssumption DEF ListOK
<1>1. \/ found \in 1 .. Len(l) /\ found # 0 /\ l[found].interval = interval
      \/ /\ found = 0 \/ l[found].interval # interval
         /\ \A i \in 1 .. Len(l) : l[i].interval # interval
  BY <1>0, SearchOK, Zenon
<1>2. a = IF found # 0 /\ (found # 0 => l[found].interval = interval)
          THEN [l EXCEPT ![found].jobs = Append(@, id)]
          ELSE InsertAt(l, p, new)
  BY Zenon DEF Added
<1>. HIDE DEF found, a, p
<1>3. CASE found \in 1 .. Len(l) /\ found # 0 /\ l[found].interval = interval
  <2>. DEFINE js == Append(l[found].jobs, id)
  <2>0. l[found] \in Entry
    BY <1>0, <1>3
  <2>1. l[found].jobs \in Seq(Ids)
    BY <2>0 DEF Entry
  <2>2. /\ js \in Seq(Ids) /\ js # <<>> /\ Len(js) = Len(l[found].jobs) + 1
        /\ js[Len(l[found].jobs) + 1] = id
        /\ \A i \in 1 .. Len(l[found].jobs) : js[i] = l[found].jobs[i]
    BY <2>1
  <2>3. a = [l EXCEPT ![found].jobs = js]
    BY <1>2, <1>3
  <2>. HIDE DEF js
  <2>4. \A i \in 1 .. Len(l[found].jobs) : l[found].jobs[i] # id
    BY <1>3, <2>1 DEF InList, Range
  <2>5. IsInjective(l[found].jobs)
    BY <1>3 DEF ListOK, JobsOnce
  <2>6. IsInjective(js)
    <3>0. Len(l[found].jobs) \in Nat /\ DOMAIN js = 1 .. Len(l[found].jobs) + 1
      BY <2>1, <2>2
    <3>1. ASSUME NEW i \in 1 .. Len(l[found].jobs) + 1, NEW k \in 1 .. Len(l[found].jobs) + 1,
                 js[i] = js[k]
          PROVE  i = k
      <4>1. CASE i \in 1 .. Len(l[found].jobs) /\ k \in 1 .. Len(l[found].jobs)
        <5>1. l[found].jobs[i] = l[found].jobs[k]
          BY <2>2, <3>1, <4>1
        <5>. QED
          BY <2>1, <2>5, <4>1, <5>1 DEF IsInjective
      <4>2. \A x \in 1 .. Len(l[found].jobs) : js[x] # id
        BY <2>2, <2>4, Zenon
      <4>3. \A x \in 1 .. Len(l[found].jobs) + 1 : x \in 1 .. Len(l[found].jobs) \/ x = Len(l[found].jobs) + 1
        BY <3>0
      <4>. QED
        BY <2>2, <3>1, <4>1, <4>2, <4>3, Zenon
    <3>. QED
      BY <3>0, <3>1 DEF IsInjective
  <2>7. ASSUME NEW j \in Range(js)
        PROVE  j = id \/ j \in Range(l[found].jobs)
    BY <2>1, <2>2 DEF Range
  <2>8. \A j \in Range(js) : j \in Range(l[found].jobs) \/ ~InList(l, j)
    BY <2>7
  <2>9. /\ ListOK(a)
        /\ \A j : InList(a, j) => InList(l, j) \/ j \in Range(js)
    BY <1>3, <2>2, <2>3, <2>6, <2>8, ChangeOK, ZenonT(30)
  <2>10. \A j \in Range(l[found].jobs) : InList(l, j)
    BY <1>3 DEF InList
  <2>11. ASSUME l # <<>>, l[1].interval # interval
         PROVE  a # <<>> /\ a[1] = l[1]
    <3>1. found # 1
      BY <1>3, <2>11
    <3>2. 1 \in 1 .. Len(l)
      BY <1>0, <2>11
    <3>. QED
      BY <1>0, <1>3, <2>3, <3>1, <3>2
  <2>12. \A j : InList(a, j) => InList(l, j) \/ j = id
    BY <2>7, <2>9, <2>10, ZenonT(30)
  <2>. QED
    BY <2>9, <2>11, <2>12 DEF a
<1>4. CASE /\ found = 0 \/ l[found].interval # interval
           /\ \A i \in 1 .. Len(l) : l[i].interval # interval
  <2>1. new \in Entry
    BY <1>0 DEF Entry
  <2>2. new.nextTime = interval /\ new.interval = interval /\ new.jobs = <<id>>
    OBVIOUS
  <2>3. a = InsertAt(l, p, new)
    BY <1>2, <1>4
  <2>. HIDE DEF new
  <2>4. /\ p \in 1 .. Len(l) + 1
        /\ \A i \in 1 .. Len(l) : i < p => l[i].nextTime <= interval
        /\ \A i \in 1 .. Len(l) : p <= i => interval < l[i].nextTime
    BY <1>0, PositionOK, Zenon DEF p
  <2>5. \A i \in 1 .. Len(l) : l[i].nextTime \in Int
    <3>1. \A i \in 1 .. Len(l) : l[i] \in Entry
      BY <1>0
    <3>. QED
      BY <3>1 DEF Entry
  <2>6. \A i \in 1 .. Len(l) : p <= i => new.nextTime <= l[i].nextTime
    BY <1>0, <2>2, <2>4, <2>5
  <2>7. IsInjective(new.jobs) /\ Range(new.jobs) = {id}
    BY <2>2 DEF IsInjective, Range
  <2>8. new.nextTime <= new.interval
    BY <1>0, <2>2
  <2>9. /\ \A i \in 1 .. Len(l) : i < p => l[i].nextTime <= new.nextTime
        /\ \A i \in 1 .. Len(l) : l[i].interval # new.interval
        /\ \A j \in Range(new.jobs) : ~InList(l, j)
    BY <1>4, <2>2, <2>4, <2>7
  <2>10. ListOK(a) /\ \A j : InList(a, j) => InList(l, j) \/ j \in Range(new.jobs)
    BY <2>1, <2>3, <2>4, <2>6, <2>7, <2>8, <2>9, InsertOK, Zenon
  <2>11. ASSUME l # <<>>, l[1].nextTime <= interval
         PROVE  a # <<>> /\ a[1] = l[1]
    <3>1. 1 \in 1 .. Len(l)
      BY <1>0, <2>11
    <3>2. ~(interval < l[1].nextTime)
      BY <1>0, <2>5, <2>11, <3>1
    <3>3. 1 \in 1 .. p - 1
      BY <1>0, <2>4, <3>1, <3>2
    <3>4. Len(a) = Len(l) + 1 /\ a \in Seq(Entry) /\ \A i \in 1 .. p - 1 : a[i] = l[i]
      BY <1>0, <2>1, <2>3, <2>4, Inserted, SMTT(30)
    <3>. QED
      BY <1>0, <3>3, <3>4
  <2>. QED
    BY <2>7, <2>10, <2>11 DEF a
<1>. QED
  BY <1>1, <1>3, <1>4

\* The last element takes the place of the one at i.
LEMMA SwappedOut ==
    ASSUME NEW S, NEW s \in Seq(S), Len(s) > 1, NEW i \in 1 .. Len(s), IsInjective(s)
    PROVE  LET t == Front([s EXCEPT ![i] = Last(s)])
           IN  t \in Seq(S) /\ t # <<>> /\ IsInjective(t) /\ Range(t) \subseteq Range(s)
<1>. DEFINE m == [s EXCEPT ![i] = Last(s)]
            t == Front(m)
<1>0. Len(s) \in Nat /\ DOMAIN s = 1 .. Len(s) /\ Len(s) \in 1 .. Len(s)
  OBVIOUS
<1>1. Last(s) = s[Len(s)] /\ Last(s) \in S
  BY <1>0 DEF Last
<1>2. m \in Seq(S) /\ Len(m) = Len(s) /\ \A k \in 1 .. Len(s) : m[k] = IF k = i THEN s[Len(s)] ELSE s[k]
  BY <1>0, <1>1
<1>. HIDE DEF m
<1>3. /\ t \in Seq(S) /\ Len(t) = Len(s) - 1
      /\ \A k \in 1 .. Len(s) - 1 : k \in 1 .. Len(s) /\ t[k] = m[k]
  BY <1>0, <1>2 DEF Front
<1>. HIDE DEF t
<1>4. t # <<>> /\ DOMAIN t = 1 .. Len(s) - 1
  BY <1>0, <1>3
<1>5. \A k \in 1 .. Len(s) - 1 : t[k] = IF k = i THEN s[Len(s)] ELSE s[k]
  BY <1>2, <1>3
<1>6. ASSUME NEW a \in 1 .. Len(s) - 1, NEW b \in 1 .. Len(s) - 1, t[a] = t[b]
      PROVE  a = b
  <2>. DEFINE From(k) == IF k = i THEN Len(s) ELSE k
  <2>1. From(a) \in 1 .. Len(s) /\ From(b) \in 1 .. Len(s) /\ (From(a) = From(b) => a = b)
    BY <1>0
  <2>2. t[a] = s[From(a)] /\ t[b] = s[From(b)]
    BY <1>5
  <2>. HIDE DEF From
  <2>. QED
    BY <1>0, <1>6, <2>1, <2>2, Zenon DEF IsInjective
<1>7. IsInjective(t)
  BY <1>4, <1>6 DEF IsInjective
<1>8. ASSUME NEW a \in 1 .. Len(s) - 1
      PROVE  t[a] \in Range(s)
  BY <1>0, <1>5 DEF Range
<1>9. Range(t) \subseteq Range(s)
  BY <1>4, <1>8 DEF Range
<1>. QED
  BY <1>3, <1>4, <1>7, <1>9, ZenonT(30) DEF t, m

\* Removing a job keeps the list well formed.  The head stays the head unless the job is its
\* last one.
LEMMA RemovedOK ==
    ASSUME NEW l, ListOK(l), NEW id \in Ids
    PROVE  /\ ListOK(Removed(l, id))
           /\ \A j : InList(Removed(l, id), j) => InList(l, j)
           /\ l # <<>> /\ l[1].jobs # <<id>>
                 => /\ Removed(l, id) # <<>>
                    /\ Removed(l, id)[1].interval = l[1].interval
                    /\ Removed(l, id)[1].nextTime = l[1].nextTime
<1>. DEFINE S == {i \in 1 .. Len(l) : id \in Range(l[i].jobs)}
            found == SelectInSeq(l, LAMBDA e : id \in Range(e.jobs))
            entry == l[found]
            i == SelectInSeq(entry.jobs, LAMBDA j : j = id)
            js == Front([entry.jobs EXCEPT ![i] = Last(entry.jobs)])
            r == Removed(l, id)
<1>0. l \in Seq(Entry) /\ Len(l) \in Nat /\ DOMAIN l = 1 .. Len(l)
  BY DEF ListOK
<1>1. r = CASE found = 0 -> l
            [] found # 0 /\ Len(entry.jobs) = 1 -> RemoveAt(l, found)
            [] OTHER -> [l EXCEPT ![found].jobs = js]
  BY DEF Removed
<1>2. found = IF S # {} THEN Min(S) ELSE 0
  BY DEF SelectInSeq
<1>3. found = 0 \/ (found \in 1 .. Len(l) /\ found # 0 /\ id \in Range(entry.jobs))
  <2>1. CASE S # {}
    <3>1. S \subseteq Nat
      BY <1>0
    <3>2. Min(S) \in S
      BY <2>1, <3>1, LeastIndex, ZenonT(30)
    <3>. QED
      BY <1>0, <1>2, <2>1, <3>2
  <2>. QED
    BY <1>2, <2>1
<1>. HIDE DEF found, r
<1>4. CASE found = 0
  <2>1. r = l
    BY <1>1, <1>4
  <2>. QED
    BY <2>1 DEF r
<1>5. CASE found # 0
  <2>0. found \in 1 .. Len(l) /\ entry \in Entry /\ id \in Range(entry.jobs)
    BY <1>0, <1>3, <1>5
  <2>1. entry.jobs \in Seq(Ids) /\ entry.jobs # <<>> /\ Len(entry.jobs) \in Nat /\ DOMAIN entry.jobs = 1 .. Len(entry.jobs)
    BY <2>0 DEF Entry
  <2>2. CASE Len(entry.jobs) = 1
    <3>1. r = RemoveAt(l, found)
      BY <1>1, <1>5, <2>2
    <3>2. ListOK(r) /\ \A j : InList(r, j) => InList(l, j)
      BY <2>0, <3>1, WithoutOK, ZenonT(30)
    <3>3. entry.jobs = <<id>>
      BY <2>0, <2>1, <2>2 DEF Range
    <3>4. ASSUME l[1].jobs # <<id>>
          PROVE  r # <<>> /\ r[1] = l[1]
      <4>1. found # 1
        BY <3>3, <3>4
      <4>2. r \in Seq(Entry) /\ Len(r) = Len(l) - 1 /\ \A k \in 1 .. found - 1 : r[k] = l[k]
        BY <1>0, <2>0, <3>1, RemovedAt, ZenonT(30)
      <4>. QED
        BY <1>0, <2>0, <4>1, <4>2
    <3>. QED
      BY <3>2, <3>4 DEF r
  <2>3. CASE Len(entry.jobs) # 1
    <3>1. r = [l EXCEPT ![found].jobs = js]
      BY <1>1, <1>5, <2>3
    <3>2. i \in 1 .. Len(entry.jobs)
      <4>. DEFINE T == {k \in 1 .. Len(entry.jobs) : entry.jobs[k] = id}
      <4>1. T # {} /\ T \subseteq Nat
        BY <2>0, <2>1 DEF Range
      <4>2. Min(T) \in T
        BY <4>1, LeastIndex, Zenon
      <4>3. i = IF T # {} THEN Min(T) ELSE 0
        BY DEF SelectInSeq
      <4>. QED
        BY <4>1, <4>2, <4>3
    <3>. HIDE DEF i
    <3>3. IsInjective(entry.jobs) /\ Len(entry.jobs) > 1
      <4>1. IsInjective(l[found].jobs)
        BY <2>0, Zenon DEF ListOK, JobsOnce
      <4>. DEFINE n == Len(entry.jobs)
      <4>2. n # 0
        BY <2>1
      <4>3. n \in Nat /\ n # 1
        BY <2>1, <2>3
      <4>. HIDE DEF n
      <4>4. n > 1
        BY <4>2, <4>3
      <4>. QED
        BY <4>1, <4>4 DEF n
    <3>4. js \in Seq(Ids) /\ js # <<>> /\ IsInjective(js) /\ Range(js) \subseteq Range(entry.jobs)
      BY <2>1, <3>2, <3>3, SwappedOut, Zenon
    <3>. HIDE DEF js
    <3>5. \A j \in Range(js) : j \in Range(entry.jobs) \/ ~InList(l, j)
      BY <3>4
    <3>6. ListOK(r) /\ \A j : InList(r, j) => InList(l, j) \/ j \in Range(js)
      BY <2>0, <3>1, <3>4, <3>5, ChangeOK, Zenon
    <3>7. \A j \in Range(js) : InList(l, j)
      BY <2>0, <3>4 DEF InList
    <3>8. ASSUME l # <<>>
          PROVE  r # <<>> /\ r[1].interval = l[1].interval /\ r[1].nextTime = l[1].nextTime
      <4>1. 1 \in 1 .. Len(l) /\ l[1] \in Entry
        BY <1>0, <3>8
      <4>2. r[1] = IF found = 1 THEN [l[1] EXCEPT !.jobs = js] ELSE l[1]
        BY <1>0, <2>0, <3>1, <4>1
      <4>3. r # <<>>
        BY <1>0, <2>0, <3>1, <4>1
      <4>. QED
        BY <4>1, <4>2, <4>3 DEF Entry
    <3>. QED
      BY <3>6, <3>7, <3>8 DEF r
  <2>. QED
    BY <2>2, <2>3
<1>. QED
  BY <1>4, <1>5

\* The head that was executed moves back and stays within its interval.
LEMMA MovedBackOK ==
    ASSUME NEW l, ListOK(l), l # <<>>, current \in Int, current <= 0, l[1].nextTime <= current
    PROVE  ListOK(MovedBack(l)) /\ \A j : InList(MovedBack(l), j) => InList(l, j)
<1>. DEFINE t == Tail(l)
            e == Rescheduled(l[1])
            p == Position(t, e.nextTime)
<1>0. l \in Seq(Entry) /\ Len(l) \in Nat /\ 1 \in 1 .. Len(l) /\ l[1] \in Entry
  BY DEF ListOK
<1>1. /\ l[1].nextTime \in Int /\ l[1].interval \in Nat /\ l[1].interval \in 0 .. IntervalMod - 1
      /\ l[1].jobs \in Seq(Ids) \ {<<>>}
  BY <1>0, RepeatedAssumption DEF Entry
<1>. DEFINE x == IF l[1].nextTime + l[1].interval < current THEN current
                 ELSE l[1].nextTime + l[1].interval
<1>1a. x \in Int /\ x <= l[1].interval
  BY <1>1
<1>1b. e = [l[1] EXCEPT !.nextTime = x]
  BY DEF Rescheduled
<1>. HIDE DEF x, e
<1>2. e \in Entry /\ e.interval = l[1].interval /\ e.jobs = l[1].jobs /\ e.nextTime = x
  BY <1>0, <1>1a, <1>1b, Zenon DEF Entry
<1>3. e.nextTime \in Int /\ e.nextTime <= e.interval
  BY <1>1a, <1>2
<1>4. /\ ListOK(t)
      /\ Len(t) = Len(l) - 1
      /\ \A i \in 1 .. Len(t) : t[i] = l[i + 1]
      /\ \A j : InList(t, j) => InList(l, j)
  BY TailOK
<1>. HIDE DEF e, t
<1>5. /\ p \in 1 .. Len(t) + 1
      /\ \A i \in 1 .. Len(t) : i < p => t[i].nextTime <= e.nextTime
      /\ \A i \in 1 .. Len(t) : p <= i => e.nextTime < t[i].nextTime
  BY <1>3, <1>4, PositionOK, Zenon
<1>6. \A i \in 1 .. Len(t) : t[i].nextTime \in Int
  <2>1. \A i \in 1 .. Len(t) : t[i] \in Entry
    BY <1>4 DEF ListOK
  <2>. QED
    BY <2>1 DEF Entry
<1>. HIDE DEF p
<1>7. \A i \in 1 .. Len(t) : p <= i => e.nextTime <= t[i].nextTime
  BY <1>3, <1>5, <1>6
<1>8. \A i \in 1 .. Len(t) : i + 1 \in 1 .. Len(l) /\ i + 1 # 1
  BY <1>0, <1>4
<1>9. ASSUME NEW i \in 1 .. Len(t)
      PROVE  t[i].interval # e.interval
  BY <1>0, <1>2, <1>4, <1>8 DEF ListOK, IntervalsOnce
<1>10. IsInjective(e.jobs)
  BY <1>0, <1>2 DEF ListOK, JobsOnce
<1>11. \A j \in Range(e.jobs) : ~InList(t, j)
  <2>. SUFFICES ASSUME NEW j \in Range(l[1].jobs), NEW i \in 1 .. Len(t), j \in Range(t[i].jobs)
                PROVE  FALSE
    BY <1>2, ZenonT(30) DEF InList
  <2>1. j \in Range(l[i + 1].jobs)
    BY <1>4
  <2>. QED
    BY <1>0, <1>8, <2>1, Zenon DEF ListOK, JobsApart
<1>12. /\ ListOK(InsertAt(t, p, e))
       /\ \A j : InList(InsertAt(t, p, e), j) => InList(t, j) \/ j \in Range(e.jobs)
  BY <1>2, <1>3, <1>4, <1>5, <1>7, <1>9, <1>10, <1>11, InsertOK, ZenonT(30)
<1>13. MovedBack(l) = InsertAt(t, p, e)
  BY DEF MovedBack, p, t, e
<1>14. \A j \in Range(e.jobs) : InList(l, j)
  BY <1>0, <1>2 DEF InList
<1>. QED
  BY <1>4, <1>12, <1>13, <1>14, ZenonT(30)

\* A well formed list is what ListInv asks for,
LEMMA ListOKImplies ==
    ASSUME ListOK(list)
    PROVE  ListSorted /\ OneEntryPerInterval /\ JobsInOneEntry /\ NextTimeInReach
<1>0. list \in Seq(Entry) /\ Len(list) \in Nat
  BY DEF ListOK
<1>1. \A i \in 1 .. Len(list) - 1 : i \in 1 .. Len(list) /\ i + 1 \in 1 .. Len(list) /\ i < i + 1
  BY <1>0
<1>2. ListSorted
  BY <1>1, Zenon DEF ListOK, Sorted, ListSorted
<1>3. OneEntryPerInterval /\ NextTimeInReach
  BY Zenon DEF ListOK, IntervalsOnce, InReach, OneEntryPerInterval, NextTimeInReach
<1>4. JobsInOneEntry
  BY Zenon DEF ListOK, JobsOnce, JobsApart, JobsInOneEntry
<1>. QED
  BY <1>2, <1>3, <1>4

\* and the clock keeps it well formed.
LEMMA TickOK ==
    ASSUME NEW l, ListOK(l)
    PROVE  LET l2 == [i \in 1 .. Len(l) |-> [l[i] EXCEPT !.nextTime = @ - 1]]
           IN  /\ ListOK(l2)
               /\ \A j : InList(l2, j) => InList(l, j)
               /\ l # <<>> => /\ l2 # <<>> /\ l2[1].interval = l[1].interval
                              /\ l2[1].nextTime = l[1].nextTime - 1
<1>. DEFINE l2 == [i \in 1 .. Len(l) |-> [l[i] EXCEPT !.nextTime = @ - 1]]
<1>0. l \in Seq(Entry) /\ Len(l) \in Nat
  BY DEF ListOK
<1>1. \A i \in 1 .. Len(l) : l[i] \in Entry
  BY <1>0
<1>2. \A i \in 1 .. Len(l) : l[i].nextTime \in Int /\ l[i].interval \in Int
  BY <1>1, RepeatedAssumption DEF Entry
<1>3. ASSUME NEW i \in 1 .. Len(l)
      PROVE  /\ l2[i] \in Entry /\ l2[i].nextTime = l[i].nextTime - 1
             /\ l2[i].interval = l[i].interval /\ l2[i].jobs = l[i].jobs
  BY <1>1 DEF Entry
<1>4. l2 \in Seq(Entry) /\ Len(l2) = Len(l)
  BY <1>0, <1>3
<1>. HIDE DEF l2
<1>5. ASSUME NEW i \in 1 .. Len(l), NEW k \in 1 .. Len(l), i < k
      PROVE  l2[i].nextTime <= l2[k].nextTime
  <2>1. l[i].nextTime <= l[k].nextTime
    BY <1>5, Zenon DEF ListOK, Sorted
  <2>. QED
    BY <1>2, <1>3, <2>1
<1>6. ASSUME NEW i \in 1 .. Len(l)
      PROVE  l2[i].nextTime <= l2[i].interval
  <2>1. l[i].nextTime <= l[i].interval
    BY Zenon DEF ListOK, InReach
  <2>. QED
    BY <1>2, <1>3, <2>1
<1>7. IntervalsOnce(l2)
  BY <1>3, <1>4 DEF ListOK, IntervalsOnce
<1>8. JobsOnce(l2) /\ JobsApart(l2)
  BY <1>3, <1>4, Zenon DEF ListOK, JobsOnce, JobsApart
<1>9. ListOK(l2)
  BY <1>4, <1>5, <1>6, <1>7, <1>8, Zenon DEF ListOK, Sorted, InReach
<1>10. ASSUME NEW j, InList(l2, j)
       PROVE  InList(l, j)
  BY <1>3, <1>4, <1>10, ZenonT(30) DEF InList
<1>11. ASSUME l # <<>>
       PROVE  l2 # <<>> /\ l2[1].interval = l[1].interval /\ l2[1].nextTime = l[1].nextTime - 1
  <2>1. 1 \in 1 .. Len(l) /\ Len(l2) # 0
    BY <1>0, <1>4, <1>11
  <2>. QED
    BY <1>3, <2>1
<1>. QED
  BY <1>9, <1>10, <1>11 DEF l2

-----------------------------------------------------------------------------
(* The inductive invariant *)

\* A request to add a job.
Adds(r) == r.interval # NoInterval

\* The requests of s to add a job are the first ones for their jobs,
AddsNew(s, l, asked) ==
    \A i \in 1 .. Len(s) : Adds(s[i]) => asked[s[i].id] # 0 /\ ~InList(l, s[i].id)

\* and no two requests add the same job.
AddsOnce(s) ==
    \A i, k \in 1 .. Len(s) : Adds(s[i]) /\ Adds(s[k]) /\ s[i].id = s[k].id => i = k
AddsApart(s, t) ==
    \A i \in 1 .. Len(s), k \in 1 .. Len(t) : Adds(s[i]) /\ Adds(t[k]) => s[i].id # t[k].id

Announced ==
    /\ \A id \in Ids : InList(list, id) => requested[id] # 0
    /\ AddsNew(stack, list, requested)
    /\ AddsNew(requests, list, requested)
    /\ AddsOnce(stack)
    /\ AddsOnce(requests)
    /\ AddsApart(stack, requests)

\* The entry being executed is the head of the list, and due.
HeadDue(l, t, c) == l # <<>> /\ l[1].interval = t /\ l[1].nextTime <= c
Held == phase \in {"entry", "job"} => HeadDue(list, tw, current)

TypesRest ==
    /\ multithreading \in Builds
    /\ stack \in Seq(Requests)
    /\ requests \in Seq(Requests)
    /\ requested \in [Ids -> Nat]
    /\ removed \subseteq Ids
    /\ phase \in {"idle", "requests", "process", "entry", "job", "deleted"}
    /\ current \in -LateBound .. 0
    /\ tw \in Nat
    /\ index \in Nat

IInv == TypesRest /\ ListOK(list) /\ stale = FALSE /\ Held /\ Announced

\* What the jobs of the build without threads must observe: they leave the entry alone that is
\* being executed.  With threads they cannot touch the list.
EntryKept == FALSE \in Builds /\ CallbackCalls => KeepsOwnEntry

LEMMA InvImplies == IInv => ListInv
<1>. SUFFICES ASSUME IInv PROVE ListInv
  OBVIOUS
<1>1. multithreading \in BOOLEAN
  BY RepeatedAssumption DEF IInv, TypesRest
<1>2. TypeOK
  BY <1>1, Zenon DEF IInv, TypesRest, ListOK, TypeOK
<1>. QED
  BY <1>2, ListOKImplies DEF IInv, ListInv

LEMMA InvInit == Init => IInv
<1>. SUFFICES ASSUME Init PROVE IInv
  OBVIOUS
<1>1. TypesRest
  BY RepeatedAssumption DEF Init, TypesRest
<1>2. list = <<>> /\ Len(list) = 0 /\ list \in Seq(Entry) /\ 1 .. Len(list) = {}
  BY DEF Init
<1>3. ListOK(list) /\ \A id : ~InList(list, id)
  BY <1>2, Zenon DEF ListOK, Sorted, IntervalsOnce, InReach, JobsOnce, JobsApart, InList
<1>4. 1 .. Len(stack) = {} /\ 1 .. Len(requests) = {}
  BY DEF Init
<1>5. Announced
  BY <1>3, <1>4, Zenon DEF Announced, AddsNew, AddsOnce, AddsApart
<1>6. stale = FALSE /\ Held
  BY DEF Init, Held
<1>. QED
  BY <1>1, <1>3, <1>5, <1>6 DEF IInv

LEMMA TicksType ==
    ASSUME NEW ms \in Intervals
    PROVE  Ticks(ms) \in 0 .. IntervalMod - 1
<1>1. ms \in Nat /\ TicksPerMs \in Nat /\ IntervalMod \in Nat /\ IntervalMod > 0
  BY RepeatedAssumption
<1>2. ms * TicksPerMs \in Nat
  BY <1>1
<1>. QED
  BY <1>1, <1>2 DEF Ticks

LEMMA JobsOfHead ==
    ASSUME NEW l, ListOK(l), l # <<>>
    PROVE  JobsOf(l, l[1].interval) = l[1].jobs
<1>. DEFINE S == {i \in 1 .. Len(l) : l[i].interval = l[1].interval}
<1>0. Len(l) \in Nat /\ 1 \in 1 .. Len(l)
  BY DEF ListOK
<1>1. S = {1}
  BY <1>0, Zenon DEF ListOK, IntervalsOnce
<1>2. Min(S) = 1
  <2>1. S # {} /\ S \subseteq Nat
    BY <1>1
  <2>2. Min(S) \in S
    BY <2>1, LeastIndex, Zenon
  <2>. QED
    BY <1>1, <2>2
<1>3. SelectInSeq(l, LAMBDA e : e.interval = l[1].interval) = IF S # {} THEN Min(S) ELSE 0
  BY DEF SelectInSeq
<1>4. SelectInSeq(l, LAMBDA e : e.interval = l[1].interval) = 1
  BY <1>1, <1>2, <1>3
<1>. QED
  BY <1>4 DEF JobsOf

LEMMA ExecuteOK ==
    ASSUME NEW l, ListOK(l), NEW r \in Requests, Adds(r) => ~InList(l, r.id)
    PROVE  /\ ListOK(Execute(l, r))
           /\ \A j : InList(Execute(l, r), j) => InList(l, j) \/ (Adds(r) /\ j = r.id)
           /\ \A c \in Int : /\ c <= 0
                             /\ HeadDue(l, l[1].interval, c)
                             /\ r.interval # l[1].interval
                             /\ l[1].jobs # <<r.id>>
                             => HeadDue(Execute(l, r), l[1].interval, c)
<1>0. r.id \in Ids /\ r.interval \in {NoInterval} \cup 0 .. IntervalMod - 1
  BY DEF Requests
<1>1. CASE ~Adds(r)
  <2>1. Execute(l, r) = Removed(l, r.id)
    BY <1>1 DEF Execute, Adds
  <2>2. /\ ListOK(Removed(l, r.id))
        /\ \A j : InList(Removed(l, r.id), j) => InList(l, j)
        /\ l # <<>> /\ l[1].jobs # <<r.id>>
              => /\ Removed(l, r.id) # <<>>
                 /\ Removed(l, r.id)[1].interval = l[1].interval
                 /\ Removed(l, r.id)[1].nextTime = l[1].nextTime
    BY <1>0, RemovedOK, Zenon
  <2>3. ASSUME NEW c \in Int, HeadDue(l, l[1].interval, c), l[1].jobs # <<r.id>>
        PROVE  HeadDue(Execute(l, r), l[1].interval, c)
    BY <2>1, <2>2, <2>3 DEF HeadDue
  <2>. QED
    BY <2>1, <2>2, <2>3, ZenonT(30)
<1>2. CASE Adds(r)
  <2>1. Execute(l, r) = Added(l, r.id, r.interval) /\ r.interval \in 0 .. IntervalMod - 1
    BY <1>0, <1>2 DEF Execute, Adds
  <2>2. ASSUME NEW c \in Int, c <= 0, HeadDue(l, l[1].interval, c)
        PROVE  l[1].nextTime <= r.interval
    <3>1. l \in Seq(Entry) /\ Len(l) \in Nat /\ 1 \in 1 .. Len(l)
      BY <2>2 DEF ListOK, HeadDue
    <3>2. l[1] \in Entry
      BY <3>1
    <3>3. l[1].nextTime \in Int /\ r.interval \in Int /\ r.interval >= 0
      BY <2>1, <3>2, RepeatedAssumption DEF Entry
    <3>. QED
      BY <2>2, <3>3 DEF HeadDue
  <2>3. /\ ListOK(Added(l, r.id, r.interval))
        /\ \A j : InList(Added(l, r.id, r.interval), j) => InList(l, j) \/ j = r.id
        /\ l # <<>> /\ l[1].interval # r.interval /\ l[1].nextTime <= r.interval
              => Added(l, r.id, r.interval) # <<>> /\ Added(l, r.id, r.interval)[1] = l[1]
    BY <1>0, <1>2, <2>1, AddedOK, Zenon
  <2>4. ASSUME NEW c \in Int, c <= 0, HeadDue(l, l[1].interval, c), r.interval # l[1].interval
        PROVE  HeadDue(Execute(l, r), l[1].interval, c)
    <3>1. l # <<>> /\ l[1].interval # r.interval /\ l[1].nextTime <= r.interval
      BY <2>2, <2>4 DEF HeadDue
    <3>. QED
      BY <2>1, <2>3, <2>4, <3>1 DEF HeadDue
  <2>. QED
    BY <1>2, <2>1, <2>3, <2>4, Zenon
<1>. QED
  BY <1>1, <1>2

-----------------------------------------------------------------------------
(* The steps *)

\* A list with fewer jobs, or the new one of a request, keeps the jobs announced.
LEMMA AnnouncedKeeps ==
    ASSUME Announced, UNCHANGED <<stack, requests, requested>>,
           \A j : InList(list', j) => InList(list, j)
    PROVE  Announced'
BY ZenonT(30) DEF Announced, AddsNew, AddsOnce, AddsApart, Adds

LEMMA RequestIds ==
    ASSUME NEW s \in Seq(Requests)
    PROVE  \A i \in 1 .. Len(s) : s[i] \in Requests /\ s[i].id \in Ids
<1>1. \A i \in 1 .. Len(s) : s[i] \in Requests
  OBVIOUS
<1>. QED
  BY <1>1 DEF Requests

\* The jobs to add stay new as long as the list gets no job but r's.
LEMMA AddsNewKeeps ==
    ASSUME NEW s \in Seq(Requests), NEW l, NEW l2, NEW asked, NEW asked2, NEW r,
           AddsNew(s, l, asked),
           \A id \in Ids : asked[id] # 0 => asked2[id] # 0,
           \A j : InList(l2, j) => InList(l, j) \/ (Adds(r) /\ j = r.id),
           Adds(r) => \A i \in 1 .. Len(s) : Adds(s[i]) => s[i].id # r.id
    PROVE  AddsNew(s, l2, asked2)
<1>. SUFFICES ASSUME NEW i \in 1 .. Len(s), Adds(s[i])
              PROVE  asked2[s[i].id] # 0 /\ ~InList(l2, s[i].id)
  BY Zenon DEF AddsNew
<1>1. asked[s[i].id] # 0 /\ ~InList(l, s[i].id)
  BY Zenon DEF AddsNew
<1>2. s[i].id \in Ids
  BY RequestIds
<1>3. asked2[s[i].id] # 0
  BY <1>1, <1>2
<1>4. Adds(r) => s[i].id # r.id
  BY Zenon
<1>5. ~InList(l2, s[i].id)
  <2>. DEFINE j == s[i].id
  <2>. HIDE DEF j
  <2>1. ~InList(l, j) /\ (Adds(r) => j # r.id)
    BY <1>1, <1>4 DEF j
  <2>2. ~InList(l2, j)
    BY <2>1, Zenon
  <2>. QED
    BY <2>2 DEF j
<1>. QED
  BY <1>3, <1>5

LEMMA PushStep ==
    ASSUME IInv, NEW r \in Requests, Push(r),
           requested' \in [Ids -> Nat], removed' \subseteq Ids,
           \A id \in Ids : requested[id] # 0 => requested'[id] # 0,
           Adds(r) => requested[r.id] = 0 /\ requested'[r.id] # 0
    PROVE  IInv'
<1>0. stack \in Seq(Requests) /\ Len(stack) \in Nat /\ requests \in Seq(Requests)
  BY DEF IInv, TypesRest
<1>1. /\ stack' \in Seq(Requests) /\ Len(stack') = Len(stack) + 1 /\ stack'[1] = r
      /\ \A i \in 1 .. Len(stack) : stack'[i + 1] = stack[i]
  BY <1>0 DEF Push
<1>2. \A i \in 1 .. Len(stack') : i = 1 \/ (i - 1 \in 1 .. Len(stack) /\ stack'[i] = stack[i - 1])
  BY <1>0, <1>1
<1>3. UNCHANGED <<multithreading, list, requests, phase, current, tw, index, stale>>
  BY DEF Push
<1>4. r.id \in Ids /\ \A i \in 1 .. Len(stack) : stack[i].id \in Ids
  <2>1. r.id \in Ids
    BY DEF Requests
  <2>. QED
    BY <1>0, <2>1, RequestIds, Zenon
<1>5. \A i \in 1 .. Len(requests) : requests[i].id \in Ids
  BY <1>0, RequestIds
<1>6. Adds(r) => /\ ~InList(list, r.id)
                 /\ \A i \in 1 .. Len(stack) : Adds(stack[i]) => stack[i].id # r.id
                 /\ \A i \in 1 .. Len(requests) : Adds(requests[i]) => requests[i].id # r.id
  BY <1>4, Zenon DEF IInv, Announced, AddsNew
<1>7. TypesRest' /\ ListOK(list)' /\ stale' = FALSE /\ Held'
  BY <1>1, <1>3 DEF IInv, TypesRest, Held
<1>8. \A id \in Ids : InList(list', id) => requested'[id] # 0
  BY <1>3, ZenonT(30) DEF IInv, Announced
<1>9. AddsNew(stack', list', requested')
  <2>. SUFFICES ASSUME NEW i \in 1 .. Len(stack'), Adds(stack'[i])
                PROVE  requested'[stack'[i].id] # 0 /\ ~InList(list', stack'[i].id)
    BY ZenonT(30) DEF AddsNew
  <2>1. CASE i = 1
    BY <1>1, <1>3, <1>6, <2>1
  <2>2. CASE i - 1 \in 1 .. Len(stack) /\ stack'[i] = stack[i - 1]
    <3>1. requested[stack[i - 1].id] # 0 /\ ~InList(list, stack[i - 1].id)
      BY <2>2, Zenon DEF IInv, Announced, AddsNew
    <3>. QED
      BY <1>3, <1>4, <2>2, <3>1
  <2>. QED
    BY <1>2, <2>1, <2>2
<1>10. AddsNew(requests', list', requested')
  BY <1>3, <1>5, ZenonT(30) DEF IInv, Announced, AddsNew
<1>11. AddsOnce(stack')
  <2>. SUFFICES ASSUME NEW i \in 1 .. Len(stack'), NEW k \in 1 .. Len(stack'),
                       Adds(stack'[i]), Adds(stack'[k]), stack'[i].id = stack'[k].id
                PROVE  i = k
    BY Zenon DEF AddsOnce
  <2>1. CASE i # 1 /\ k # 1
    <3>1. /\ i - 1 \in 1 .. Len(stack) /\ stack'[i] = stack[i - 1]
          /\ k - 1 \in 1 .. Len(stack) /\ stack'[k] = stack[k - 1]
      BY <1>2, <2>1
    <3>2. i - 1 = k - 1
      BY <3>1, Zenon DEF IInv, Announced, AddsOnce
    <3>. QED
      BY <1>0, <1>1, <3>2
  <2>2. CASE i = 1 /\ k # 1
    BY <1>1, <1>2, <1>6, <2>2, ZenonT(30)
  <2>3. CASE i # 1 /\ k = 1
    BY <1>1, <1>2, <1>6, <2>3, Zenon
  <2>. QED
    BY <2>1, <2>2, <2>3
<1>12. AddsOnce(requests')
  BY <1>3 DEF IInv, Announced
<1>13. AddsApart(stack', requests')
  <2>. SUFFICES ASSUME NEW i \in 1 .. Len(stack'), NEW k \in 1 .. Len(requests),
                       Adds(stack'[i]), Adds(requests[k])
                PROVE  stack'[i].id # requests[k].id
    BY <1>3, Zenon DEF AddsApart
  <2>1. CASE i = 1
    BY <1>1, <1>6, <2>1, ZenonT(30)
  <2>2. CASE i - 1 \in 1 .. Len(stack) /\ stack'[i] = stack[i - 1]
    <3>1. stack[i - 1].id # requests[k].id
      BY <2>2, ZenonT(30) DEF IInv, Announced, AddsApart
    <3>. QED
      BY <2>2, <3>1
  <2>. QED
    BY <1>2, <2>1, <2>2
<1>. QED
  BY <1>7, <1>8, <1>9, <1>10, <1>11, <1>12, <1>13 DEF IInv, Announced

\* A request is executed at once, or one from the main loop's own.
LEMMA ExecuteStep ==
    ASSUME IInv, NEW r \in Requests, Adds(r) => ~InList(list, r.id),
           list' = Execute(list, r), UNCHANGED <<stack, requests>>,
           requested' \in [Ids -> Nat],
           \A id \in Ids : requested[id] # 0 => requested'[id] # 0,
           Adds(r) => /\ requested'[r.id] # 0
                      /\ \A i \in 1 .. Len(stack) : Adds(stack[i]) => stack[i].id # r.id
                      /\ \A i \in 1 .. Len(requests) : Adds(requests[i]) => requests[i].id # r.id
    PROVE  ListOK(list') /\ Announced'
<1>0. stack \in Seq(Requests) /\ requests \in Seq(Requests)
  BY DEF IInv, TypesRest
<1>1. /\ ListOK(list')
      /\ \A j : InList(list', j) => InList(list, j) \/ (Adds(r) /\ j = r.id)
  BY ExecuteOK, Zenon DEF IInv
<1>2. \A id \in Ids : InList(list', id) => requested'[id] # 0
  BY <1>1, ZenonT(30) DEF IInv, Announced
<1>3. AddsNew(stack, list, requested) /\ AddsNew(requests, list, requested)
  BY DEF IInv, Announced
<1>. DEFINE s == stack
            t == requests
            l2 == list'
<1>a. /\ Adds(r) => \A i \in 1 .. Len(s) : Adds(s[i]) => s[i].id # r.id
      /\ Adds(r) => \A i \in 1 .. Len(t) : Adds(t[i]) => t[i].id # r.id
      /\ \A id \in Ids : requested[id] # 0 => requested'[id] # 0
      /\ \A j : InList(l2, j) => InList(list, j) \/ (Adds(r) /\ j = r.id)
  BY <1>1, ZenonT(30)
<1>b. /\ s \in Seq(Requests) /\ AddsNew(s, list, requested)
      /\ t \in Seq(Requests) /\ AddsNew(t, list, requested)
  BY <1>0, <1>3
<1>. HIDE DEF s, t, l2
<1>c. AddsNew(s, l2, requested')
  BY <1>a, <1>b, AddsNewKeeps
<1>d. AddsNew(t, l2, requested')
  BY <1>a, <1>b, AddsNewKeeps
<1>4. AddsNew(stack, list', requested')
  BY <1>c DEF s, l2
<1>5. AddsNew(requests, list', requested')
  BY <1>d DEF t, l2
<1>6. AddsNew(stack', list', requested') /\ AddsNew(requests', list', requested')
  BY <1>4, <1>5
<1>7. AddsOnce(stack') /\ AddsOnce(requests') /\ AddsApart(stack', requests')
  BY DEF IInv, Announced
<1>. QED
  BY <1>1, <1>2, <1>6, <1>7 DEF Announced

LEMMA DirectStep ==
    ASSUME EntryKept, IInv, NEW r \in Requests, Direct(r) \/ Callback(r),
           requested' \in [Ids -> Nat], removed' \subseteq Ids,
           \A id \in Ids : requested[id] # 0 => requested'[id] # 0,
           Adds(r) => requested[r.id] = 0 /\ requested'[r.id] # 0
    PROVE  IInv'
<1>1. list' = Execute(list, r) /\ UNCHANGED <<multithreading, stack, requests, phase, current, tw, index>>
  BY Zenon DEF Direct, Callback
<1>2. stack \in Seq(Requests) /\ requests \in Seq(Requests) /\ r.id \in Ids
  BY DEF IInv, TypesRest, Requests
<1>3. Adds(r) => /\ ~InList(list, r.id)
                 /\ \A i \in 1 .. Len(stack) : Adds(stack[i]) => stack[i].id # r.id
                 /\ \A i \in 1 .. Len(requests) : Adds(requests[i]) => requests[i].id # r.id
  BY <1>2, Zenon DEF IInv, Announced, AddsNew
<1>4. ListOK(list') /\ Announced'
  BY <1>1, <1>3, ExecuteStep, Zenon
<1>5. TypesRest'
  BY <1>1, Zenon DEF IInv, TypesRest
<1>6. CASE Direct(r)
  <2>1. phase' = "idle" /\ stale' = FALSE
    BY <1>6 DEF Direct, IInv
  <2>2. Held'
    BY <2>1 DEF Held
  <2>. QED
    BY <1>4, <1>5, <2>1, <2>2, ZenonT(30) DEF IInv
<1>7. CASE Callback(r)
  <2>0. KeepsOwnEntry
    <3>1. multithreading \in Builds /\ multithreading \in BOOLEAN /\ ~multithreading /\ CallbackCalls
      BY <1>7, RepeatedAssumption DEF Callback, IInv, TypesRest
    <3>2. multithreading = FALSE
      BY <3>1, Zenon
    <3>. QED
      BY <3>1, <3>2, ZenonT(30) DEF EntryKept
  <2>1. phase = "job" /\ r.interval # tw /\ JobsOf(list, tw) # <<r.id>> /\ stale' = FALSE
    BY <1>7, <2>0, ZenonT(30) DEF Callback
  <2>2. HeadDue(list, tw, current)
    BY <2>1 DEF IInv, Held
  <2>3. list # <<>> /\ list[1].interval = tw
    BY <2>2 DEF HeadDue
  <2>4. list[1].jobs # <<r.id>>
    BY <2>1, <2>3, JobsOfHead, ZenonT(30) DEF IInv
  <2>5. current \in Int /\ current <= 0
    BY RepeatedAssumption DEF IInv, TypesRest
  <2>6. HeadDue(list', tw, current)
    BY <1>1, <1>3, <2>1, <2>2, <2>3, <2>4, <2>5, ExecuteOK, Zenon DEF IInv
  <2>7. Held'
    BY <1>1, <2>6, Zenon DEF Held
  <2>. QED
    BY <1>4, <1>5, <2>1, <2>7, Zenon DEF IInv
<1>. QED
  BY <1>6, <1>7

LEMMA RequestsStep ==
    ASSUME EntryKept, IInv, NEW id \in Ids,
           RemoveRepeatedJob(id) \/ \E ms \in Intervals : AddRepeatedJob(id, ms)
    PROVE  IInv'
<1>0. requested \in [Ids -> Nat] /\ removed \subseteq Ids
  BY DEF IInv, TypesRest
<1>1. CASE RemoveRepeatedJob(id)
  <2>. DEFINE r == Request(id, NoInterval)
  <2>1. r \in Requests /\ ~Adds(r)
    BY DEF Request, Requests, Adds
  <2>2. removed' \subseteq Ids /\ requested' = requested
    BY <1>0, <1>1 DEF RemoveRepeatedJob, OldJob
  <2>3. Push(r) \/ Direct(r) \/ Callback(r)
    BY <1>1, Zenon DEF RemoveRepeatedJob
  <2>. HIDE DEF r
  <2>. QED
    BY <1>0, <2>1, <2>2, <2>3, PushStep, DirectStep, ZenonT(30)
<1>2. ASSUME NEW ms \in Intervals, AddRepeatedJob(id, ms)
      PROVE  IInv'
  <2>. DEFINE r == Request(id, Ticks(ms))
  <2>1. Ticks(ms) \in 0 .. IntervalMod - 1
    BY TicksType
  <2>2. r \in Requests /\ r.id = id
    BY <2>1 DEF Request, Requests
  <2>3. ms \in Nat /\ ms # 0
    BY RepeatedAssumption
  <2>4. /\ requested[id] = 0
        /\ requested' = [requested EXCEPT ![id] = ms]
        /\ removed' = removed
    BY <1>2 DEF AddRepeatedJob, NewJob
  <2>5. /\ requested' \in [Ids -> Nat] /\ requested'[id] # 0
        /\ \A j \in Ids : requested[j] # 0 => requested'[j] # 0
    BY <1>0, <2>3, <2>4
  <2>6. Push(r) \/ Direct(r) \/ Callback(r)
    BY <1>2, Zenon DEF AddRepeatedJob
  <2>7. removed' \subseteq Ids
    BY <1>0, <2>4
  <2>. HIDE DEF r
  <2>8. Adds(r) => requested[r.id] = 0 /\ requested'[r.id] # 0
    BY <2>2, <2>4, <2>5
  <2>. QED
    BY <2>2, <2>5, <2>6, <2>7, <2>8, PushStep, DirectStep, Zenon
<1>. QED
  BY <1>1, <1>2

LEMMA MainLoopJobStep ==
    ASSUME IInv, MainLoopJob
    PROVE  IInv'
<1>. DEFINE r == Head(requests)
<1>0. requests \in Seq(Requests) /\ requests # <<>> /\ stack \in Seq(Requests) /\ requested \in [Ids -> Nat]
  BY DEF IInv, TypesRest, MainLoopJob
<1>1. Len(requests) \in Nat /\ 1 \in 1 .. Len(requests) /\ r = requests[1] /\ r \in Requests /\ r.id \in Ids
  <2>1. Len(requests) \in Nat /\ 1 \in 1 .. Len(requests) /\ r = requests[1]
    BY <1>0
  <2>. QED
    BY <1>0, <2>1, RequestIds
<1>2. /\ list' = Execute(list, r) /\ requests' = Tail(requests)
      /\ UNCHANGED <<multithreading, stack, requested, removed, phase, current, tw, index, stale>>
      /\ phase = "requests"
  BY DEF MainLoopJob
<1>3. /\ requests' \in Seq(Requests) /\ Len(requests') = Len(requests) - 1
      /\ \A i \in 1 .. Len(requests') : i + 1 \in 1 .. Len(requests) /\ i + 1 # 1 /\ requests'[i] = requests[i + 1]
  BY <1>0, <1>1, <1>2
<1>. HIDE DEF r
<1>4. Adds(r) => /\ ~InList(list, r.id) /\ requested[r.id] # 0
                 /\ \A i \in 1 .. Len(stack) : Adds(stack[i]) => stack[i].id # r.id
                 /\ \A i \in 1 .. Len(requests') : Adds(requests'[i]) => requests'[i].id # r.id
  <2>1. Adds(r) => /\ ~InList(list, r.id) /\ requested[r.id] # 0
                   /\ \A i \in 1 .. Len(stack) : Adds(stack[i]) => stack[i].id # r.id
    BY <1>1, Zenon DEF IInv, Announced, AddsNew, AddsApart
  <2>2. ASSUME Adds(r), NEW i \in 1 .. Len(requests'), Adds(requests'[i])
        PROVE  requests'[i].id # r.id
    BY <1>1, <1>3, <2>2, Zenon DEF IInv, Announced, AddsOnce
  <2>. QED
    BY <2>1, <2>2
<1>5. /\ ListOK(list')
      /\ \A j : InList(list', j) => InList(list, j) \/ (Adds(r) /\ j = r.id)
  BY <1>1, <1>2, <1>4, ExecuteOK, ZenonT(30) DEF IInv
<1>6. AddsNew(requests', list, requested)
  BY <1>3, Zenon DEF IInv, Announced, AddsNew
<1>7. AddsNew(stack', list', requested') /\ AddsNew(requests', list', requested')
  <2>1. \A id \in Ids : requested[id] # 0 => requested'[id] # 0
    BY <1>2
  <2>2. AddsNew(stack, list, requested)
    BY DEF IInv, Announced
  <2>3. AddsNew(stack, list', requested')
    BY <1>0, <1>4, <1>5, <2>1, <2>2, AddsNewKeeps, Zenon
  <2>4. AddsNew(requests', list', requested')
    <3>. DEFINE s == requests'
    <3>1. s \in Seq(Requests) /\ AddsNew(s, list, requested)
      BY <1>3, <1>6, Zenon
    <3>2. Adds(r) => \A i \in 1 .. Len(s) : Adds(s[i]) => s[i].id # r.id
      BY <1>4, Zenon
    <3>. HIDE DEF s
    <3>3. AddsNew(s, list', requested')
      BY <1>5, <2>1, <3>1, <3>2, AddsNewKeeps, Zenon
    <3>. QED
      BY <3>3 DEF s
  <2>. QED
    BY <1>2, <2>3, <2>4
<1>8. AddsOnce(requests')
  <2>. SUFFICES ASSUME NEW i \in 1 .. Len(requests'), NEW k \in 1 .. Len(requests'),
                       Adds(requests'[i]), Adds(requests'[k]), requests'[i].id = requests'[k].id
                PROVE  i = k
    BY Zenon DEF AddsOnce
  <2>1. i + 1 = k + 1
    BY <1>3, Zenon DEF IInv, Announced, AddsOnce
  <2>. QED
    BY <1>1, <1>3, <2>1
<1>9. AddsOnce(stack') /\ AddsApart(stack', requests')
  BY <1>2, <1>3, ZenonT(30) DEF IInv, Announced, AddsOnce, AddsApart
<1>10. \A id \in Ids : InList(list', id) => requested'[id] # 0
  BY <1>2, <1>4, <1>5, Zenon DEF IInv, Announced
<1>11. TypesRest' /\ stale' = FALSE /\ Held'
  BY <1>2, <1>3 DEF IInv, TypesRest, Held
<1>. QED
  BY <1>5, <1>7, <1>8, <1>9, <1>10, <1>11, ZenonT(30) DEF IInv, Announced

\* Steps that leave the list and the requests alone.
LEMMA ListUntouched ==
    ASSUME IInv, UNCHANGED <<list, stack, requests, requested>>
    PROVE  ListOK(list') /\ Announced'
<1>1. ListOK(list') /\ \A j : InList(list', j) => InList(list, j)
  BY Zenon DEF IInv
<1>. QED
  BY <1>1, AnnouncedKeeps, Zenon DEF IInv

LEMMA StartPassStep ==
    ASSUME IInv, StartPass
    PROVE  IInv'
<1>1. /\ requests' = stack /\ stack' = <<>> /\ phase' = "requests"
      /\ UNCHANGED <<multithreading, list, requested, removed, current, tw, index, stale>>
  BY DEF StartPass
<1>2. TypesRest' /\ stale' = FALSE /\ Held'
  BY <1>1 DEF IInv, TypesRest, Held
<1>3. 1 .. Len(stack') = {}
  BY <1>1
<1>4. AddsNew(stack', list', requested') /\ AddsOnce(stack') /\ AddsApart(stack', requests')
  BY <1>3, Zenon DEF AddsNew, AddsOnce, AddsApart
<1>5. AddsNew(requests', list', requested') /\ AddsOnce(requests')
  BY <1>1, ZenonT(30) DEF IInv, Announced
<1>6. ListOK(list') /\ \A id \in Ids : InList(list', id) => requested'[id] # 0
  BY <1>1, Zenon DEF IInv, Announced
<1>. QED
  BY <1>2, <1>4, <1>5, <1>6, Zenon DEF IInv, Announced

LEMMA StartProcessingStep ==
    ASSUME IInv, StartProcessing
    PROVE  IInv'
<1>1. ListOK(list') /\ Announced'
  BY ListUntouched, ZenonT(30) DEF StartProcessing
<1>2. TypesRest' /\ stale' = FALSE /\ Held'
  BY RepeatedAssumption DEF IInv, TypesRest, Held, StartProcessing
<1>. QED
  BY <1>1, <1>2, Zenon DEF IInv

LEMMA BeginEntryStep ==
    ASSUME IInv, BeginEntry
    PROVE  IInv'
<1>1. ListOK(list') /\ Announced'
  BY ListUntouched, ZenonT(30) DEF BeginEntry
<1>2. list \in Seq(Entry) /\ list # <<>> /\ list[1].nextTime <= current
  BY DEF IInv, ListOK, BeginEntry, Due
<1>3. list[1] \in Entry
  BY <1>2
<1>4. tw' \in Nat
  BY <1>3, RepeatedAssumption DEF BeginEntry, Entry
<1>5. TypesRest' /\ stale' = FALSE
  BY <1>4 DEF IInv, TypesRest, BeginEntry
<1>6. Held'
  BY <1>2 DEF Held, HeadDue, BeginEntry
<1>. QED
  BY <1>1, <1>5, <1>6, Zenon DEF IInv

LEMMA BeginJobStep ==
    ASSUME IInv, BeginJob
    PROVE  IInv'
<1>1. ListOK(list') /\ Announced'
  BY ListUntouched, ZenonT(30) DEF BeginJob
<1>2. TypesRest' /\ stale' = FALSE
  BY DEF IInv, TypesRest, BeginJob
<1>3. Held'
  BY DEF IInv, Held, BeginJob
<1>. QED
  BY <1>1, <1>2, <1>3, Zenon DEF IInv

LEMMA EndJobStep ==
    ASSUME IInv, EndJob
    PROVE  IInv'
<1>1. ListOK(list') /\ Announced'
  BY ListUntouched, Zenon DEF EndJob
<1>2. TypesRest' /\ stale' = FALSE
  BY DEF IInv, TypesRest, EndJob
<1>3. Held'
  BY DEF IInv, Held, EndJob
<1>. QED
  BY <1>1, <1>2, <1>3, Zenon DEF IInv

LEMMA EndEntryStep ==
    ASSUME IInv, EndEntry
    PROVE  IInv'
<1>1. /\ phase = "entry" /\ list' = MovedBack(list) /\ phase' = "process"
      /\ UNCHANGED <<multithreading, stack, requests, requested, removed, current, tw, index, stale>>
  BY DEF EndEntry
<1>2. list # <<>> /\ list[1].nextTime <= current
  BY <1>1 DEF IInv, Held, HeadDue
<1>3. current \in Int /\ current <= 0 /\ ListOK(list)
  BY RepeatedAssumption DEF IInv, TypesRest
<1>4. ListOK(list') /\ \A j : InList(list', j) => InList(list, j)
  BY <1>1, <1>2, <1>3, MovedBackOK, ZenonT(30)
<1>5. Announced'
  BY <1>1, <1>4, AnnouncedKeeps, ZenonT(30) DEF IInv
<1>6. TypesRest' /\ stale' = FALSE /\ Held'
  BY <1>1 DEF IInv, TypesRest, Held
<1>. QED
  BY <1>4, <1>5, <1>6, ZenonT(30) DEF IInv

LEMMA EndPassStep ==
    ASSUME IInv, EndPass
    PROVE  IInv'
<1>1. ListOK(list') /\ Announced'
  BY ListUntouched, Zenon DEF EndPass
<1>2. TypesRest' /\ stale' = FALSE /\ Held'
  BY DEF IInv, TypesRest, Held, EndPass
<1>. QED
  BY <1>1, <1>2, Zenon DEF IInv

LEMMA DeleteAllStep ==
    ASSUME IInv, DeleteAll
    PROVE  IInv'
<1>1. /\ list' = <<>> /\ phase' = "deleted"
      /\ UNCHANGED <<multithreading, stack, requests, requested, removed, current, tw, index, stale>>
  BY DEF DeleteAll
<1>2. list' \in Seq(Entry) /\ 1 .. Len(list') = {}
  BY <1>1
<1>3. ListOK(list') /\ \A j : ~InList(list', j)
  BY <1>2, Zenon DEF ListOK, Sorted, IntervalsOnce, InReach, JobsOnce, JobsApart, InList
<1>4. Announced'
  BY <1>1, <1>3, AnnouncedKeeps, ZenonT(30) DEF IInv
<1>5. TypesRest' /\ stale' = FALSE /\ Held'
  BY <1>1 DEF IInv, TypesRest, Held
<1>. QED
  BY <1>3, <1>4, <1>5, Zenon DEF IInv

LEMMA TickStep ==
    ASSUME IInv, Tick
    PROVE  IInv'
<1>1. /\ list' = [i \in 1 .. Len(list) |-> [list[i] EXCEPT !.nextTime = @ - 1]]
      /\ current > -LateBound
      /\ current' = IF phase \in {"idle", "requests", "deleted"} THEN 0 ELSE current - 1
      /\ UNCHANGED <<multithreading, stack, requests, requested, removed, phase, tw, index, stale>>
  BY DEF Tick
<1>2. /\ ListOK(list') /\ \A j : InList(list', j) => InList(list, j)
      /\ list # <<>> => /\ list' # <<>> /\ list'[1].interval = list[1].interval
                        /\ list'[1].nextTime = list[1].nextTime - 1
  BY <1>1, TickOK, ZenonT(30) DEF IInv
<1>3. Announced'
  BY <1>1, <1>2, AnnouncedKeeps, ZenonT(30) DEF IInv
<1>4. current \in Int /\ current' \in -LateBound .. 0
  BY <1>1, RepeatedAssumption, SMTT(30) DEF IInv, TypesRest
<1>5. TypesRest' /\ stale' = FALSE
  BY <1>1, <1>4 DEF IInv, TypesRest
<1>6. Held'
  <2>. SUFFICES ASSUME phase \in {"entry", "job"}
                PROVE  HeadDue(list', tw, current')
    BY <1>1 DEF Held
  <2>1. list # <<>> /\ list[1].interval = tw /\ list[1].nextTime <= current
    BY DEF IInv, Held, HeadDue
  <2>2. list[1].nextTime \in Int
    <3>1. list \in Seq(Entry)
      BY DEF IInv, ListOK
    <3>2. list[1] \in Entry
      BY <2>1, <3>1
    <3>. QED
      BY <3>2 DEF Entry
  <2>3. current' = current - 1
    BY <1>1
  <2>. QED
    BY <1>2, <1>4, <2>1, <2>2, <2>3 DEF HeadDue
<1>. QED
  BY <1>2, <1>3, <1>5, <1>6, ZenonT(30) DEF IInv

LEMMA InvStep ==
    ASSUME EntryKept, IInv, [Next]_vars
    PROVE  IInv'
<1>1. CASE UNCHANGED vars
  <2>1. ListOK(list') /\ Announced'
    BY <1>1, ListUntouched, Zenon DEF vars
  <2>2. TypesRest' /\ stale' = FALSE /\ Held'
    BY <1>1 DEF IInv, TypesRest, Held, vars
  <2>. QED
    BY <2>1, <2>2, Zenon DEF IInv
<1>2. CASE MainLoop
  BY <1>2, StartPassStep, MainLoopJobStep, StartProcessingStep, BeginEntryStep, BeginJobStep,
     EndJobStep, EndEntryStep, EndPassStep, Zenon DEF MainLoop
<1>3. CASE \E id \in Ids : RemoveRepeatedJob(id) \/ \E ms \in Intervals : AddRepeatedJob(id, ms)
  BY <1>3, RequestsStep, Zenon
<1>. QED
  BY <1>1, <1>2, <1>3, TickStep, DeleteAllStep, ZenonT(30) DEF Next

-----------------------------------------------------------------------------
(* The results *)

\* The timer list is well formed in every state, whatever jobs, intervals and threads there
\* are, as long as no job adds to or empties the entry it is executed from; then the entry that
\* processRepeatedJobs holds a pointer to also stays where it is.
THEOREM ListSound ==
    ASSUME EntryKept
    PROVE  Spec => [](ListInv /\ EntryStays)
<1>1. Init => IInv
  BY InvInit
<1>2. IInv /\ [Next]_vars => IInv'
  BY InvStep, Zenon
<1>3. IInv => ListInv /\ EntryStays
  BY InvImplies DEF IInv, EntryStays
<1>. QED
  BY <1>1, <1>2, <1>3, PTL DEF Spec

\* processRepeatedJobs stops at the first entry that is not due; the list being sorted, no
\* entry behind it is due either.
THEOREM NothingLeftOverdue ==
    ASSUME EntryKept
    PROVE  Spec => NothingOverdue
<1>1. Init => IInv
  BY InvInit
<1>2. IInv /\ [Next]_vars => IInv'
  BY InvStep, Zenon
<1>3. ASSUME IInv, [Next]_vars
      PROVE  [EndPass => \A i \in 1 .. Len(list) : list[i].nextTime > current]_vars
  <2>. SUFFICES ASSUME EndPass, NEW i \in 1 .. Len(list)
                PROVE  list[i].nextTime > current
    OBVIOUS
  <2>1. list \in Seq(Entry) /\ Len(list) \in Nat /\ 1 \in 1 .. Len(list) /\ current \in Int
    BY <1>3, RepeatedAssumption DEF IInv, ListOK, TypesRest
  <2>2. list[i] \in Entry /\ list[1] \in Entry
    BY <2>1
  <2>3. list[i].nextTime \in Int /\ list[1].nextTime \in Int
    BY <2>2 DEF Entry
  <2>4. list[1].nextTime > current
    BY <2>1, <2>3 DEF EndPass, Due
  <2>5. CASE i = 1
    BY <2>4, <2>5
  <2>6. CASE 1 < i
    <3>1. list[1].nextTime <= list[i].nextTime
      BY <1>3, <2>1, <2>6, Zenon DEF IInv, ListOK, Sorted
    <3>. QED
      BY <2>1, <2>3, <2>4, <3>1
  <2>. QED
    BY <2>1, <2>5, <2>6
<1>. QED
  BY <1>1, <1>2, <1>3, PTL DEF Spec, NothingOverdue
=============================================================================
