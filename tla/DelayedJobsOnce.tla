--------------------------- MODULE DelayedJobsOnce ---------------------------
(***************************************************************************)
(* No job of DelayedJobs is lost, and no normal job is executed twice.     *)
(***************************************************************************)
EXTENDS DelayedJobsProofs

-----------------------------------------------------------------------------
(* Every job is in one place *)

\* A job of the network layer that is still to be executed where it is.
Works(j) == j.type \in {"NORMAL", "DELAYED"}
Holds(s, n) == \E i \in 1 .. Len(s) : Works(s[i]) /\ s[i].num = n

\* No job is twice in s, in s and in r.
Distinct(s) == \A i, j \in 1 .. Len(s) : Works(s[i]) /\ Works(s[j]) /\ s[i].num = s[j].num => i = j
Apart(s, r) == \A i \in 1 .. Len(s), j \in 1 .. Len(r) : Works(s[i]) /\ Works(r[j]) => s[i].num # r[j].num

\* The jobs of s have numbers below b that are not in X.
Fresh(s, b, X) == \A i \in 1 .. Len(s) : Works(s[i]) => s[i].num \in 1 .. b - 1 /\ s[i].num \notin X

InQueueOnce(q) ==
    /\ \A k \in 1 .. Len(q) : Distinct(q[k])
    /\ \A k, m \in 1 .. Len(q) : k # m => Apart(q[k], q[m])
InHandOnce(h) ==
    /\ \A t \in Threads : Distinct(h[t])
    /\ \A t, u \in Threads : t # u => Apart(h[t], h[u])
QueueApart(q, h) == \A t \in Threads, k \in 1 .. Len(q) : Apart(h[t], q[k])
AllFresh(q, h, b, X) ==
    /\ \A k \in 1 .. Len(q) : Fresh(q[k], b, X)
    /\ \A t \in Threads : Fresh(h[t], b, X)

\* The jobs that were executed or are in an entry.
Used == done \cup DelayedNumbers

PlacesOK ==
    /\ InQueueOnce(queue)
    /\ InHandOnce(jobs)
    /\ QueueApart(queue, jobs)
    /\ AllFresh(queue, jobs, Base, Used)

\* The jobs of the array are not executed yet, and not in an entry unless they were filtered.
NumbersOK ==
    /\ done \subseteq 1 .. Base - 1 \cup DelayedNumbers
    /\ DelayedNumbers \subseteq 1 .. nextJob - 1
    /\ \A i \in 1 .. Len(array) : Works(array[i]) => array[i].num \notin DelayedNumbers

TodoListed == \A t \in Threads : \A i \in 1 .. Len(todo[t]) : todo[t][i].num \in DelayedNumbers

\* No job is lost.
Placed(n) ==
    \/ n \in Used
    \/ Holds(array, n)
    \/ \E k \in 1 .. Len(queue) : Holds(queue[k], n)
    \/ \E t \in Threads : Holds(jobs[t], n)
Accounted == \A n \in 1 .. nextJob - 1 : Placed(n)

OnceInv == PlacesOK /\ NumbersOK /\ TodoListed /\ Accounted

LEMMA DelayedMember ==
    ASSUME NEW n
    PROVE  n \in DelayedNumbers <=>
              \E e \in 1 .. Len(entries) : \E i \in 1 .. Len(entries[e].jobs) : entries[e].jobs[i].num = n
BY DEF DelayedNumbers, Elements

LEMMA DelayedMemberNext ==
    ASSUME NEW n
    PROVE  n \in DelayedNumbers' <=>
              \E e \in 1 .. Len(entries') : \E i \in 1 .. Len(entries'[e].jobs) : entries'[e].jobs[i].num = n
<1>1. ASSUME NEW es
      PROVE  n \in UNION {{j.num : j \in Elements(e.jobs)} : e \in Elements(es)}
                <=> \E e \in 1 .. Len(es) : \E i \in 1 .. Len(es[e].jobs) : es[e].jobs[i].num = n
  BY DEF Elements
<1>2. DelayedNumbers' = UNION {{j.num : j \in Elements(e.jobs)} : e \in Elements(entries')}
  BY Zenon DEF DelayedNumbers, Elements
<1>. QED
  BY <1>1, <1>2, Zenon

LEMMA DelayedSame ==
    ASSUME Len(entries') = Len(entries), \A e \in 1 .. Len(entries) : entries'[e].jobs = entries[e].jobs
    PROVE  DelayedNumbers' = DelayedNumbers
<1>1. ASSUME NEW n
      PROVE  n \in DelayedNumbers <=> n \in DelayedNumbers'
  BY DelayedMember, DelayedMemberNext, Zenon
<1>. QED
  BY <1>1, Zenon

\* The numbers of the delayed jobs change only when one is filtered.
LEMMA DelayedFilter ==
    ASSUME StructInv, Filter
    PROVE  \E k \in 1 .. Len(array) :
              /\ array[k].type = "DELAYED"
              /\ array' = [array EXCEPT ![k].type = "NOTHING"]
              /\ DelayedNumbers' = DelayedNumbers \cup {array[k].num}
<1>0. entries \in Seq(Entry) /\ Len(entries) \in Nat
  BY DEF StructInv, TypeOK, Entry
<1>1. PICK k \in 1 .. Len(array) :
         /\ array[k].type = "DELAYED"
         /\ array' = [array EXCEPT ![k].type = "NOTHING"]
         /\ \/ /\ Len(entries) > 0
               /\ Len(entries') = Len(entries)
               /\ \A e \in 1 .. Len(entries) :
                     entries'[e].jobs = IF e = Len(entries) THEN Append(entries[e].jobs, array[k])
                                        ELSE entries[e].jobs
            \/ /\ Len(entries') = Len(entries) + 1
               /\ \A e \in 1 .. Len(entries) : entries'[e] = entries[e]
               /\ entries'[Len(entries) + 1].jobs = <<array[k]>>
  BY FilterEntries
<1> DEFINE m == array[k].num
           In(n) == \E e \in 1 .. Len(entries) : \E i \in 1 .. Len(entries[e].jobs) : entries[e].jobs[i].num = n
           InNext(n) == \E e \in 1 .. Len(entries') : \E i \in 1 .. Len(entries'[e].jobs) : entries'[e].jobs[i].num = n
<1>2. \A n : n \in DelayedNumbers <=> In(n)
  BY DelayedMember, Zenon
<1>3. \A n : n \in DelayedNumbers' <=> InNext(n)
  BY DelayedMemberNext, Zenon
<1>4. ASSUME NEW n
      PROVE  InNext(n) <=> In(n) \/ n = m
  <2>1. CASE Len(entries) > 0 /\ Len(entries') = Len(entries)
             /\ \A e \in 1 .. Len(entries) :
                     entries'[e].jobs = IF e = Len(entries) THEN Append(entries[e].jobs, array[k])
                                        ELSE entries[e].jobs
    <3> DEFINE h == Len(entries)
               s == entries[h].jobs
    <3>1. h \in 1 .. Len(entries) /\ s \in Seq(Jobs) /\ entries'[h].jobs = Append(s, array[k])
      <4>1. h \in 1 .. Len(entries)
        BY <1>0, <2>1
      <4>2. entries[h] \in Entry
        BY <1>0, <4>1
      <4>. QED
        BY <2>1, <4>1, <4>2, Zenon DEF Entry
    <3>2. \A e \in 1 .. h : e # h => entries'[e].jobs = entries[e].jobs
      BY <2>1
    <3>3. Len(entries') = h
      BY <2>1
    <3> HIDE DEF h, s
    <3>4. Len(entries'[h].jobs) = Len(s) + 1 /\ Len(s) \in Nat /\ Append(s, array[k])[Len(s) + 1] = array[k]
          /\ \A i \in 1 .. Len(s) : Append(s, array[k])[i] = s[i]
      BY <3>1
    <3>5. ASSUME In(n) PROVE InNext(n)
      <4>1. PICK e \in 1 .. Len(entries) : \E i \in 1 .. Len(entries[e].jobs) : entries[e].jobs[i].num = n
        BY <3>5
      <4>2. CASE e = h
        <5>1. PICK i \in 1 .. Len(s) : s[i].num = n
          BY <4>1, <4>2 DEF s
        <5>2. i \in 1 .. Len(entries'[h].jobs) /\ entries'[h].jobs[i].num = n
          BY <3>1, <3>4, <5>1
        <5>. QED
          BY <3>1, <3>3, <5>2, Zenon DEF h
      <4>3. CASE e # h
        BY <3>2, <3>3, <4>1, <4>3 DEF h
      <4>. QED
        BY <4>2, <4>3
    <3>6. ASSUME n = m PROVE InNext(n)
      <4>1. Len(s) + 1 \in 1 .. Len(entries'[h].jobs) /\ entries'[h].jobs[Len(s) + 1].num = n
        BY <3>1, <3>4, <3>6
      <4>. QED
        BY <3>1, <3>3, <4>1 DEF h
    <3>7. ASSUME InNext(n) PROVE In(n) \/ n = m
      <4>1. PICK e \in 1 .. Len(entries') : \E i \in 1 .. Len(entries'[e].jobs) : entries'[e].jobs[i].num = n
        BY <3>7
      <4>2. CASE e = h
        <5>1. PICK i \in 1 .. Len(entries'[h].jobs) : entries'[h].jobs[i].num = n
          BY <4>1, <4>2
        <5>2. i \in 1 .. Len(s) \/ i = Len(s) + 1
          BY <3>4, <5>1
        <5>3. (i \in 1 .. Len(s) /\ s[i].num = n) \/ n = m
          BY <3>1, <3>4, <5>1, <5>2
        <5>. QED
          BY <3>1, <5>3 DEF s
      <4>3. CASE e # h
        BY <3>2, <3>3, <4>1, <4>3, Zenon DEF h
      <4>. QED
        BY <4>2, <4>3
    <3>. QED
      BY <3>5, <3>6, <3>7
  <2>2. CASE Len(entries') = Len(entries) + 1 /\ (\A e \in 1 .. Len(entries) : entries'[e] = entries[e])
             /\ entries'[Len(entries) + 1].jobs = <<array[k]>>
    <3> DEFINE h == Len(entries)
    <3>1. h \in Nat /\ Len(entries') = h + 1 /\ entries'[h + 1].jobs = <<array[k]>>
      BY <1>0, <2>2
    <3>2. \A e \in 1 .. h : entries'[e] = entries[e] /\ e \in 1 .. h + 1
      BY <1>0, <2>2
    <3>3. \A e \in 1 .. h + 1 : e \in 1 .. h \/ e = h + 1
      BY <3>1
    <3>4. (\E i \in 1 .. Len(entries'[h + 1].jobs) : entries'[h + 1].jobs[i].num = n) <=> n = m
      BY <3>1
    <3>5. h + 1 \in 1 .. h + 1
      BY <3>1
    <3>6. InNext(n) <=> \E e \in 1 .. h + 1 : \E i \in 1 .. Len(entries'[e].jobs) : entries'[e].jobs[i].num = n
      BY <3>1
    <3>. QED
      <4>1. ASSUME In(n)
            PROVE  InNext(n)
        BY <3>2, <3>6, <4>1, Zenon
      <4>2. ASSUME n = m
            PROVE  InNext(n)
        BY <3>4, <3>5, <3>6, <4>2, Zenon
      <4>3. ASSUME InNext(n)
            PROVE  In(n) \/ n = m
        BY <3>2, <3>3, <3>4, <3>6, <4>3, Zenon
      <4>. QED
        BY <4>1, <4>2, <4>3
  <2>. QED
    BY <1>1, <2>1, <2>2
<1>5. DelayedNumbers' = DelayedNumbers \cup {m}
  <2> HIDE DEF m, In, InNext
  <2>. QED
    BY <1>2, <1>3, <1>4
<1>. QED
  BY <1>1, <1>5, Zenon

LEMMA DelayedStep ==
    ASSUME StructInv, [Next]_vars
    PROVE  Filter \/ DelayedNumbers' = DelayedNumbers
<1>1. CASE UNCHANGED entries
  BY <1>1 DEF DelayedNumbers, Elements
<1>2. ASSUME NEW t \in Threads, SetCounters(t)
      PROVE  DelayedNumbers' = DelayedNumbers
  BY <1>2, SetCountersEntries, DelayedSame
<1>3. ASSUME NEW t \in Threads, Unlink(t)
      PROVE  DelayedNumbers' = DelayedNumbers
  BY <1>3, UnlinkEntries, DelayedSame
<1>. QED
  BY <1>1, <1>2, <1>3, EntriesFrame

\* How jobs are executed: as the first one of a batch, or from an entry.
Execute(t) == Finish(t) /\ Works(jobs[t][1]) /\ done' = done \cup {jobs[t][1].num} /\ UNCHANGED <<array, nextJob>>
Pass(t) == Finish(t) /\ ~Works(jobs[t][1]) /\ UNCHANGED <<array, nextJob, done>>
ExecuteListed(n) == n \in DelayedNumbers /\ done' = done \cup {n} /\ UNCHANGED <<queue, jobs, array, nextJob>>

LEMMA JobMoves ==
    ASSUME StructInv, TodoListed, [Next]_vars
    PROVE  \/ UNCHANGED <<queue, jobs, array, nextJob, done>>
           \/ GetJobs \/ Filter \/ Dispatch \/ StopNetwork
           \/ \E b : Ask(b) /\ UNCHANGED <<array, nextJob, done>>
           \/ \E t \in Threads : Take(t) /\ UNCHANGED <<array, nextJob, done>>
           \/ \E t \in Threads : Execute(t) \/ Pass(t)
           \/ \E n : ExecuteListed(n)
<1>0. \A t \in Threads : todo[t] \in Seq(Jobs)
  BY DEF StructInv, TypeOK
<1>1. CASE Stop \/ Check \/ Join \/ UNCHANGED vars
  BY <1>1 DEF Stop, Check, Join, queueVars, threadVars, vars
<1>2. CASE Repeated
  <2>1. UNCHANGED <<array, nextJob, done, jobs>>
    BY <1>2 DEF Repeated, threadVars
  <2>2. \A t \in Threads : ~Take(t) /\ ~Finish(t)
    <3>1. ASSUME NEW t \in Threads, Finish(t)
          PROVE  FALSE
      <4>1. jobs'[t] = jobs[t] /\ Len(jobs'[t]) = Len(jobs[t]) - 1 /\ Len(jobs[t]) \in Nat
        BY <2>1, <3>1, FinishEffect
      <4>. QED
        BY <4>1
    <3>2. ASSUME NEW t \in Threads, Take(t)
          PROVE  FALSE
      <4>1. Len(queue') = Len(queue) - 1 /\ Len(queue) \in Nat
        BY <3>2, TakeEffect DEF StructInv
      <4>2. queue \in Seq(Seq(Jobs)) /\ (queue' = queue \/ queue' = Append(queue, <<Job("DISPATCHDELAYED", 0, 0)>>))
        BY <1>2 DEF Repeated, StructInv, TypeOK
      <4>3. Len(queue') = Len(queue) \/ Len(queue') = Len(queue) + 1
        BY <4>2
      <4>. QED
        BY <4>1, <4>3
    <3>. QED
      BY <3>1, <3>2
  <2>3. ~Dispatch /\ ~StopNetwork
    BY <1>2 DEF Repeated, Dispatch, StopNetwork
  <2>. QED
    BY <2>1, <2>2, <2>3, Moves
<1>3. CASE EmptyQueue
  <2>1. UNCHANGED <<array, nextJob, done>> /\ (Take(Main) \/ UNCHANGED <<jobs, queue>>)
    BY <1>3 DEF EmptyQueue, Take
  <2>. QED
    BY <2>1, ThreadKinds
<1>4. ASSUME NEW t \in Threads, todo[t] # <<>>, Executed(Head(todo[t]).num), UNCHANGED <<queue, jobs, array, nextJob>>
      PROVE  ExecuteListed(Head(todo[t]).num)
  <2>1. Head(todo[t]) = todo[t][1] /\ 1 \in 1 .. Len(todo[t])
    BY <1>0, <1>4
  <2>2. Head(todo[t]).num \in DelayedNumbers
    BY <2>1 DEF TodoListed
  <2>. QED
    BY <1>4, <2>2 DEF ExecuteListed, Executed
<1>5. CASE Remaining
  BY <1>4, <1>5, ThreadKinds DEF Remaining, queueVars
<1>6. ASSUME NEW w \in Workers, LoopCheck(w) \/ Dequeue(w) \/ EndBatch(w) \/ Count(w)
      PROVE  UNCHANGED <<array, nextJob, done>> /\ (UNCHANGED <<queue, jobs>> \/ Take(w))
  <2>1. pc[w] = "dequeue" => jobs[w] = <<>>
    BY ThreadKinds, BatchOf DEF ThreadOK
  <2>. QED
    BY <1>6, <2>1 DEF LoopCheck, Dequeue, EndBatch, Count, queueVars, delayedVars, mainVars, Take
<1>7. ASSUME NEW t \in Threads,
             \/ RunJob(t) \/ ReadCounter(t) \/ SetCounters(t) \/ StartFind(t)
             \/ Find(t) \/ RunDelayed(t) \/ Unlink(t)
      PROVE  \/ UNCHANGED <<queue, jobs, array, nextJob, done>>
             \/ Execute(t) \/ Pass(t)
             \/ \E n : ExecuteListed(n)
  <2>1. UNCHANGED <<queue, array, nextJob>>
    BY <1>7 DEF RunJob, ReadCounter, SetCounters, StartFind, Find, RunDelayed, Unlink, queueVars, mainVars
  <2>2. jobs[t] \in Seq(Jobs)
    BY BatchOf
  <2>3. jobs[t] # <<>> => Head(jobs[t]) = jobs[t][1]
    BY <2>2
  <2>4. CASE RunJob(t)
    <3>1. Finish(t)
      BY <2>1, <2>4 DEF RunJob, Finish
    <3>2. CASE Head(jobs[t]).type = "NOTHING" /\ UNCHANGED done
      <4>1. ~Works(jobs[t][1])
        BY <2>3, <3>1, <3>2 DEF Works, Finish
      <4>. QED
        BY <2>1, <3>1, <3>2, <4>1 DEF Pass
    <3>3. CASE Head(jobs[t]).type \in {"NORMAL", "DELAYED"} /\ Executed(Head(jobs[t]).num)
      <4>1. Works(jobs[t][1])
        BY <2>3, <3>1, <3>3 DEF Works, Finish
      <4>2. done' = done \cup {jobs[t][1].num}
        BY <2>3, <3>1, <3>3 DEF Executed, Finish
      <4>. QED
        BY <2>1, <3>1, <4>1, <4>2 DEF Execute
    <3>. QED
      BY <2>4, <3>2, <3>3 DEF RunJob
  <2>5. CASE ReadCounter(t) \/ StartFind(t)
    BY <2>1, <2>5 DEF ReadCounter, StartFind
  <2>6. CASE SetCounters(t)
    <3>1. Finish(t) /\ UNCHANGED done
      BY <2>1, <2>6 DEF SetCounters, Finish
    <3>2. ~Works(jobs[t][1])
      BY <2>3, <2>6 DEF Works, SetCounters
    <3>. QED
      BY <2>1, <3>1, <3>2 DEF Pass
  <2>7. CASE Find(t) \/ Unlink(t)
    <3>1. Looks(jobs[t])
      BY <2>7, BatchOf DEF Find, Unlink, ThreadOK
    <3>2. ~Works(jobs[t][1]) /\ jobs[t] # <<>>
      BY <3>1 DEF Works, Looks
    <3>3. UNCHANGED done /\ (UNCHANGED jobs \/ NextOf(t))
      BY <2>7 DEF Find, Unlink
    <3>. QED
      BY <2>1, <3>2, <3>3 DEF Pass, Finish
  <2>8. CASE RunDelayed(t)
    <3>1. todo[t] # <<>> /\ Executed(Head(todo[t]).num) /\ UNCHANGED jobs
      BY <2>8 DEF RunDelayed
    <3>. QED
      BY <1>4, <2>1, <3>1
  <2>. QED
    BY <1>7, <2>4, <2>5, <2>6, <2>7, <2>8
<1>. QED
  BY <1>1, <1>2, <1>3, <1>5, <1>6, <1>7, Steps, ThreadKinds, Zenon

\* What a thread finds in an entry is delayed.
LEMMA TodoListedStep ==
    ASSUME StructInv, TodoListed, [Next]_vars
    PROVE  TodoListed'
<1>0. todo \in [Threads -> Seq(Jobs)] /\ dw \in [Threads -> Nat] /\ Len(entries) \in Nat
  BY DEF StructInv, TypeOK
<1>1. DelayedNumbers \subseteq DelayedNumbers'
  BY DelayedStep, DelayedFilter
<1>2. ASSUME NEW e \in 1 .. Len(entries), NEW i \in 1 .. Len(entries[e].jobs)
      PROVE  entries[e].jobs[i].num \in DelayedNumbers
  BY DelayedMember
<1>3. ASSUME NEW t \in Threads, NEW d, todo' = [todo EXCEPT ![t] = d], \A i \in 1 .. Len(d) : d[i].num \in DelayedNumbers
      PROVE  TodoListed'
  <2>1. \A u \in Threads : todo'[u] = IF u = t THEN d ELSE todo[u]
    BY <1>0, <1>3
  <2>. QED
    BY <1>1, <1>3, <2>1 DEF TodoListed
<1>4. ASSUME NEW t \in Threads, NEW e \in 1 .. Len(entries), todo' = [todo EXCEPT ![t] = entries[e].jobs]
      PROVE  TodoListed'
  BY <1>2, <1>3, <1>4, Zenon
<1>5. CASE UNCHANGED todo
  BY <1>1, <1>5 DEF TodoListed
<1>6. ASSUME NEW t \in Threads, todo[t] # <<>>, todo' = [todo EXCEPT ![t] = Tail(@)]
      PROVE  TodoListed'
  <2>1. \A i \in 1 .. Len(Tail(todo[t])) : Tail(todo[t])[i] = todo[t][i + 1] /\ i + 1 \in 1 .. Len(todo[t])
    BY <1>0, <1>6
  <2>2. \A i \in 1 .. Len(Tail(todo[t])) : Tail(todo[t])[i].num \in DelayedNumbers
    BY <2>1 DEF TodoListed
  <2>. QED
    BY <1>3, <1>6, <2>2, Zenon
<1>7. ASSUME NEW t \in Threads, todo' = [todo EXCEPT ![t] = <<>>]
      PROVE  TodoListed'
  <2>1. \A i \in 1 .. Len(<<>>) : <<>>[i].num \in DelayedNumbers
    OBVIOUS
  <2>. QED
    BY <1>3, <1>7, <2>1, Zenon
<1>8. CASE Stop \/ Check \/ Repeated \/ GetJobs \/ Filter \/ Dispatch \/ StopNetwork \/ Join \/ UNCHANGED vars
  BY <1>5, <1>8 DEF Stop, Check, Repeated, GetJobs, Filter, Dispatch, StopNetwork, Join,
                    threadVars, delayedVars, vars
<1>9. ASSUME NEW w \in Workers, LoopCheck(w) \/ Dequeue(w) \/ EndBatch(w) \/ Count(w)
      PROVE  TodoListed'
  BY <1>5, <1>9 DEF LoopCheck, Dequeue, EndBatch, Count, delayedVars
<1>10. CASE EmptyQueue
  <2>1. CASE UNCHANGED todo
    BY <1>5, <2>1
  <2>2. CASE entries = <<>> /\ todo' = [todo EXCEPT ![Main] = <<>>]
    BY <1>7, <2>2, ThreadKinds, Zenon
  <2>3. CASE entries # <<>> /\ todo' = [todo EXCEPT ![Main] = entries[Len(entries)].jobs]
    <3>1. Len(entries) \in 1 .. Len(entries)
      BY <2>3 DEF StructInv, TypeOK
    <3>. QED
      BY <1>4, <2>3, <3>1, ThreadKinds, Zenon
  <2>. QED
    BY <1>10, <2>1, <2>2, <2>3 DEF EmptyQueue
<1>11. CASE Remaining
  <2>1. CASE todo[Main] # <<>> /\ todo' = [todo EXCEPT ![Main] = Tail(@)]
    BY <1>6, <2>1, ThreadKinds, Zenon
  <2>2. CASE UNCHANGED todo
    BY <1>5, <2>2
  <2>3. CASE dw[Main] # NoEntry /\ LET next == entries[dw[Main]].next
                                   IN  todo' = [todo EXCEPT ![Main] = IF next = NoEntry THEN <<>> ELSE entries[next].jobs]
    <3> DEFINE next == entries[dw[Main]].next
    <3>1. dw[Main] \in 1 .. Len(entries)
      BY <1>0, <1>11, <2>3 DEF Remaining, NoEntry, StructInv, PhaseOK
    <3>2. next # NoEntry => next \in 1 .. Len(entries)
      BY <3>1, NextEntry
    <3>3. CASE next = NoEntry
      BY <1>7, <2>3, <3>3, ThreadKinds, Zenon
    <3>4. CASE next # NoEntry
      BY <1>4, <2>3, <3>2, <3>4, ThreadKinds, Zenon
    <3>. QED
      BY <3>3, <3>4
  <2>. QED
    BY <1>11, <2>1, <2>2, <2>3 DEF Remaining
<1>12. ASSUME NEW t \in Threads, RunJob(t) \/ ReadCounter(t) \/ SetCounters(t) \/ StartFind(t)
       PROVE  TodoListed'
  BY <1>5, <1>12 DEF RunJob, ReadCounter, SetCounters, StartFind, delayedVars
<1>13. ASSUME NEW t \in Threads, Find(t)
       PROVE  TodoListed'
  <2>1. CASE UNCHANGED todo
    BY <1>5, <2>1
  <2>2. CASE dw[t] # NoEntry /\ todo' = [todo EXCEPT ![t] = entries[dw[t]].jobs]
    <3>1. before[t] = dw[t] + 1 /\ before[t] <= Len(entries)
      BY <1>13, <2>2, BatchOf DEF Find, ThreadOK
    <3>2. dw[t] \in 1 .. Len(entries)
      BY <1>0, <2>2, <3>1 DEF NoEntry
    <3>. QED
      BY <1>4, <2>2, <3>2, Zenon
  <2>. QED
    BY <1>13, <2>1, <2>2 DEF Find, delayedVars
<1>14. ASSUME NEW t \in Threads, RunDelayed(t)
       PROVE  TodoListed'
  BY <1>6, <1>14, Zenon DEF RunDelayed
<1>15. ASSUME NEW t \in Threads, Unlink(t)
       PROVE  TodoListed'
  <2> DEFINE next == entries[before[t]].next
  <2>1. before[t] \in 1 .. Len(entries)
    BY <1>15, UnlinkEntries
  <2>2. next # NoEntry => next \in 1 .. Len(entries)
    BY <2>1, NextEntry
  <2>3. UNCHANGED todo \/ (next # NoEntry /\ todo' = [todo EXCEPT ![t] = entries[next].jobs])
    BY <1>15 DEF Unlink
  <2>. QED
    BY <1>4, <1>5, <2>2, <2>3
<1>. QED
  BY <1>8, <1>9, <1>10, <1>11, <1>12, <1>13, <1>14, <1>15, Steps

\* r is the part of s that begins behind the o-th job.
PartOf(r, s, o) == \A i \in 1 .. Len(r) : i + o \in 1 .. Len(s) /\ r[i] = s[i + o]
Idle(s) == \A i \in 1 .. Len(s) : ~Works(s[i])

LEMMA PartLemma ==
    ASSUME NEW r, NEW s, NEW o \in Nat, PartOf(r, s, o), Len(r) \in Nat
    PROVE  /\ Distinct(s) => Distinct(r)
           /\ \A x : Apart(s, x) => Apart(r, x)
           /\ \A x : Apart(x, s) => Apart(x, r)
           /\ \A b, X : Fresh(s, b, X) => Fresh(r, b, X)
<1>1. ASSUME Distinct(s)
      PROVE  Distinct(r)
  <2> SUFFICES ASSUME NEW i \in 1 .. Len(r), NEW j \in 1 .. Len(r), Works(r[i]), Works(r[j]), r[i].num = r[j].num
               PROVE  i = j
    BY DEF Distinct
  <2>1. i + o \in 1 .. Len(s) /\ r[i] = s[i + o] /\ j + o \in 1 .. Len(s) /\ r[j] = s[j + o]
    BY DEF PartOf
  <2>2. i + o = j + o
    BY <1>1, <2>1, Zenon DEF Distinct
  <2>. QED
    BY <2>2
<1>2. ASSUME NEW x, Apart(s, x)
      PROVE  Apart(r, x)
  BY <1>2 DEF Apart, PartOf
<1>3. ASSUME NEW x, Apart(x, s)
      PROVE  Apart(x, r)
  BY <1>3, Zenon DEF Apart, PartOf
<1>4. ASSUME NEW b, NEW X, Fresh(s, b, X)
      PROVE  Fresh(r, b, X)
  BY <1>4 DEF Fresh, PartOf
<1>. QED
  BY <1>1, <1>2, <1>3, <1>4

LEMMA IdleLemma ==
    ASSUME NEW s, Idle(s)
    PROVE  /\ Distinct(s)
           /\ \A x : Apart(s, x) /\ Apart(x, s)
           /\ \A b, X : Fresh(s, b, X)
BY DEF Idle, Distinct, Apart, Fresh

LEMMA EmptyIdle == Idle(<<>>)
BY DEF Idle

LEMMA CallIdle ==
    ASSUME NEW s, NEW n, Call(s, n)
    PROVE  Idle(s)
BY DEF Call, Looks, Asks, Idle, Works

LEMMA ApartSym ==
    ASSUME NEW s, NEW r, Apart(s, r)
    PROVE  Apart(r, s)
BY DEF Apart

\* Numbers that are fresh stay so while no more of them are used.
LEMMA FreshKeeps ==
    ASSUME NEW s, NEW b \in Nat, NEW c \in Nat, b <= c, NEW X, NEW Y,
           \A n \in 1 .. b - 1 : n \in Y => n \in X, Fresh(s, b, X)
    PROVE  Fresh(s, c, Y)
<1> SUFFICES ASSUME NEW i \in 1 .. Len(s), Works(s[i])
             PROVE  s[i].num \in 1 .. c - 1 /\ s[i].num \notin Y
  BY DEF Fresh
<1>1. s[i].num \in 1 .. b - 1 /\ s[i].num \notin X
  BY DEF Fresh
<1>2. s[i].num \notin Y
  BY <1>1
<1>. QED
  BY <1>1, <1>2

\* Jobs of different numbers.
LEMMA FreshApart ==
    ASSUME NEW s, NEW r, NEW b \in Nat, NEW X, Fresh(s, b, X),
           \A i \in 1 .. Len(r) : Works(r[i]) => r[i].num \in Nat /\ r[i].num >= b
    PROVE  Apart(s, r) /\ Apart(r, s)
<1>1. ASSUME NEW i \in 1 .. Len(s), NEW j \in 1 .. Len(r), Works(s[i]), Works(r[j])
      PROVE  s[i].num # r[j].num
  <2>1. s[i].num \in 1 .. b - 1 /\ r[j].num \in Nat /\ r[j].num >= b
    BY <1>1 DEF Fresh
  <2>. QED
    BY <2>1
<1>. QED
  BY <1>1 DEF Apart

\* Only the execution of a dispatched job uses a number below Base.
UsedKept == \A n \in 1 .. Base - 1 : n \in Used' => n \in Used

LEMMA UsedFilter ==
    ASSUME StructInv, Filter
    PROVE  UsedKept /\ Base' = Base
<1>1. PICK k \in 1 .. Len(array) :
         /\ array' = [array EXCEPT ![k].type = "NOTHING"]
         /\ DelayedNumbers' = DelayedNumbers \cup {array[k].num}
  BY DelayedFilter
<1>2. array[k].num = Base + k - 1 /\ Base \in Nat /\ array \in Seq(Jobs)
  BY BaseType DEF StructInv, ArrayOK, TypeOK
<1>3. array[k].num \notin 1 .. Base - 1
  BY <1>2
<1>4. done' = done /\ nextJob' = nextJob
  BY DEF Filter
<1>5. Len(array') = Len(array)
  BY <1>1, <1>2
<1>6. Base' = Base
  BY <1>4, <1>5 DEF Base
<1>. QED
  BY <1>1, <1>3, <1>4, <1>6 DEF UsedKept, Used

LEMMA QuietPlaces ==
    ASSUME StructInv, PlacesOK, [Next]_vars, UsedKept, UNCHANGED <<queue, jobs>>
    PROVE  PlacesOK'
<1>1. Base \in Nat /\ Base' \in Nat /\ Base <= Base'
  BY BaseType, ArrayStep
<1>2. AllFresh(queue, jobs, Base', Used')
  BY <1>1, FreshKeeps, Zenon DEF PlacesOK, AllFresh, UsedKept
<1>. QED
  BY <1>2 DEF PlacesOK

LEMMA AskPlaces ==
    ASSUME StructInv, PlacesOK, [Next]_vars, UsedKept, NEW b, Ask(b)
    PROVE  PlacesOK'
<1>0. TypeOK /\ Len(queue) \in Nat
  BY DEF StructInv, TypeOK
<1>1. Base \in Nat /\ Base' \in Nat /\ Base <= Base'
  BY BaseType, ArrayStep
<1>2. Idle(b) /\ jobs' = jobs
  BY CallIdle DEF Ask
<1>3. Distinct(b) /\ (\A x : Apart(b, x) /\ Apart(x, b)) /\ Fresh(b, Base', Used')
  BY <1>2, IdleLemma
<1>4. \A k \in 1 .. Len(queue') : (k \in 1 .. Len(queue) /\ queue'[k] = queue[k]) \/ queue'[k] = b
  <2>1. \A k \in 1 .. Len(queue') : k \in 1 .. Len(queue) \/ k = Len(queue) + 1
    BY <1>0, AskEffect
  <2>. QED
    BY <1>0, <2>1, AskEffect
<1>5. \A k \in 1 .. Len(queue) : Fresh(queue[k], Base', Used')
  BY <1>1, FreshKeeps, Zenon DEF PlacesOK, AllFresh, UsedKept
<1>6. \A t \in Threads : Fresh(jobs[t], Base', Used')
  BY <1>1, FreshKeeps, Zenon DEF PlacesOK, AllFresh, UsedKept
<1>7. AllFresh(queue', jobs', Base', Used')
  BY <1>2, <1>3, <1>4, <1>5, <1>6, Zenon DEF AllFresh
<1>8. InQueueOnce(queue')
  <2>1. \A k \in 1 .. Len(queue') : Distinct(queue'[k])
    BY <1>3, <1>4 DEF PlacesOK, InQueueOnce
  <2>2. ASSUME NEW k \in 1 .. Len(queue'), NEW m \in 1 .. Len(queue'), k # m
        PROVE  Apart(queue'[k], queue'[m])
    BY <1>3, <1>4, <2>2 DEF PlacesOK, InQueueOnce
  <2>. QED
    BY <2>1, <2>2 DEF InQueueOnce
<1>9. QueueApart(queue', jobs')
  BY <1>2, <1>3, <1>4 DEF PlacesOK, QueueApart
<1>10. InHandOnce(jobs')
  BY <1>2 DEF PlacesOK
<1>. QED
  BY <1>7, <1>8, <1>9, <1>10 DEF PlacesOK

LEMMA TakePlaces ==
    ASSUME StructInv, PlacesOK, [Next]_vars, UsedKept, NEW t \in Threads, Take(t)
    PROVE  PlacesOK'
<1>0. TypeOK
  BY DEF StructInv
<1>1. Base \in Nat /\ Base' \in Nat /\ Base <= Base'
  BY BaseType, ArrayStep
<1>2. \A k \in 1 .. Len(queue') : queue'[k] = queue[k + 1] /\ k + 1 \in 1 .. Len(queue) /\ k + 1 # 1
  <2>1. Len(queue') \in Nat
    BY <1>0, TakeEffect
  <2>. QED
    BY <1>0, <2>1, TakeEffect
<1>3. 1 \in 1 .. Len(queue) /\ jobs'[t] = queue[1] /\ \A u \in Threads : u # t => jobs'[u] = jobs[u]
  BY <1>0, TakeEffect
<1>4. \A k \in 1 .. Len(queue) : Fresh(queue[k], Base', Used')
  BY <1>1, FreshKeeps, Zenon DEF PlacesOK, AllFresh, UsedKept
<1>5. \A u \in Threads : Fresh(jobs[u], Base', Used')
  BY <1>1, FreshKeeps, Zenon DEF PlacesOK, AllFresh, UsedKept
<1>6. \A u \in Threads : Fresh(jobs'[u], Base', Used')
  BY <1>3, <1>4, <1>5
<1>7. AllFresh(queue', jobs', Base', Used')
  BY <1>2, <1>4, <1>6 DEF AllFresh
<1>8. InQueueOnce(queue')
  <2>1. \A k \in 1 .. Len(queue') : Distinct(queue'[k])
    BY <1>2 DEF PlacesOK, InQueueOnce
  <2>2. ASSUME NEW k \in 1 .. Len(queue'), NEW m \in 1 .. Len(queue'), k # m
        PROVE  Apart(queue'[k], queue'[m])
    <3>1. k + 1 # m + 1
      BY <2>2
    <3>. QED
      BY <1>2, <3>1 DEF PlacesOK, InQueueOnce
  <2>. QED
    BY <2>1, <2>2 DEF InQueueOnce
<1>9. \A k \in 1 .. Len(queue) : k # 1 => Apart(queue[1], queue[k])
  BY <1>3 DEF PlacesOK, InQueueOnce
<1>10. QueueApart(queue', jobs')
  <2>1. ASSUME NEW u \in Threads, NEW k \in 1 .. Len(queue')
        PROVE  Apart(jobs'[u], queue'[k])
    <3>1. CASE u = t
      BY <1>2, <1>3, <1>9, <3>1
    <3>2. CASE u # t
      BY <1>2, <1>3, <3>2 DEF PlacesOK, QueueApart
    <3>. QED
      BY <3>1, <3>2
  <2>. QED
    BY <2>1 DEF QueueApart
<1>11. InHandOnce(jobs')
  <2>1. \A u \in Threads : Distinct(jobs'[u])
    BY <1>3 DEF PlacesOK, InHandOnce, InQueueOnce
  <2>2. \A u \in Threads : Apart(jobs[u], queue[1]) /\ Apart(queue[1], jobs[u])
    BY <1>3, ApartSym DEF PlacesOK, QueueApart
  <2>3. ASSUME NEW u \in Threads, NEW v \in Threads, u # v
        PROVE  Apart(jobs'[u], jobs'[v])
    BY <1>3, <2>2, <2>3 DEF PlacesOK, InHandOnce
  <2>. QED
    BY <2>1, <2>3 DEF InHandOnce
<1>. QED
  BY <1>7, <1>8, <1>10, <1>11 DEF PlacesOK

LEMMA FreshBut ==
    ASSUME NEW s, NEW b \in Nat, NEW c \in Nat, b <= c, NEW X, NEW Y, NEW x,
           \A n \in 1 .. b - 1 : n \in Y => n \in X \/ (Works(x) /\ n = x.num),
           \A i \in 1 .. Len(s) : Works(s[i]) /\ Works(x) => s[i].num # x.num,
           Fresh(s, b, X)
    PROVE  Fresh(s, c, Y)
<1> SUFFICES ASSUME NEW i \in 1 .. Len(s), Works(s[i])
             PROVE  s[i].num \in 1 .. c - 1 /\ s[i].num \notin Y
  BY DEF Fresh
<1>1. s[i].num \in 1 .. b - 1 /\ s[i].num \notin X
  BY DEF Fresh
<1>2. s[i].num \notin Y
  BY <1>1
<1>. QED
  BY <1>1, <1>2

LEMMA FinishNoFilter ==
    ASSUME StructInv, NEW t \in Threads, Finish(t)
    PROVE  ~Filter
<1>1. ASSUME Filter
      PROVE  FALSE
  <2>1. jobs' = jobs
    BY <1>1 DEF Filter, threadVars
  <2>2. Len(jobs'[t]) = Len(jobs[t]) - 1 /\ Len(jobs[t]) \in Nat
    BY FinishEffect
  <2>. QED
    BY <2>1, <2>2
<1>. QED
  BY <1>1

LEMMA FinishPlaces ==
    ASSUME StructInv, PlacesOK, [Next]_vars, NEW t \in Threads, Execute(t) \/ Pass(t)
    PROVE  PlacesOK'
<1>0. Finish(t)
  BY DEF Execute, Pass
<1>1. Base \in Nat /\ Base' \in Nat /\ Base <= Base'
  BY BaseType, ArrayStep
<1> DEFINE x == jobs[t][1]
           r == jobs'[t]
<1>2. /\ queue' = queue /\ Len(jobs[t]) \in Nat /\ Len(r) = Len(jobs[t]) - 1 /\ 1 \in 1 .. Len(jobs[t])
      /\ \A i \in 1 .. Len(r) : r[i] = jobs[t][i + 1] /\ i + 1 \in 1 .. Len(jobs[t])
      /\ \A u \in Threads : u # t => jobs'[u] = jobs[u]
  BY <1>0, FinishEffect
<1>3. Len(r) \in Nat
  BY <1>2
<1>4. PartOf(r, jobs[t], 1)
  BY <1>2 DEF PartOf
<1>5. DelayedNumbers' = DelayedNumbers
  BY <1>0, DelayedStep, FinishNoFilter
<1>6. \A n \in 1 .. Base - 1 : n \in Used' => n \in Used \/ (Works(x) /\ n = x.num)
  BY <1>5 DEF Used, Execute, Pass
<1>7. Distinct(jobs[t]) /\ \A u \in Threads : u # t => Apart(jobs[t], jobs[u]) /\ Apart(jobs[u], jobs[t])
  BY DEF PlacesOK, InHandOnce
<1>8. \A k \in 1 .. Len(queue) : Apart(jobs[t], queue[k])
  BY DEF PlacesOK, QueueApart
<1>9. ASSUME NEW s, Apart(jobs[t], s), Fresh(s, Base, Used)
      PROVE  Fresh(s, Base', Used')
  <2>1. \A i \in 1 .. Len(s) : Works(s[i]) /\ Works(x) => s[i].num # x.num
    BY <1>2, <1>9 DEF Apart
  <2> HIDE DEF x
  <2>. QED
    BY <1>1, <1>6, <1>9, <2>1, FreshBut, Zenon
<1>10. Fresh(r, Base', Used')
  <2>1. Fresh(jobs[t], Base, Used)
    BY DEF PlacesOK, AllFresh
  <2>2. Fresh(r, Base, Used)
    BY <1>3, <1>4, <2>1, PartLemma
  <2>3. \A i \in 1 .. Len(r) : Works(r[i]) /\ Works(x) => r[i].num # x.num
    <3> SUFFICES ASSUME NEW i \in 1 .. Len(r), Works(r[i]), Works(x), r[i].num = x.num
                 PROVE  FALSE
      OBVIOUS
    <3>1. i + 1 = 1
      BY <1>2, <1>7 DEF Distinct
    <3>. QED
      BY <3>1
  <2> HIDE DEF x, r
  <2>. QED
    BY <1>1, <1>6, <2>2, <2>3, FreshBut, Zenon
<1>11. AllFresh(queue', jobs', Base', Used')
  <2>1. \A k \in 1 .. Len(queue) : Fresh(queue[k], Base', Used')
    BY <1>8, <1>9 DEF PlacesOK, AllFresh
  <2>2. \A u \in Threads : u # t => Fresh(jobs[u], Base', Used')
    BY <1>7, <1>9 DEF PlacesOK, AllFresh
  <2>. QED
    BY <1>2, <1>10, <2>1, <2>2 DEF AllFresh
<1>12. InHandOnce(jobs')
  <2>1. Distinct(r) /\ \A u \in Threads : u # t => Apart(r, jobs[u]) /\ Apart(jobs[u], r)
    BY <1>3, <1>4, <1>7, PartLemma
  <2>2. \A u \in Threads : Distinct(jobs'[u])
    BY <1>2, <2>1 DEF PlacesOK, InHandOnce
  <2>3. ASSUME NEW u \in Threads, NEW v \in Threads, u # v
        PROVE  Apart(jobs'[u], jobs'[v])
    BY <1>2, <2>1, <2>3, ZenonT(30) DEF PlacesOK, InHandOnce
  <2>. QED
    BY <2>2, <2>3 DEF InHandOnce
<1>13. QueueApart(queue', jobs')
  <2>1. \A k \in 1 .. Len(queue) : Apart(r, queue[k])
    BY <1>3, <1>4, <1>8, PartLemma
  <2>. QED
    BY <1>2, <2>1 DEF PlacesOK, QueueApart
<1>14. InQueueOnce(queue')
  BY <1>2 DEF PlacesOK
<1>. QED
  BY <1>11, <1>12, <1>13, <1>14 DEF PlacesOK

\* The unfiltered jobs of the array are new.
LEMMA ArrayFresh ==
    ASSUME StructInv, NumbersOK
    PROVE  /\ Distinct(array)
           /\ Fresh(array, nextJob, Used)
           /\ \A i \in 1 .. Len(array) : array[i].num \in Nat /\ array[i].num >= Base
<1>0. Base \in Nat /\ Base >= 1 /\ nextJob \in Nat /\ Len(array) \in Nat /\ Base = nextJob - Len(array)
  BY BaseType DEF StructInv, TypeOK, ArrayOK, Base
<1>1. \A i \in 1 .. Len(array) : array[i].num = Base + i - 1
  BY DEF StructInv, ArrayOK
<1>2. Distinct(array)
  BY <1>0, <1>1 DEF Distinct
<1>3. ASSUME NEW i \in 1 .. Len(array), Works(array[i])
      PROVE  array[i].num \in 1 .. nextJob - 1 /\ array[i].num \notin Used
  <2>1. array[i].num \in Base .. nextJob - 1 /\ array[i].num \notin 1 .. Base - 1 /\ array[i].num \in 1 .. nextJob - 1
    BY <1>0, <1>1
  <2>2. array[i].num \notin DelayedNumbers
    BY <1>3 DEF NumbersOK
  <2>. QED
    BY <2>1, <2>2 DEF NumbersOK, Used
<1>4. \A i \in 1 .. Len(array) : array[i].num \in Nat /\ array[i].num >= Base
  BY <1>0, <1>1
<1>. QED
  BY <1>2, <1>3, <1>4 DEF Fresh

LEMMA SlicePart ==
    ASSUME NEW a \in Seq(Jobs), NEW k \in 1 .. NumSlices(a)
    PROVE  /\ PartOf(Slices(a)[k], a, First(a, k) - 1)
           /\ First(a, k) - 1 \in Nat
           /\ Len(Slices(a)[k]) \in Nat
           /\ Len(Slices(a)[k]) = Final(a, k) - First(a, k) + 1
<1>1. First(a, k) \in Nat /\ First(a, k) >= 1 /\ Final(a, k) \in Nat /\ Final(a, k) >= First(a, k)
  BY SliceBounds
<1>2. Len(Slices(a)[k]) = Final(a, k) - First(a, k) + 1
  BY SlicesType, Zenon
<1>3. \A i \in 1 .. Len(Slices(a)[k]) :
         First(a, k) + i - 1 \in 1 .. Len(a) /\ Slices(a)[k][i] = a[First(a, k) + i - 1]
  BY SlicesType, Zenon
<1>4. \A i \in 1 .. Len(Slices(a)[k]) : First(a, k) + i - 1 = i + (First(a, k) - 1)
  BY <1>1, <1>2
<1>. QED
  <2>1. PartOf(Slices(a)[k], a, First(a, k) - 1)
    BY <1>3, <1>4, Zenon DEF PartOf
  <2>. QED
    BY <1>1, <1>2, <2>1

\* No two slices share a job.
LEMMA SlicesApart ==
    ASSUME NEW a \in Seq(Jobs), Distinct(a), NEW k \in 1 .. NumSlices(a), NEW m \in 1 .. NumSlices(a), k # m
    PROVE  Apart(Slices(a)[k], Slices(a)[m])
<1>1. ASSUME NEW p \in 1 .. NumSlices(a), NEW q \in 1 .. NumSlices(a), p < q
      PROVE  Apart(Slices(a)[p], Slices(a)[q])
  <2> SUFFICES ASSUME NEW i \in 1 .. Len(Slices(a)[p]), NEW j \in 1 .. Len(Slices(a)[q]),
                      Works(Slices(a)[p][i]), Works(Slices(a)[q][j]), Slices(a)[p][i].num = Slices(a)[q][j].num
               PROVE  FALSE
    BY SMTT(30) DEF Apart
  <2> DEFINE f == First(a, p) - 1
             g == First(a, q) - 1
  <2>1. f \in Nat /\ i + f \in 1 .. Len(a) /\ Slices(a)[p][i] = a[i + f]
    BY SlicePart DEF PartOf
  <2>2. g \in Nat /\ j + g \in 1 .. Len(a) /\ Slices(a)[q][j] = a[j + g]
    BY SlicePart DEF PartOf
  <2>3. First(a, p) \in Nat /\ First(a, q) \in Nat /\ Final(a, q) \in Nat
    <3>1. First(a, p) \in 1 .. Len(a) /\ First(a, q) \in 1 .. Len(a) /\ Final(a, q) \in First(a, q) .. Len(a)
      BY SliceBounds
    <3>2. Len(a) \in Nat
      OBVIOUS
    <3>. QED
      BY <3>1, <3>2, SMTT(30)
  <2>4. Len(Slices(a)[q]) = Final(a, q) - First(a, q) + 1
    BY SlicePart
  <2>5. j <= Final(a, q) - g
    BY <2>3, <2>4
  <2>6. i + f = j + g
    BY <2>1, <2>2, Zenon DEF Distinct
  <2>7. Final(a, q) < First(a, p)
    BY <1>1, SliceOrder
  <2>8. Final(a, q) < f + 1
    BY <2>7, <2>3
  <2> HIDE DEF f, g
  <2>. QED
    BY <2>1, <2>2, <2>6, <2>3, <2>5, <2>8, SMTT(30)
<1>2. CASE k < m
  BY <1>1, <1>2
<1>3. CASE m < k
  BY <1>1, <1>3, ApartSym
<1>4. k \in Int /\ m \in Int
  OBVIOUS
<1>. QED
  BY <1>2, <1>3, <1>4

LEMMA DispatchPlaces ==
    ASSUME StructInv, PlacesOK, NumbersOK, [Next]_vars, Dispatch
    PROVE  PlacesOK'
<1>0. array \in Seq(Jobs) /\ Len(queue) \in Nat /\ nextJob \in Nat
  BY DEF StructInv, TypeOK
<1>1. Base \in Nat /\ Base' \in Nat /\ Base <= Base'
  BY BaseType, ArrayStep
<1>2. ~Filter
  BY DEF Dispatch, Filter
<1>3. Used' = Used /\ Base' = nextJob /\ jobs' = jobs
  <2>1. done' = done /\ array' = <<>> /\ nextJob' = nextJob /\ jobs' = jobs
    BY DEF Dispatch, threadVars
  <2>2. DelayedNumbers' = DelayedNumbers
    BY <1>2, DelayedStep
  <2>. QED
    BY <1>0, <2>1, <2>2 DEF Base, Used
<1> DEFINE sl(k) == Slices(array)[k]
           N == NumSlices(array)
<1>4. Distinct(array) /\ Fresh(array, nextJob, Used)
      /\ \A i \in 1 .. Len(array) : array[i].num \in Nat /\ array[i].num >= Base
  BY ArrayFresh
<1>5. ASSUME NEW k \in 1 .. N
      PROVE  /\ Distinct(sl(k)) /\ Fresh(sl(k), nextJob, Used)
             /\ \A x : Fresh(x, Base, Used) => Apart(x, sl(k)) /\ Apart(sl(k), x)
  <2>1. PartOf(sl(k), array, First(array, k) - 1) /\ First(array, k) - 1 \in Nat /\ Len(sl(k)) \in Nat
    BY <1>0, SlicePart
  <2>2. Distinct(sl(k)) /\ Fresh(sl(k), nextJob, Used)
    BY <1>4, <2>1, PartLemma
  <2>3. \A i \in 1 .. Len(sl(k)) : sl(k)[i].num \in Nat /\ sl(k)[i].num >= Base
    BY <1>4, <2>1, Zenon DEF PartOf
  <2>4. ASSUME NEW x, Fresh(x, Base, Used)
        PROVE  Apart(x, sl(k)) /\ Apart(sl(k), x)
    BY <1>1, <2>3, <2>4, FreshApart, Zenon
  <2>. QED
    BY <2>2, <2>4
<1>6. \A k, m \in 1 .. N : k # m => Apart(sl(k), sl(m))
  BY <1>0, <1>4, SlicesApart
<1> HIDE DEF sl, N
<1>7. \A k \in 1 .. Len(queue') :
         \/ k \in 1 .. Len(queue) /\ queue'[k] = queue[k]
         \/ k - Len(queue) \in 1 .. N /\ queue'[k] = sl(k - Len(queue))
  <2>1. ASSUME NEW k \in 1 .. Len(queue'), k - Len(queue) \in 1 .. N
        PROVE  queue'[k] = sl(k - Len(queue))
    <3>1. k = Len(queue) + (k - Len(queue))
      BY <1>0
    <3>. QED
      BY <2>1, <3>1, DispatchEffect DEF sl, N
  <2>. QED
    BY <2>1, DispatchEffect DEF N
<1>8. \A k \in 1 .. Len(queue) : Fresh(queue[k], Base, Used) /\ Fresh(queue[k], nextJob, Used)
  BY <1>0, <1>1, <1>3, FreshKeeps, Zenon DEF PlacesOK, AllFresh
<1>9. \A t \in Threads : Fresh(jobs[t], Base, Used) /\ Fresh(jobs[t], nextJob, Used)
  BY <1>0, <1>1, <1>3, FreshKeeps, Zenon DEF PlacesOK, AllFresh
<1>10. AllFresh(queue', jobs', Base', Used')
  <2>1. \A k \in 1 .. Len(queue') : Fresh(queue'[k], nextJob, Used)
    BY <1>5, <1>7, <1>8, Zenon
  <2>. QED
    BY <1>3, <1>9, <2>1 DEF AllFresh
<1>11. QueueApart(queue', jobs')
  <2>1. ASSUME NEW t \in Threads, NEW k \in 1 .. Len(queue')
        PROVE  Apart(jobs[t], queue'[k])
    <3>1. CASE k \in 1 .. Len(queue) /\ queue'[k] = queue[k]
      BY <3>1 DEF PlacesOK, QueueApart
    <3>2. CASE k - Len(queue) \in 1 .. N /\ queue'[k] = sl(k - Len(queue))
      BY <1>5, <1>9, <3>2
    <3>. QED
      BY <1>7, <3>1, <3>2
  <2>. QED
    BY <1>3, <2>1 DEF QueueApart
<1>12. InQueueOnce(queue')
  <2>1. \A k \in 1 .. Len(queue') : Distinct(queue'[k])
    BY <1>5, <1>7, Zenon DEF PlacesOK, InQueueOnce
  <2>2. ASSUME NEW k \in 1 .. Len(queue'), NEW m \in 1 .. Len(queue'), k # m
        PROVE  Apart(queue'[k], queue'[m])
    <3>1. CASE k \in 1 .. Len(queue) /\ queue'[k] = queue[k]
      <4>1. CASE m \in 1 .. Len(queue) /\ queue'[m] = queue[m]
        BY <2>2, <3>1, <4>1 DEF PlacesOK, InQueueOnce
      <4>2. CASE m - Len(queue) \in 1 .. N /\ queue'[m] = sl(m - Len(queue))
        BY <1>5, <1>8, <3>1, <4>2
      <4>. QED
        BY <1>7, <4>1, <4>2
    <3>2. CASE k - Len(queue) \in 1 .. N /\ queue'[k] = sl(k - Len(queue))
      <4>1. CASE m \in 1 .. Len(queue) /\ queue'[m] = queue[m]
        BY <1>5, <1>8, <3>2, <4>1
      <4>2. CASE m - Len(queue) \in 1 .. N /\ queue'[m] = sl(m - Len(queue))
        <5>1. k - Len(queue) # m - Len(queue)
          BY <1>0, <2>2
        <5>. QED
          BY <1>6, <3>2, <4>2, <5>1
      <4>. QED
        BY <1>7, <4>1, <4>2
    <3>. QED
      BY <1>7, <3>1, <3>2
  <2>. QED
    BY <2>1, <2>2 DEF InQueueOnce
<1>13. InHandOnce(jobs')
  BY <1>3 DEF PlacesOK
<1>. QED
  BY <1>10, <1>11, <1>12, <1>13 DEF PlacesOK

LEMMA StopPlaces ==
    ASSUME StructInv, PlacesOK, NumbersOK, [Next]_vars, StopNetwork
    PROVE  PlacesOK'
<1>0. nextJob \in Nat /\ Main \in Threads
  BY ThreadKinds DEF StructInv, TypeOK
<1>1. Base \in Nat /\ Base' \in Nat /\ Base <= Base' /\ Base >= 1
  BY BaseType, ArrayStep DEF StructInv, ArrayOK
<1>2. ~Filter
  BY DEF StopNetwork, Filter
<1>3. DelayedNumbers' = DelayedNumbers
  BY <1>2, DelayedStep
<1>4. Used' = Used
  BY <1>3 DEF StopNetwork, Used
<1>5. array = <<>> /\ array' = <<>> /\ Base = nextJob
  BY ArrayEmpty DEF StopNetwork
<1>6. PICK a \in StopArrays :
          /\ jobs'[Main] = Numbered(a)
          /\ nextJob' = nextJob + Len(a)
          /\ \A u \in Threads : u # Main => jobs'[u] = jobs[u]
          /\ queue' = queue
  BY StopEffect
<1>7. Base' = nextJob + Len(a) /\ Len(a) \in Nat
  <2>1. Len(a) \in Nat
    BY <1>0, NumberedType
  <2>. QED
    BY <1>0, <1>5, <1>6, <2>1 DEF Base
<1> DEFINE r == Numbered(a)
<1>8. Len(r) = Len(a) /\ \A i \in 1 .. Len(a) : r[i].num = nextJob + i - 1
  BY <1>0, NumberedType
<1> HIDE DEF r
<1>9. Distinct(r)
  BY <1>0, <1>7, <1>8 DEF Distinct
<1>10. \A i \in 1 .. Len(r) : r[i].num \in Nat /\ r[i].num >= Base
  BY <1>0, <1>5, <1>8
<1>11. Fresh(r, Base', Used)
  <2>1. ASSUME NEW i \in 1 .. Len(r)
        PROVE  r[i].num \in 1 .. Base' - 1 /\ r[i].num \notin 1 .. nextJob - 1
    BY <1>0, <1>1, <1>5, <1>7, <1>8
  <2>2. Used \subseteq 1 .. nextJob - 1
    BY <1>5 DEF NumbersOK, Used
  <2>. QED
    BY <2>1, <2>2 DEF Fresh
<1>12. ASSUME NEW x, Fresh(x, Base, Used)
       PROVE  Apart(x, r) /\ Apart(r, x) /\ Fresh(x, Base', Used)
  <2>1. Apart(x, r) /\ Apart(r, x)
    BY <1>1, <1>10, <1>12, FreshApart
  <2>2. Fresh(x, Base', Used)
    BY <1>1, <1>12, FreshKeeps, Zenon
  <2>. QED
    BY <2>1, <2>2
<1>13. (\A k \in 1 .. Len(queue) : Fresh(queue[k], Base, Used)) /\ \A t \in Threads : Fresh(jobs[t], Base, Used)
  BY DEF PlacesOK, AllFresh
<1>14. \A u \in Threads : jobs'[u] = IF u = Main THEN r ELSE jobs[u]
  BY <1>6 DEF r
<1>15. queue' = queue
  BY <1>6
<1>16. AllFresh(queue', jobs', Base', Used')
  BY <1>4, <1>11, <1>12, <1>13, <1>14, <1>15 DEF AllFresh
<1>17. InHandOnce(jobs')
  <2>1. \A u \in Threads : Distinct(jobs'[u])
    BY <1>9, <1>14 DEF PlacesOK, InHandOnce
  <2>2. ASSUME NEW u \in Threads, NEW v \in Threads, u # v
        PROVE  Apart(jobs'[u], jobs'[v])
    <3>1. CASE u # Main /\ v # Main
      BY <1>14, <2>2, <3>1 DEF PlacesOK, InHandOnce
    <3>2. CASE u = Main /\ v # Main
      BY <1>12, <1>13, <1>14, <3>2
    <3>3. CASE u # Main /\ v = Main
      BY <1>12, <1>13, <1>14, <3>3
    <3>. QED
      BY <2>2, <3>1, <3>2, <3>3
  <2>. QED
    BY <2>1, <2>2 DEF InHandOnce
<1>18. QueueApart(queue', jobs')
  BY <1>12, <1>13, <1>14, <1>15 DEF PlacesOK, QueueApart
<1>. QED
  BY <1>15, <1>16, <1>17, <1>18 DEF PlacesOK

LEMMA PlacesStep ==
    ASSUME StructInv, OnceInv, [Next]_vars
    PROVE  PlacesOK'
<1>0. PlacesOK /\ NumbersOK /\ TodoListed
  BY DEF OnceInv
<1>1. CASE Filter
  <2>1. UsedKept
    BY <1>1, UsedFilter
  <2>2. jobs' = jobs
    BY <1>1 DEF Filter, threadVars
  <2>3. \A t \in Threads : ~Finish(t)
    BY <1>1, FinishNoFilter
  <2>4. \A t \in Threads : ~Take(t)
    <3>1. ASSUME NEW t \in Threads, Take(t)
          PROVE  FALSE
      <4>1. Len(queue') = Len(queue) - 1 /\ Len(queue) \in Nat
        BY <3>1, TakeEffect DEF StructInv
      <4>2. queue \in Seq(Seq(Jobs)) /\ (queue' = queue \/ queue' = Append(queue, <<Job("GETCOUNTERS", Len(entries), 0)>>))
        BY <1>1, Zenon DEF Filter, AddDelayedJob, StructInv, TypeOK
      <4>3. Len(queue') = Len(queue) \/ Len(queue') = Len(queue) + 1
        BY <4>2
      <4>. QED
        BY <4>1, <4>3
    <3>. QED
      BY <3>1
  <2>5. ~Dispatch /\ ~StopNetwork
    BY <1>1 DEF Filter, Dispatch, StopNetwork
  <2>. QED
    BY <1>0, <2>1, <2>3, <2>4, <2>5, Moves, QuietPlaces, AskPlaces
<1>2. CASE ~Filter
  <2>1. DelayedNumbers' = DelayedNumbers
    BY <1>2, DelayedStep
  <2>2. ASSUME UNCHANGED done
        PROVE  UsedKept
    BY <2>1, <2>2 DEF UsedKept, Used
  <2>3. ASSUME NEW n, ExecuteListed(n)
        PROVE  UsedKept
    BY <2>1, <2>3 DEF UsedKept, Used, ExecuteListed
  <2>4. CASE GetJobs
    <3>1. UNCHANGED <<queue, jobs, done>>
      BY <2>4 DEF GetJobs, queueVars, threadVars
    <3>. QED
      BY <1>0, <2>2, <3>1, QuietPlaces
  <2>5. CASE UNCHANGED <<queue, jobs, array, nextJob, done>>
    BY <1>0, <2>2, <2>5, QuietPlaces
  <2>6. ASSUME NEW n, ExecuteListed(n)
        PROVE  PlacesOK'
    <3>1. UNCHANGED <<queue, jobs>>
      BY <2>6 DEF ExecuteListed
    <3>. QED
      BY <1>0, <2>3, <2>6, <3>1, QuietPlaces
  <2>7. ASSUME NEW b, Ask(b), UNCHANGED done
        PROVE  PlacesOK'
    BY <1>0, <2>2, <2>7, AskPlaces
  <2>8. ASSUME NEW t \in Threads, Take(t), UNCHANGED done
        PROVE  PlacesOK'
    BY <1>0, <2>2, <2>8, TakePlaces
  <2>. QED
    BY <1>0, <1>2, <2>4, <2>5, <2>6, <2>7, <2>8, JobMoves, FinishPlaces, DispatchPlaces, StopPlaces
<1>. QED
  BY <1>1, <1>2

LEMMA UsedGrows ==
    ASSUME StructInv, TodoListed, [Next]_vars
    PROVE  DelayedNumbers \subseteq DelayedNumbers' /\ done \subseteq done' /\ Used \subseteq Used'
<1>1. DelayedNumbers \subseteq DelayedNumbers'
  BY DelayedStep, DelayedFilter
<1>2. done \subseteq done'
  <2>1. CASE GetJobs \/ Filter \/ Dispatch \/ StopNetwork
    BY <2>1 DEF GetJobs, Filter, Dispatch, StopNetwork
  <2>. QED
    BY <2>1, JobMoves DEF Execute, Pass, ExecuteListed
<1>. QED
  BY <1>1, <1>2 DEF Used

LEMMA NextJobGrows ==
    ASSUME StructInv, TodoListed, [Next]_vars
    PROVE  nextJob \in Nat /\ nextJob' \in Nat /\ nextJob <= nextJob'
<1>0. nextJob \in Nat
  BY DEF StructInv, TypeOK
<1>1. CASE GetJobs \/ StopNetwork
  <2>1. PICK a \in Arrays \cup LateArrays \cup StopArrays : nextJob' = nextJob + Len(a)
    BY <1>1 DEF GetJobs, StopNetwork
  <2>2. Len(a) \in Nat
    BY <1>0, NumberedType
  <2>. QED
    BY <1>0, <2>1, <2>2
<1>2. CASE Filter \/ Dispatch
  BY <1>0, <1>2 DEF Filter, Dispatch
<1>. QED
  BY <1>0, <1>1, <1>2, JobMoves DEF Execute, Pass, ExecuteListed

LEMMA IntervalGrows ==
    ASSUME NEW b \in Nat, NEW c \in Nat, b <= c
    PROVE  1 .. b - 1 \subseteq 1 .. c - 1
<1>1. ASSUME NEW n \in 1 .. b - 1
      PROVE  n \in 1 .. c - 1
  OBVIOUS
<1>. QED
  BY <1>1

LEMMA NumbersStep ==
    ASSUME StructInv, OnceInv, [Next]_vars
    PROVE  NumbersOK'
<1>0. PlacesOK /\ NumbersOK /\ TodoListed
  BY DEF OnceInv
<1>1. Base \in Nat /\ Base' \in Nat /\ Base <= Base'
  BY BaseType, ArrayStep
<1>2. nextJob \in Nat /\ nextJob' \in Nat /\ nextJob <= nextJob'
  BY <1>0, NextJobGrows
<1>3. DelayedNumbers \subseteq DelayedNumbers'
  BY <1>0, UsedGrows
<1>4. done \subseteq 1 .. Base' - 1 \cup DelayedNumbers'
  <2>1. 1 .. Base - 1 \subseteq 1 .. Base' - 1
    BY <1>1, IntervalGrows, Zenon
  <2>. QED
    BY <1>0, <1>3, <2>1 DEF NumbersOK
<1>5. done' \subseteq 1 .. Base' - 1 \cup DelayedNumbers'
  <2>1. CASE GetJobs \/ Filter \/ Dispatch \/ StopNetwork
    BY <1>4, <2>1 DEF GetJobs, Filter, Dispatch, StopNetwork
  <2>2. CASE UNCHANGED done
    BY <1>4, <2>2
  <2>3. ASSUME NEW t \in Threads, Execute(t)
        PROVE  done' \subseteq 1 .. Base' - 1 \cup DelayedNumbers'
    <3>1. jobs[t] \in Seq(Jobs) /\ jobs[t] # <<>>
      BY <2>3, BatchOf DEF Execute, Finish
    <3>2. 1 \in 1 .. Len(jobs[t])
      BY <3>1
    <3>3. jobs[t][1].num \in 1 .. Base - 1
      BY <1>0, <2>3, <3>2 DEF PlacesOK, AllFresh, Fresh, Execute
    <3>4. jobs[t][1].num \in 1 .. Base' - 1
      BY <1>1, <3>3
    <3>. QED
      BY <1>4, <2>3, <3>4, Zenon DEF Execute
  <2>4. ASSUME NEW n, ExecuteListed(n)
        PROVE  done' \subseteq 1 .. Base' - 1 \cup DelayedNumbers'
    BY <1>3, <1>4, <2>4, Zenon DEF ExecuteListed
  <2>. QED
    BY <1>0, <2>1, <2>2, <2>3, <2>4, JobMoves DEF Pass
<1>6. DelayedNumbers \subseteq 1 .. nextJob' - 1
  <2>1. 1 .. nextJob - 1 \subseteq 1 .. nextJob' - 1
    BY <1>2, IntervalGrows, Zenon
  <2>. QED
    BY <1>0, <2>1 DEF NumbersOK
<1>7. CASE Filter
  <2>0. array \in Seq(Jobs)
    BY DEF StructInv, TypeOK
  <2>1. PICK k \in 1 .. Len(array) :
           /\ array' = [array EXCEPT ![k].type = "NOTHING"]
           /\ DelayedNumbers' = DelayedNumbers \cup {array[k].num}
    BY <1>7, DelayedFilter
  <2>2. Base >= 1 /\ Base = nextJob - Len(array) /\ \A i \in 1 .. Len(array) : array[i].num = Base + i - 1
    BY DEF StructInv, ArrayOK, Base
  <2>3. Len(array) \in Nat /\ array[k].num \in 1 .. nextJob - 1
    BY <1>1, <1>2, <2>0, <2>2
  <2>4. array[k].num \in 1 .. nextJob' - 1
    BY <1>2, <2>3
  <2>5. Len(array') = Len(array) /\ array'[k].type = "NOTHING" /\ \A i \in 1 .. Len(array) : i # k => array'[i] = array[i]
    <3>1. DOMAIN array = 1 .. Len(array)
      BY <2>0
    <3>2. array[k] \in Jobs
      BY <2>0
    <3>3. [array[k] EXCEPT !.type = "NOTHING"].type = "NOTHING"
      BY <3>2 DEF Jobs
    <3>4. array'[k] = [array[k] EXCEPT !.type = "NOTHING"]
      BY <2>1, <3>1
    <3>. QED
      BY <2>0, <2>1, <3>1, <3>3, <3>4
  <2>6. ASSUME NEW i \in 1 .. Len(array'), Works(array'[i])
        PROVE  array'[i].num \notin DelayedNumbers'
    <3>1. i # k /\ i \in 1 .. Len(array)
      BY <2>5, <2>6 DEF Works
    <3>2. array'[i] = array[i] /\ array[i].num # array[k].num
      BY <1>1, <2>2, <2>5, <3>1
    <3>3. array[i].num \notin DelayedNumbers
      BY <1>0, <2>6, <3>1, <3>2 DEF NumbersOK
    <3>. QED
      BY <2>1, <3>2, <3>3
  <2>7. DelayedNumbers' \subseteq 1 .. nextJob' - 1
    BY <1>6, <2>1, <2>4
  <2>. QED
    BY <1>5, <2>6, <2>7 DEF NumbersOK
<1>8. CASE ~Filter
  <2>1. DelayedNumbers' = DelayedNumbers
    BY <1>8, DelayedStep
  <2> SUFFICES \A i \in 1 .. Len(array') : Works(array'[i]) => array'[i].num \notin DelayedNumbers
    BY <1>5, <1>6, <2>1 DEF NumbersOK
  <2>2. CASE UNCHANGED array
    BY <1>0, <2>2 DEF NumbersOK
  <2>3. CASE GetJobs
    <3>1. PICK a \in Arrays \cup LateArrays \cup StopArrays : array' = Numbered(a)
      BY <2>3 DEF GetJobs
    <3>2. \A i \in 1 .. Len(Numbered(a)) : Numbered(a)[i].num = nextJob + i - 1
      BY <1>2, NumberedType
    <3>3. ASSUME NEW i \in 1 .. Len(array')
          PROVE  array'[i].num \notin 1 .. nextJob - 1
      BY <1>2, <3>1, <3>2
    <3>. QED
      BY <1>0, <3>3, Zenon DEF NumbersOK
  <2>4. CASE Dispatch
    BY <2>4 DEF Dispatch
  <2>5. CASE StopNetwork
    BY <2>2, <2>5 DEF StopNetwork
  <2>. QED
    BY <1>0, <1>8, <2>2, <2>3, <2>4, <2>5, JobMoves DEF Execute, Pass, ExecuteListed
<1>. QED
  BY <1>7, <1>8

\* The array, the queue and the threads keep all jobs that they hold.
LEMMA PlacedKeeps ==
    ASSUME StructInv, OnceInv, [Next]_vars, NEW n \in 1 .. nextJob - 1
    PROVE  Placed(n)'
<1>0. TodoListed /\ TypeOK /\ Placed(n) /\ Used \subseteq Used'
  BY UsedGrows DEF OnceInv, StructInv, Accounted
<1>1. /\ array \in Seq(Jobs) /\ queue \in Seq(Seq(Jobs)) /\ jobs \in [Threads -> Seq(Jobs)]
      /\ Len(queue) \in Nat /\ Len(array) \in Nat
  BY <1>0 DEF TypeOK
<1>2. CASE n \in Used
  BY <1>0, <1>2 DEF Placed
<1>4. ~Holds(<<>>, n)
  BY DEF Holds
<1>5. CASE UNCHANGED <<queue, jobs, array>>
  BY <1>0, <1>5 DEF Placed
<1>6. CASE GetJobs
  <2>1. array = <<>> /\ UNCHANGED <<queue, jobs>>
    BY <1>6, ArrayEmpty DEF GetJobs, queueVars, threadVars
  <2>. QED
    BY <1>0, <1>4, <2>1 DEF Placed
<1>7. CASE StopNetwork
  <2>1. jobs[Main] = <<>> /\ queue' = queue /\ \A u \in Threads : u # Main => jobs'[u] = jobs[u]
    BY <1>7, StopEffect
  <2>2. array' = array
    BY <1>7 DEF StopNetwork
  <2>. QED
    BY <1>0, <1>4, <2>1, <2>2 DEF Placed
<1>8. ASSUME NEW b, Ask(b), UNCHANGED array
      PROVE  Placed(n)'
  <2>1. jobs' = jobs /\ \A k \in 1 .. Len(queue) : k \in 1 .. Len(queue') /\ queue'[k] = queue[k]
    BY <1>0, <1>1, <1>8, AskEffect DEF Ask
  <2>. QED
    BY <1>0, <1>8, <2>1, Zenon DEF Placed
<1>9. ASSUME NEW t \in Threads, Take(t), UNCHANGED array
      PROVE  Placed(n)'
  <2>1. jobs[t] = <<>> /\ jobs'[t] = queue[1] /\ \A u \in Threads : u # t => jobs'[u] = jobs[u]
    BY <1>0, <1>9, TakeEffect, Zenon DEF Take
  <2>2. CASE Holds(array, n)
    BY <1>9, <2>2 DEF Placed
  <2>3. ASSUME NEW k \in 1 .. Len(queue), Holds(queue[k], n)
        PROVE  Placed(n)'
    <3>1. CASE k = 1
      BY <2>1, <2>3, <3>1 DEF Placed
    <3>2. CASE k # 1
      <4>1. k - 1 \in 1 .. Len(queue') /\ (k - 1) + 1 = k
        BY <1>0, <1>1, <1>9, <2>3, <3>2, TakeEffect
      <4>2. queue'[k - 1] = queue[k]
        BY <1>0, <1>9, <4>1, TakeEffect
      <4>. QED
        BY <2>3, <4>1, <4>2 DEF Placed
    <3>. QED
      BY <3>1, <3>2
  <2>4. ASSUME NEW u \in Threads, Holds(jobs[u], n)
        PROVE  Placed(n)'
    BY <1>4, <2>1, <2>4 DEF Placed
  <2>. QED
    BY <1>0, <1>2, <2>2, <2>3, <2>4 DEF Placed
<1>10. ASSUME NEW t \in Threads, Execute(t) \/ Pass(t)
       PROVE  Placed(n)'
  <2>0. Finish(t) /\ UNCHANGED array
    BY <1>10 DEF Execute, Pass
  <2>1. queue' = queue /\ \A u \in Threads : u # t => jobs'[u] = jobs[u]
    BY <2>0, FinishEffect
  <2>2. ASSUME Holds(jobs[t], n)
        PROVE  Placed(n)'
    <3>1. PICK i \in 1 .. Len(jobs[t]) : Works(jobs[t][i]) /\ jobs[t][i].num = n
      BY <2>2 DEF Holds
    <3>2. CASE i = 1
      <4>1. n \in done'
        BY <1>10, <3>1, <3>2, Zenon DEF Execute, Pass
      <4>. QED
        BY <4>1 DEF Placed, Used
    <3>3. CASE i # 1
      <4>1. Len(jobs[t]) \in Nat /\ Len(jobs'[t]) = Len(jobs[t]) - 1
        BY <2>0, FinishEffect
      <4>2. i - 1 \in 1 .. Len(jobs'[t]) /\ (i - 1) + 1 = i
        BY <3>1, <3>3, <4>1
      <4>3. jobs'[t][i - 1] = jobs[t][i]
        BY <2>0, <4>2, FinishEffect
      <4>4. Holds(jobs'[t], n)
        BY <3>1, <4>2, <4>3 DEF Holds
      <4>. QED
        BY <4>4 DEF Placed
    <3>. QED
      BY <3>2, <3>3
  <2>. QED
    BY <1>0, <2>0, <2>1, <2>2 DEF Placed
<1>11. CASE Dispatch
  <2>1. /\ jobs' = jobs
        /\ \A k \in 1 .. Len(queue) : k \in 1 .. Len(queue') /\ queue'[k] = queue[k]
        /\ \A k \in 1 .. NumSlices(array) : Len(queue) + k \in 1 .. Len(queue')
    <3>1. Len(queue') = Len(queue) + NumSlices(array) /\ NumSlices(array) \in Nat
      BY <1>11, DispatchEffect
    <3>. QED
      BY <1>1, <1>11, <3>1, DispatchEffect
  <2>2. ASSUME Holds(array, n)
        PROVE  Placed(n)'
    <3>1. PICK i \in 1 .. Len(array) : Works(array[i]) /\ array[i].num = n
      BY <2>2 DEF Holds
    <3>2. PICK k \in 1 .. NumSlices(array) : i \in First(array, k) .. Final(array, k)
      BY <1>1, SlicesCover
    <3> DEFINE f == First(array, k) - 1
               s == Slices(array)[k]
    <3>3. f \in Nat /\ PartOf(s, array, f) /\ Len(s) = Final(array, k) - First(array, k) + 1
      BY <1>1, SlicePart
    <3>4. First(array, k) \in Int /\ Final(array, k) \in Int
      <4>1. First(array, k) \in 1 .. Len(array) /\ Final(array, k) \in First(array, k) .. Len(array)
        BY <1>1, SliceBounds
      <4>. QED
        BY <4>1
    <3>5. i >= f + 1 /\ i <= Final(array, k) /\ Len(s) = Final(array, k) - f
      BY <3>2, <3>3, <3>4, SMTT(30)
    <3>6. queue'[Len(queue) + k] = s
      BY <1>11, DispatchEffect
    <3> HIDE DEF f, s
    <3>7. i - f \in 1 .. Len(s) /\ (i - f) + f = i
      BY <3>3, <3>4, <3>5
    <3>8. s[i - f] = array[i]
      BY <3>3, <3>7 DEF PartOf
    <3>9. Holds(s, n)
      BY <3>1, <3>7, <3>8 DEF Holds
    <3>. QED
      BY <2>1, <3>6, <3>9 DEF Placed
  <2>. QED
    BY <1>0, <2>1, <2>2, Zenon DEF Placed
<1>12. CASE Filter
  <2>1. PICK k \in 1 .. Len(array) :
           /\ array[k].type = "DELAYED"
           /\ array' = [array EXCEPT ![k].type = "NOTHING"]
           /\ DelayedNumbers' = DelayedNumbers \cup {array[k].num}
    BY <1>12, DelayedFilter
  <2>2. Len(array') = Len(array) /\ \A i \in 1 .. Len(array) : i # k => array'[i] = array[i]
    BY <1>1, <2>1
  <2>3. ASSUME Holds(array, n)
        PROVE  Placed(n)'
    <3>1. PICK i \in 1 .. Len(array) : Works(array[i]) /\ array[i].num = n
      BY <2>3 DEF Holds
    <3>2. CASE i = k
      BY <2>1, <3>1, <3>2 DEF Placed, Used
    <3>3. CASE i # k
      <4>1. Holds(array', n)
        BY <2>2, <3>1, <3>3 DEF Holds
      <4>. QED
        BY <4>1 DEF Placed
    <3>. QED
      BY <3>2, <3>3
  <2>4. jobs' = jobs
    BY <1>12 DEF Filter, threadVars
  <2>5. \A m \in 1 .. Len(queue) : m \in 1 .. Len(queue') /\ queue'[m] = queue[m]
    <3>1. queue' = queue \/ queue' = Append(queue, <<Job("GETCOUNTERS", Len(entries), 0)>>)
      BY <1>12 DEF Filter, AddDelayedJob
    <3>2. ASSUME NEW b
          PROVE  \A m \in 1 .. Len(queue) : m \in 1 .. Len(Append(queue, b)) /\ Append(queue, b)[m] = queue[m]
      BY <1>1
    <3>. QED
      BY <3>1, <3>2
  <2>. QED
    BY <1>0, <2>3, <2>4, <2>5, Zenon DEF Placed
<1>13. ASSUME NEW m, ExecuteListed(m)
       PROVE  Placed(n)'
  BY <1>5, <1>13 DEF ExecuteListed
<1>. QED
  BY <1>0, <1>5, <1>6, <1>7, <1>8, <1>9, <1>10, <1>11, <1>12, <1>13, JobMoves

\* New jobs are held where they are created.
LEMMA PlacedNew ==
    ASSUME StructInv, OnceInv, [Next]_vars, NEW n \in 1 .. nextJob' - 1, n \notin 1 .. nextJob - 1
    PROVE  Placed(n)'
<1>0. TodoListed /\ nextJob \in Nat /\ nextJob' \in Nat
  BY NextJobGrows DEF OnceInv
<1>1. nextJob' # nextJob
  BY <1>0, Zenon
<1>2. ASSUME NEW a \in Arrays \cup LateArrays \cup StopArrays, nextJob' = nextJob + Len(a)
      PROVE  Holds(Numbered(a), n)
  <2>1. /\ Len(Numbered(a)) = Len(a) /\ Len(a) \in Nat
        /\ \A i \in 1 .. Len(a) : Numbered(a)[i].type \in {"NORMAL", "DELAYED"} /\ Numbered(a)[i].num = nextJob + i - 1
    BY <1>0, NumberedType, Zenon
  <2> DEFINE i == n - nextJob + 1
  <2>2. i \in 1 .. Len(a) /\ nextJob + i - 1 = n
    BY <1>0, <1>2, <2>1
  <2> HIDE DEF i
  <2>3. Works(Numbered(a)[i]) /\ Numbered(a)[i].num = n
    BY <2>1, <2>2 DEF Works
  <2>. QED
    BY <2>1, <2>2, <2>3, Zenon DEF Holds
<1>3. CASE GetJobs
  <2>1. PICK a \in Arrays \cup LateArrays \cup StopArrays : array' = Numbered(a) /\ nextJob' = nextJob + Len(a)
    BY <1>3 DEF GetJobs
  <2>. QED
    BY <1>2, <2>1 DEF Placed
<1>4. CASE StopNetwork
  <2>1. PICK a \in StopArrays : jobs'[Main] = Numbered(a) /\ nextJob' = nextJob + Len(a)
    BY <1>4, StopEffect
  <2>. QED
    BY <1>2, <2>1, ThreadKinds DEF Placed
<1>5. CASE Filter \/ Dispatch
  BY <1>1, <1>5 DEF Filter, Dispatch
<1>. QED
  BY <1>0, <1>1, <1>3, <1>4, <1>5, JobMoves DEF Execute, Pass, ExecuteListed

LEMMA OnceStep ==
    ASSUME StructInv, OnceInv, [Next]_vars
    PROVE  OnceInv'
<1>1. Accounted'
  BY PlacedKeeps, PlacedNew DEF Accounted
<1>. QED
  BY <1>1, PlacesStep, NumbersStep, TodoListedStep DEF OnceInv

LEMMA OnceInit == Init => OnceInv
<1> SUFFICES ASSUME Init PROVE OnceInv
  OBVIOUS
<1>1. /\ entries = <<>> /\ queue = <<>> /\ array = <<>> /\ done = {} /\ nextJob = 1
      /\ \A t \in Threads : jobs[t] = <<>> /\ todo[t] = <<>>
  BY DEF Init
<1>2. DelayedNumbers = {}
  BY <1>1 DEF DelayedNumbers, Elements
<1>3. NumbersOK /\ TodoListed /\ Accounted
  BY <1>1, <1>2 DEF NumbersOK, TodoListed, Accounted
<1>4. /\ Distinct(<<>>)
      /\ \A x : Apart(<<>>, x) /\ Apart(x, <<>>)
      /\ \A b, X : Fresh(<<>>, b, X)
  BY EmptyIdle, IdleLemma
<1>5. InQueueOnce(queue) /\ QueueApart(queue, jobs)
  BY <1>1 DEF InQueueOnce, QueueApart
<1>6. InHandOnce(jobs)
  BY <1>1, <1>4 DEF InHandOnce
<1>7. AllFresh(queue, jobs, Base, Used)
  BY <1>1, <1>4 DEF AllFresh
<1>. QED
  BY <1>3, <1>5, <1>6, <1>7 DEF OnceInv, PlacesOK

LEMMA OnceNormal ==
    ASSUME StructInv, OnceInv
    PROVE  JobsInv
<1>1. ASSUME NEW n \in Unfinished
      PROVE  n \notin done
  <2>1. PICK j : /\ j.type = "NORMAL" /\ j.num = n
                 /\ \/ \E k \in 1 .. Len(queue) : \E i \in 1 .. Len(queue[k]) : j = queue[k][i]
                    \/ \E u \in Threads : \E i \in 1 .. Len(jobs[u]) : j = jobs[u][i]
    BY DEF Unfinished, Elements
  <2>2. Works(j)
    BY <2>1 DEF Works
  <2>. QED
    BY <2>1, <2>2 DEF OnceInv, PlacesOK, AllFresh, Fresh, Used
<1>2. ASSUME phase = "end", NEW n \in 1 .. nextJob - 1
      PROVE  n \in done \cup DelayedNumbers
  <2>1. queue = <<>> /\ jobs[Main] = <<>>
    BY <1>2 DEF StructInv, PhaseOK
  <2>2. array = <<>>
    BY <1>2, ArrayEmpty
  <2>3. \A t \in Threads : jobs[t] = <<>>
    BY <1>2, <2>1, Joined, ThreadKinds
  <2>4. ~Holds(<<>>, n)
    BY DEF Holds
  <2>5. Placed(n)
    BY DEF OnceInv, Accounted
  <2>. QED
    BY <2>1, <2>2, <2>3, <2>4, <2>5 DEF Placed, Used
<1>. QED
  BY <1>1, <1>2 DEF JobsInv, NormalOnce, StructInv

\* No job is lost and no normal job is executed again, however workers, counters, entries and
\* a shutdown interleave: a job that is dispatched and not finished was not executed before,
\* and when the server has shut down all were executed but those of the entries.
THEOREM JobsSound == Spec => []JobsInv
<1>1. Init => StructInv /\ OnceInv
  BY StructInit, OnceInit
<1>2. StructInv /\ OnceInv /\ [Next]_vars => (StructInv /\ OnceInv)'
  BY StructStep, OnceStep
<1>3. StructInv /\ OnceInv => JobsInv
  BY OnceNormal
<1>. QED
  BY <1>1, <1>2, <1>3, PTL DEF Spec
=============================================================================
