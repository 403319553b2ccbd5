-------------------------- MODULE DelayedJobsEpochs --------------------------
(***************************************************************************)
(* Epoch based reclamation in DelayedJobs: a delayed job is executed after *)
(* all normal jobs that were dispatched before it was created.             *)
(***************************************************************************)
EXTENDS DelayedJobsProofs

-----------------------------------------------------------------------------
(* Epochs *)

\* The counters that a delayed entry asks for are read when no normal job older than its
\* delayed jobs can be taken any more, and such a job can then only be with a worker whose
\* counter is the one that was read.
QueueAsks ==
    \A k \in 1 .. Len(queue) : Asks(queue[k]) => QueueNewer(queue, k, entries[queue[k][1].num].jobs)

ThreadAsks ==
    \A t \in Threads : Asks(jobs[t]) =>
        /\ Ahead(queue, jobs, entries[jobs[t][1].num].jobs)
        /\ \A w \in Workers : w <= Len(seen[t]) =>
              Newer(jobs[w], entries[jobs[t][1].num].jobs) \/ counter[w] = seen[t][w]

EntryAsked ==
    \A e \in 1 .. Len(entries) : entries[e].counters # NoCounters =>
        /\ Ahead(queue, jobs, entries[e].jobs)
        /\ \A w \in Workers : Newer(jobs[w], entries[e].jobs) \/ counter[w] = entries[e].counters[w]

TodoSafe ==
    \A t \in Threads :
        /\ Safe(queue, jobs, todo[t])
        /\ pc[t] = "delayed" => Safe(queue, jobs, entries[dw[t]].jobs)

EpochInv == QueueAsks /\ ThreadAsks /\ EntryAsked /\ TodoSafe

\* The slices of the array are newer than all delayed jobs noted so far.
LEMMA NewerSlices ==
    ASSUME StructInv, NEW d \in Seq(Jobs), Noted(d, Base), NEW k \in 1 .. NumSlices(array)
    PROVE  Newer(Slices(array)[k], d)
<1>1. array \in Seq(Jobs) /\ Base \in Nat
  BY BaseType, Zenon DEF StructInv, TypeOK
<1>2. ASSUME NEW i \in 1 .. Len(Slices(array)[k]), NEW j \in 1 .. Len(d)
      PROVE  Slices(array)[k][i].num >= d[j].first
  <2>1. d[j] \in Jobs
    OBVIOUS
  <2>2. d[j].first \in Nat /\ d[j].first <= Base
    BY <1>1, <2>1, SMTT(30) DEF Noted, Jobs
  <2> DEFINE p == First(array, k) + i - 1
  <2>3. p \in 1 .. Len(array) /\ Slices(array)[k][i] = array[p]
    <3>1. \A x \in 1 .. Len(Slices(array)[k]) :
             /\ First(array, k) + x - 1 \in 1 .. Len(array)
             /\ Slices(array)[k][x] = array[First(array, k) + x - 1]
      BY <1>1, SlicesType, Zenon
    <3>. QED
      BY <3>1
  <2> HIDE DEF p
  <2>4. array[p].num = Base + p - 1
    BY <2>3 DEF StructInv, ArrayOK
  <2>. QED
    BY <1>1, <2>2, <2>3, <2>4
<1>. QED
  BY <1>2 DEF Newer

\* No step puts a normal job into the queue that is older than a delayed job noted so far;
\* a step that takes a batch off moves the others up.
LEMMA QueueKeeps ==
    ASSUME StructInv, [Next]_vars, NEW d \in Seq(Jobs), Noted(d, Base), NEW k \in Nat, k >= 1,
           QueueNewer(queue, k, d)
    PROVE  QueueNewer(queue', k, d) \/ \E t \in Threads : Take(t)
<1>0. TypeOK /\ Len(queue) \in Nat
  <2>1. TypeOK
    BY DEF StructInv
  <2>2. queue \in Seq(Seq(Jobs))
    BY <2>1 DEF TypeOK
  <2>. QED
    BY <2>1, <2>2
<1>1. CASE UNCHANGED queue
  BY <1>1
<1>2. ASSUME NEW b, Ask(b)
      PROVE  QueueNewer(queue', k, d)
  <2>1. Newer(b, d)
    BY <1>2, NewerCall DEF Ask
  <2>2. ASSUME NEW m \in k .. Len(queue')
        PROVE  Newer(queue'[m], d)
    <3>1. m \in k .. Len(queue) \/ m = Len(queue) + 1
      BY <1>0, <1>2, AskEffect
    <3>2. m \in k .. Len(queue) => m \in 1 .. Len(queue)
      BY <1>0
    <3>. QED
      BY <1>0, <1>2, <2>1, <3>1, <3>2, AskEffect DEF QueueNewer
  <2>. QED
    BY <2>2 DEF QueueNewer
<1>3. CASE Dispatch
  <2>1. ASSUME NEW m \in k .. Len(queue')
        PROVE  Newer(queue'[m], d)
    <3>0. m \in 1 .. Len(queue') /\ m \in Nat /\ m >= k
      BY <1>0, <1>3, DispatchEffect
    <3>1. CASE m \in 1 .. Len(queue)
      <4>1. m \in k .. Len(queue)
        BY <3>0, <3>1
      <4>. QED
        BY <1>3, <3>1, <4>1, DispatchEffect DEF QueueNewer
    <3>2. CASE m - Len(queue) \in 1 .. NumSlices(array)
      <4>1. m = Len(queue) + (m - Len(queue))
        BY <1>0, <3>0
      <4>2. queue'[m] = Slices(array)[m - Len(queue)]
        BY <1>3, <3>2, <4>1, DispatchEffect
      <4>. QED
        BY <3>2, <4>2, NewerSlices
    <3>. QED
      BY <1>3, <3>0, <3>1, <3>2, DispatchEffect
  <2>. QED
    BY <2>1 DEF QueueNewer
<1>4. CASE StopNetwork
  BY <1>1, <1>4, StopEffect
<1>5. CASE \E t \in Threads : Finish(t)
  BY <1>1, <1>5 DEF Finish
<1>. QED
  BY <1>1, <1>2, <1>3, <1>4, <1>5, Moves

LEMMA TakeKeeps ==
    ASSUME StructInv, NEW t \in Threads, Take(t), NEW d, NEW k \in Nat, k >= 1,
           QueueNewer(queue, k + 1, d)
    PROVE  QueueNewer(queue', k, d)
<1>0. TypeOK
  BY DEF StructInv
<1>1. ASSUME NEW m \in k .. Len(queue')
      PROVE  Newer(queue'[m], d)
  <2>1. Len(queue') = Len(queue) - 1 /\ Len(queue) \in Nat
    BY <1>0, TakeEffect
  <2>2. m \in 1 .. Len(queue') /\ m + 1 \in k + 1 .. Len(queue)
    BY <2>1
  <2>3. queue'[m] = queue[m + 1]
    BY <1>0, <2>2, TakeEffect
  <2>. QED
    BY <2>2, <2>3 DEF QueueNewer
<1>. QED
  BY <1>1 DEF QueueNewer

\* What holds of the whole queue.
LEMMA WholeQueue ==
    ASSUME StructInv, [Next]_vars, NEW d \in Seq(Jobs), Noted(d, Base), QueueNewer(queue, 1, d)
    PROVE  QueueNewer(queue', 1, d)
<1>1. Len(queue) \in Nat
  BY DEF StructInv, TypeOK
<1>2. QueueNewer(queue, 1 + 1, d)
  BY <1>1 DEF QueueNewer
<1>. QED
  BY <1>2, QueueKeeps, TakeKeeps

\* No thread gets a normal job older than a delayed job noted so far, except from the queue.
LEMMA ThreadKeeps ==
    ASSUME StructInv, [Next]_vars, NEW d \in Seq(Jobs), Noted(d, Base), QueueNewer(queue, 1, d),
           NEW u \in Threads, Newer(jobs[u], d)
    PROVE  Newer(jobs'[u], d)
<1>0. TypeOK /\ jobs \in [Threads -> Seq(Jobs)]
  BY Zenon DEF StructInv, TypeOK
<1>1. CASE jobs'[u] = jobs[u]
  BY <1>1
<1>2. ASSUME NEW t \in Threads, Take(t)
      PROVE  Newer(jobs'[u], d)
  <2>1. 1 \in 1 .. Len(queue)
    BY <1>0, <1>2, TakeEffect
  <2>2. Newer(queue[1], d)
    BY <2>1 DEF QueueNewer
  <2>. QED
    BY <1>0, <1>1, <1>2, <2>2, TakeEffect
<1>3. ASSUME NEW t \in Threads, Finish(t)
      PROVE  Newer(jobs'[u], d)
  <2>1. CASE u # t
    BY <1>1, <1>3, <2>1, FinishEffect
  <2>2. CASE u = t
    <3>1. jobs'[u] = Tail(jobs[u]) /\ jobs[u] # <<>>
      BY <1>0, <1>3, <2>2 DEF Finish, NextOf
    <3>. QED
      BY <1>0, <3>1, NewerTail
  <2>. QED
    BY <2>1, <2>2
<1>4. CASE StopNetwork
  <2>1. CASE u # Main
    BY <1>1, <1>4, <2>1, StopEffect
  <2>2. CASE u = Main
    <3>1. PICK a \in StopArrays : jobs'[Main] = Numbered(a)
      BY <1>4, StopEffect
    <3>2. phase # "filter"
      BY <1>4 DEF StopNetwork
    <3>. QED
      BY <2>2, <3>1, <3>2, NewerNumbered
  <2>. QED
    BY <2>1, <2>2
<1>5. CASE Dispatch \/ \E b : Ask(b)
  BY <1>1, <1>5 DEF Dispatch, threadVars, Ask
<1>. QED
  BY <1>1, <1>2, <1>3, <1>4, <1>5, Moves

LEMMA AheadKeeps ==
    ASSUME StructInv, [Next]_vars, NEW d \in Seq(Jobs), Noted(d, Base), Ahead(queue, jobs, d)
    PROVE  Ahead(queue', jobs', d)
BY WholeQueue, ThreadKeeps, ThreadKinds DEF Ahead

LEMMA SafeKeeps ==
    ASSUME StructInv, [Next]_vars, NEW d \in Seq(Jobs), Noted(d, Base), Safe(queue, jobs, d)
    PROVE  Safe(queue', jobs', d)
BY WholeQueue, ThreadKeeps DEF Safe

\* A worker counts when it holds no jobs.
LEMMA CountIdle ==
    ASSUME StructInv, [Next]_vars, NEW w \in Workers, counter'[w] # counter[w]
    PROVE  jobs'[w] = <<>>
<1>0. counter \in [Workers -> 0 .. CounterMod - 1]
  BY DEF StructInv, TypeOK
<1>1. CASE UNCHANGED counter
  BY <1>1
<1>2. CASE \/ Stop \/ Check \/ Repeated \/ GetJobs \/ Filter \/ Dispatch
           \/ StopNetwork \/ Join \/ EmptyQueue \/ Remaining \/ UNCHANGED vars
  BY <1>1, <1>2 DEF Stop, Check, Repeated, GetJobs, Filter, Dispatch, StopNetwork, Join, EmptyQueue, Remaining,
                    queueVars, vars
<1>3. ASSUME NEW t \in Threads,
             \/ RunJob(t) \/ ReadCounter(t) \/ SetCounters(t) \/ StartFind(t)
             \/ Find(t) \/ RunDelayed(t) \/ Unlink(t)
      PROVE  UNCHANGED counter
  BY <1>3, Zenon DEF RunJob, ReadCounter, SetCounters, StartFind, Find, RunDelayed, Unlink, queueVars
<1>4. ASSUME NEW v \in Workers, LoopCheck(v) \/ Dequeue(v) \/ EndBatch(v)
      PROVE  UNCHANGED counter
  BY <1>4 DEF LoopCheck, Dequeue, EndBatch, queueVars
<1>5. ASSUME NEW v \in Workers, Count(v)
      PROVE  jobs'[w] = <<>>
  <2>1. v = w
    BY <1>0, <1>5 DEF Count
  <2>2. pc[w] = "count" /\ jobs' = jobs
    BY <1>5, <2>1 DEF Count
  <2>. QED
    BY <2>2, ThreadKinds, BatchOf DEF ThreadOK
<1>. QED
  BY <1>1, <1>2, <1>3, <1>4, <1>5, Steps

\* What is known of a worker and a counter of it that was read.
LEMMA ReadKeeps ==
    ASSUME StructInv, [Next]_vars, NEW d \in Seq(Jobs), Noted(d, Base), QueueNewer(queue, 1, d),
           NEW w \in Workers, NEW v, Newer(jobs[w], d) \/ counter[w] = v
    PROVE  Newer(jobs'[w], d) \/ counter'[w] = v
BY ThreadKeeps, ThreadKinds, CountIdle, NewerEmpty

\* An entry whose counters are asked for or noted.
LEMMA AskedEntry ==
    ASSUME StructInv, [Next]_vars, NEW e \in 1 .. Len(entries) - 1
    PROVE  /\ e \in 1 .. Len(entries)
           /\ entries[e].jobs \in Seq(Jobs)
           /\ entries'[e].jobs = entries[e].jobs
           /\ Noted(entries[e].jobs, Base)
<1>1. e \in 1 .. Len(entries) /\ e < Len(entries)
  BY EntriesGrow
<1>. QED
  BY <1>1, EntryType, EntriesGrow DEF StructInv, EntriesOK

\* The entry a batch asks for.
LEMMA AskedNumber ==
    ASSUME NEW s \in Seq(Jobs), NEW n, Batch(s, n), Asks(s)
    PROVE  s[1].num \in 1 .. n - 1
BY BatchHead DEF Asks

LEMMA PlainAsks ==
    ASSUME NEW s \in Seq(Jobs), Plain(s)
    PROVE  ~Asks(s)
<1>1. s # <<>> => 1 \in 1 .. Len(s)
  OBVIOUS
<1>. QED
  BY <1>1 DEF Plain, Asks

LEMMA QueueAsksStep ==
    ASSUME StructInv, EpochInv, [Next]_vars
    PROVE  QueueAsks'
<1>0. TypeOK /\ QueueAsks
  BY DEF StructInv, EpochInv
<1>1. queue \in Seq(Seq(Jobs)) /\ Len(queue) \in Nat
  BY <1>0 DEF TypeOK
<1>2. ASSUME NEW k \in 1 .. Len(queue), Asks(queue[k])
      PROVE  LET d == entries[queue[k][1].num].jobs
             IN  /\ QueueNewer(queue, k, d)
                 /\ d \in Seq(Jobs)
                 /\ Noted(d, Base)
                 /\ entries'[queue[k][1].num].jobs = d
  <2>1. Batch(queue[k], Len(entries)) /\ queue[k] \in Seq(Jobs)
    BY <1>1 DEF StructInv, BatchesOK
  <2>2. queue[k][1].num \in 1 .. Len(entries) - 1
    BY <1>2, <2>1, AskedNumber
  <2>. QED
    BY <1>0, <1>2, <2>2, AskedEntry, SMTT(30) DEF QueueAsks
<1>3. CASE \E t \in Threads : Take(t)
  <2>1. PICK t \in Threads : Take(t)
    BY <1>3
  <2>2. ASSUME NEW k \in 1 .. Len(queue'), Asks(queue'[k])
        PROVE  QueueNewer(queue', k, entries'[queue'[k][1].num].jobs)
    <3>1. queue'[k] = queue[k + 1] /\ k + 1 \in 1 .. Len(queue) /\ k \in Nat /\ k >= 1
      BY <1>0, <2>1, TakeEffect
    <3>. QED
      BY <1>2, <2>1, <2>2, <3>1, TakeKeeps
  <2>. QED
    BY <2>2 DEF QueueAsks
<1>4. CASE ~\E t \in Threads : Take(t)
  <2>1. ASSUME NEW k \in 1 .. Len(queue), Asks(queue[k])
        PROVE  QueueNewer(queue', k, entries'[queue[k][1].num].jobs)
    <3>1. k \in Nat /\ k >= 1
      BY <1>1
    <3>. QED
      BY <1>2, <1>4, <2>1, <3>1, QueueKeeps
  <2>2. CASE UNCHANGED queue
    BY <2>1, <2>2 DEF QueueAsks
  <2>3. ASSUME NEW b, Ask(b)
        PROVE  QueueAsks'
    <3>1. ASSUME NEW k \in 1 .. Len(queue'), Asks(queue'[k])
          PROVE  QueueNewer(queue', k, entries'[queue'[k][1].num].jobs)
      <4>1. k \in 1 .. Len(queue) \/ k = Len(queue) + 1
        BY <1>0, <1>1, <2>3, AskEffect
      <4>2. CASE k \in 1 .. Len(queue)
        BY <1>0, <2>1, <2>3, <3>1, <4>2, AskEffect
      <4>3. CASE k = Len(queue) + 1
        <5>1. \A m \in k .. Len(queue') : queue'[m] = b
          BY <1>0, <1>1, <2>3, <4>3, AskEffect
        <5>. QED
          BY <2>3, <5>1, NewerCall DEF QueueNewer, Ask
      <4>. QED
        BY <4>1, <4>2, <4>3
    <3>. QED
      BY <3>1 DEF QueueAsks
  <2>4. CASE Dispatch
    <3>1. array \in Seq(Jobs) /\ \A i \in 1 .. Len(array) : array[i].type # "GETCOUNTERS"
      <4>1. array \in Seq(Jobs)
        BY <1>0 DEF TypeOK
      <4>2. \A i \in 1 .. Len(array) : array[i].type \in {"NORMAL", "DELAYED", "NOTHING"}
        BY DEF StructInv, ArrayOK
      <4>. QED
        BY <4>1, <4>2
    <3>2. ASSUME NEW k \in 1 .. Len(queue'), Asks(queue'[k])
          PROVE  QueueNewer(queue', k, entries'[queue'[k][1].num].jobs)
      <4>1. CASE k \in 1 .. Len(queue)
        BY <2>1, <2>4, <3>2, <4>1, DispatchEffect
      <4>2. CASE k - Len(queue) \in 1 .. NumSlices(array)
        <5>1. k = Len(queue) + (k - Len(queue))
          BY <1>1, <2>4, DispatchEffect
        <5> DEFINE m == k - Len(queue)
        <5>2. queue'[k] = Slices(array)[m] /\ m \in 1 .. NumSlices(array)
          BY <2>4, <4>2, <5>1, DispatchEffect
        <5> HIDE DEF m
        <5>3. /\ Slices(array)[m] \in Seq(Jobs)
              /\ \A x \in 1 .. Len(Slices(array)[m]) :
                   /\ First(array, m) + x - 1 \in 1 .. Len(array)
                   /\ Slices(array)[m][x] = array[First(array, m) + x - 1]
          BY <3>1, <5>2, SlicesType, Zenon
        <5>4. Slices(array)[m] # <<>> => 1 \in 1 .. Len(Slices(array)[m])
          BY <5>3
        <5>5. ~Asks(Slices(array)[m])
          BY <3>1, <5>3, <5>4 DEF Asks
        <5>. QED
          BY <3>2, <5>2, <5>5
      <4>. QED
        BY <2>4, <3>2, <4>1, <4>2, DispatchEffect
    <3>. QED
      BY <3>2 DEF QueueAsks
  <2>5. CASE StopNetwork
    BY <2>2, <2>5, StopEffect
  <2>6. CASE \E t \in Threads : Finish(t)
    BY <2>2, <2>6 DEF Finish
  <2>. QED
    BY <1>4, <2>2, <2>3, <2>4, <2>5, <2>6, Moves
<1>. QED
  BY <1>3, <1>4

\* The counters that a thread has read.
LEMMA SeenFrame ==
    ASSUME StructInv, [Next]_vars, NEW u \in Threads
    PROVE  seen'[u] = seen[u] \/ ReadCounter(u) \/ SetCounters(u)
<1>1. CASE \/ Stop \/ Check \/ Repeated \/ GetJobs \/ Filter \/ Dispatch
           \/ StopNetwork \/ Join \/ EmptyQueue \/ Remaining \/ UNCHANGED vars
  BY <1>1 DEF Stop, Check, Repeated, GetJobs, Filter, Dispatch, StopNetwork, Join, EmptyQueue, Remaining,
              threadVars, vars
<1>2. ASSUME NEW t \in Threads,
             \/ RunJob(t) \/ ReadCounter(t) \/ SetCounters(t) \/ StartFind(t)
             \/ Find(t) \/ RunDelayed(t) \/ Unlink(t)
      PROVE  seen'[u] = seen[u] \/ ReadCounter(u) \/ SetCounters(u)
  <2>1. CASE u # t
    BY <1>2, <2>1, OtherThread DEF Same
  <2>2. CASE u = t
    BY <1>2, <2>2 DEF RunJob, StartFind, Find, RunDelayed, Unlink
  <2>. QED
    BY <2>1, <2>2
<1>3. ASSUME NEW v \in Workers, LoopCheck(v) \/ Dequeue(v) \/ EndBatch(v) \/ Count(v)
      PROVE  UNCHANGED seen
  BY <1>3 DEF LoopCheck, Dequeue, EndBatch, Count
<1>. QED
  BY <1>1, <1>2, <1>3, Steps

LEMMA NumberedPlain ==
    ASSUME TypeOK, NEW a \in Arrays \cup LateArrays \cup StopArrays
    PROVE  Numbered(a) \in Seq(Jobs) /\ Plain(Numbered(a))
<1>1. nextJob \in Nat
  BY DEF TypeOK
<1>2. Numbered(a) \in Seq(Jobs) /\ Len(Numbered(a)) = Len(a)
  BY <1>1, NumberedType
<1>3. \A i \in 1 .. Len(a) : Numbered(a)[i].type \in {"NORMAL", "DELAYED"}
  BY <1>1, NumberedType
<1>. QED
  BY <1>2, <1>3 DEF Plain

LEMMA ReadEffect ==
    ASSUME NEW t \in Threads, ReadCounter(t)
    PROVE  \E v \in CounterValue(Len(seen[t]) + 1) : seen' = [seen EXCEPT ![t] = Append(@, v)]
BY Zenon DEF ReadCounter

LEMMA ThreadAsksStep ==
    ASSUME StructInv, EpochInv, [Next]_vars
    PROVE  ThreadAsks'
<1> SUFFICES ASSUME NEW t \in Threads, Asks(jobs'[t])
             PROVE  /\ Ahead(queue', jobs', entries'[jobs'[t][1].num].jobs)
                    /\ \A w \in Workers : w <= Len(seen'[t]) =>
                          Newer(jobs'[w], entries'[jobs'[t][1].num].jobs) \/ counter'[w] = seen'[t][w]
  BY DEF ThreadAsks
<1>0. TypeOK /\ Main \in Threads
  BY ThreadKinds DEF StructInv
<1>t. jobs \in [Threads -> Seq(Jobs)] /\ seen \in [Threads -> Seq(0 .. CounterMod - 1)]
  BY <1>0, SMTT(30) DEF TypeOK
<1> DEFINE n == jobs'[t][1].num
           d == entries[n].jobs
<1>1. ASSUME n \in 1 .. Len(entries) - 1
      PROVE  d \in Seq(Jobs) /\ Noted(d, Base) /\ entries'[n].jobs = d
  BY <1>1, AskedEntry
<1>2. ASSUME jobs'[t] = jobs[t]
      PROVE  /\ n \in 1 .. Len(entries) - 1
             /\ Ahead(queue, jobs, d)
             /\ \A w \in Workers : w <= Len(seen[t]) => Newer(jobs[w], d) \/ counter[w] = seen[t][w]
  <2>1. n \in 1 .. Len(entries) - 1
    BY <1>2, BatchOf, AskedNumber
  <2>2. ThreadAsks /\ Asks(jobs[t])
    BY <1>2 DEF EpochInv
  <2>. QED
    BY <1>2, <2>1, <2>2 DEF ThreadAsks
<1>3. CASE jobs'[t] = jobs[t] /\ seen'[t] = seen[t]
  <2>1. /\ d \in Seq(Jobs) /\ Noted(d, Base) /\ entries'[n].jobs = d
        /\ Ahead(queue, jobs, d)
        /\ \A w \in Workers : w <= Len(seen[t]) => Newer(jobs[w], d) \/ counter[w] = seen[t][w]
    BY <1>1, <1>2, <1>3, Zenon
  <2> HIDE DEF d
  <2>2. Ahead(queue', jobs', d)
    BY <2>1, AheadKeeps
  <2>3. ASSUME NEW w \in Workers, w <= Len(seen[t])
        PROVE  Newer(jobs'[w], d) \/ counter'[w] = seen[t][w]
    <3> DEFINE v == seen[t][w]
    <3>1. QueueNewer(queue, 1, d) /\ (Newer(jobs[w], d) \/ counter[w] = v)
      BY <2>1, <2>3 DEF Ahead
    <3> HIDE DEF v
    <3>2. Newer(jobs'[w], d) \/ counter'[w] = v
      BY <2>1, <3>1, ReadKeeps, Zenon
    <3>. QED
      BY <3>2 DEF v
  <2>. QED
    BY <1>3, <2>1, <2>2, <2>3
<1>4. CASE ReadCounter(t)
  <2>1. UNCHANGED <<queue, entries, counter, jobs>>
    BY <1>4 DEF ReadCounter, queueVars
  <2>2. /\ Ahead(queue, jobs, d)
        /\ \A w \in Workers : w <= Len(seen[t]) => Newer(jobs[w], d) \/ counter[w] = seen[t][w]
    BY <1>2, <2>1, Zenon
  <2>3. PICK v \in CounterValue(Len(seen[t]) + 1) : seen' = [seen EXCEPT ![t] = Append(@, v)]
    BY <1>4, ReadEffect
  <2>4. seen'[t] = Append(seen[t], v) /\ Len(seen[t]) \in Nat
    BY <1>t, <2>3
  <2>5. ASSUME NEW w \in Workers, w <= Len(seen'[t])
        PROVE  Newer(jobs[w], d) \/ counter[w] = seen'[t][w]
    <3>1. w \in Nat /\ w >= 1 /\ (w <= Len(seen[t]) \/ w = Len(seen[t]) + 1)
      BY <1>t, <2>4, <2>5, SizesAssumption DEF Workers
    <3>2. CASE w <= Len(seen[t])
      <4>1. seen'[t][w] = seen[t][w]
        BY <1>t, <2>4, <3>1, <3>2
      <4>. QED
        BY <2>2, <3>2, <4>1
    <3>3. CASE w = Len(seen[t]) + 1
      <4>1. seen'[t][w] = v /\ v \in CounterValue(w)
        BY <1>t, <2>3, <2>4, <3>3
      <4>2. CASE phase \in {"empty", "remaining", "end"}
        BY <4>2, Joined, NewerEmpty
      <4>3. CASE phase \notin {"empty", "remaining", "end"}
        BY <4>1, <4>3 DEF CounterValue
      <4>. QED
        BY <4>2, <4>3
    <3>. QED
      BY <3>1, <3>2, <3>3
  <2>. QED
    BY <2>1, <2>2, <2>5
<1>5. ASSUME Take(t)
      PROVE  /\ Ahead(queue', jobs', entries'[n].jobs)
             /\ Len(seen'[t]) = 0
  <2>1. jobs'[t] = queue[1] /\ 1 \in 1 .. Len(queue) /\ queue \in Seq(Seq(Jobs))
    <3>1. queue \in Seq(Seq(Jobs))
      BY <1>0 DEF TypeOK
    <3>. QED
      BY <1>0, <1>5, <3>1, TakeEffect
  <2>2. Batch(queue[1], Len(entries)) /\ queue[1] \in Seq(Jobs)
    BY <2>1 DEF StructInv, BatchesOK
  <2>3. n \in 1 .. Len(entries) - 1
    BY <2>1, <2>2, AskedNumber
  <2>4. QueueNewer(queue, 1, d)
    BY <2>1 DEF EpochInv, QueueAsks
  <2>5. d \in Seq(Jobs) /\ Noted(d, Base) /\ entries'[n].jobs = d
    BY <1>1, <2>3
  <2>6. n \in 1 .. Len(entries)
    BY <2>3, AskedEntry
  <2>7. t # Main => phase \notin {"empty", "remaining", "end"}
    <3>1. t # Main => t \in Workers /\ pc[t] = "dequeue"
      BY <1>5, ThreadKinds DEF Take
    <3>. QED
      BY <3>1 DEF StructInv, PhaseOK
  <2>8. t # Main => Newer(jobs[Main], d)
    <3>1. phase \in Phases
      BY <1>0 DEF TypeOK
    <3>2. CASE phase \in {"check", "repeated", "network", "filter"}
      BY <3>2, NewerEmpty DEF StructInv, PhaseOK
    <3>3. CASE phase = "stop"
      BY <2>6, <3>3 DEF StructInv, PhaseOK
    <3>. QED
      BY <2>7, <3>1, <3>2, <3>3 DEF Phases
  <2> HIDE DEF d
  <2>9. QueueNewer(queue', 1, d)
    BY <2>4, <2>5, WholeQueue
  <2>10. Newer(jobs'[Main], d)
    <3>1. CASE t = Main
      BY <2>1, <2>4, <3>1 DEF QueueNewer
    <3>2. CASE t # Main
      BY <1>0, <1>5, <2>8, <3>2, TakeEffect
    <3>. QED
      BY <3>1, <3>2
  <2>11. seen'[t] = <<>>
    <3>1. ~Asks(jobs[t])
      BY <1>5 DEF Take, Asks
    <3>. QED
      BY <1>5, <3>1, BatchOf DEF Take, ThreadOK
  <2>. QED
    BY <2>5, <2>9, <2>10, <2>11 DEF Ahead
<1>6. CASE Take(t)
  <2>1. \A w \in Workers : ~(w <= Len(seen'[t]))
    BY <1>5, <1>6, SizesAssumption DEF Workers
  <2>. QED
    BY <1>5, <1>6, <2>1
<1>7. ~Finish(t) /\ ~SetCounters(t)
  <2>1. ASSUME Finish(t) PROVE FALSE
    <3>1. Plain(jobs'[t]) /\ jobs'[t] \in Seq(Jobs)
      <4>1. jobs[t] \in Seq(Jobs) /\ jobs[t] # <<>> /\ jobs'[t] = Tail(jobs[t])
        BY <1>t, <2>1 DEF Finish, NextOf
      <4>2. jobs'[t] \in Seq(Jobs)
        BY <4>1
      <4>. QED
        BY <2>1, <4>2, FinishEffect
    <3>. QED
      BY <3>1, PlainAsks
  <2>2. SetCounters(t) => Finish(t)
    BY DEF SetCounters, Finish
  <2>. QED
    BY <2>1, <2>2
<1>8. ASSUME StopNetwork PROVE jobs'[t] = jobs[t]
  <2>1. PICK a \in StopArrays : jobs'[Main] = Numbered(a) /\ \A u \in Threads : u # Main => jobs'[u] = jobs[u]
    BY <1>8, StopEffect
  <2>2. Numbered(a) \in Seq(Jobs) /\ Plain(Numbered(a))
    BY <1>0, NumberedPlain
  <2>. QED
    BY <2>1, <2>2, PlainAsks
<1>9. jobs'[t] = jobs[t] \/ Take(t)
  <2>1. ASSUME NEW u \in Threads, u # t, Take(u) \/ Finish(u)
        PROVE  jobs'[t] = jobs[t]
    BY <1>0, <2>1, TakeEffect, FinishEffect
  <2>2. (Dispatch \/ \E b : Ask(b)) => jobs' = jobs
    BY DEF Dispatch, threadVars, Ask
  <2>. QED
    BY <1>7, <1>8, <2>1, <2>2, Moves
<1>. QED
  BY <1>3, <1>4, <1>6, <1>7, <1>9, SeenFrame, Zenon

LEMMA EntryAskedStep ==
    ASSUME StructInv, EpochInv, [Next]_vars
    PROVE  EntryAsked'
<1>0. Len(entries) \in Nat /\ ThreadAsks /\ EntryAsked
  BY EntriesGrow DEF EpochInv
<1>1. ASSUME NEW e \in 1 .. Len(entries) - 1, NEW c, Ahead(queue, jobs, entries[e].jobs),
             \A w \in Workers : Newer(jobs[w], entries[e].jobs) \/ counter[w] = c[w],
             entries'[e].counters = c
      PROVE  /\ Ahead(queue', jobs', entries'[e].jobs)
             /\ \A w \in Workers : Newer(jobs'[w], entries'[e].jobs) \/ counter'[w] = entries'[e].counters[w]
  <2> DEFINE d == entries[e].jobs
  <2>1. d \in Seq(Jobs) /\ Noted(d, Base) /\ entries'[e].jobs = d
    BY AskedEntry
  <2>2. Ahead(queue, jobs, d) /\ QueueNewer(queue, 1, d)
    BY <1>1 DEF Ahead
  <2>3. \A w \in Workers : Newer(jobs[w], d) \/ counter[w] = c[w]
    BY <1>1
  <2> HIDE DEF d
  <2>4. Ahead(queue', jobs', d)
    BY <2>1, <2>2, AheadKeeps
  <2>5. ASSUME NEW w \in Workers
        PROVE  Newer(jobs'[w], d) \/ counter'[w] = c[w]
    <3> DEFINE v == c[w]
    <3>1. Newer(jobs[w], d) \/ counter[w] = v
      BY <2>3
    <3> HIDE DEF v
    <3>2. Newer(jobs'[w], d) \/ counter'[w] = v
      BY <2>1, <2>2, <3>1, ReadKeeps, Zenon
    <3>. QED
      BY <3>2 DEF v
  <2>. QED
    BY <1>1, <2>1, <2>4, <2>5
<1>2. ASSUME NEW e \in 1 .. Len(entries), entries[e].counters # NoCounters,
             entries'[e].counters = entries[e].counters
      PROVE  /\ Ahead(queue', jobs', entries'[e].jobs)
             /\ \A w \in Workers : Newer(jobs'[w], entries'[e].jobs) \/ counter'[w] = entries'[e].counters[w]
  <2>1. e < Len(entries)
    BY <1>2 DEF StructInv, EntriesOK
  <2>2. e \in 1 .. Len(entries) - 1
    BY <1>0, <2>1
  <2>3. /\ Ahead(queue, jobs, entries[e].jobs)
        /\ \A w \in Workers : Newer(jobs[w], entries[e].jobs) \/ counter[w] = entries[e].counters[w]
    BY <1>0, <1>2 DEF EntryAsked
  <2>. QED
    BY <1>1, <1>2, <2>2, <2>3
<1>3. CASE UNCHANGED entries
  BY <1>2, <1>3 DEF EntryAsked
<1>4. CASE Filter
  <2>1. ASSUME NEW e \in 1 .. Len(entries'), entries'[e].counters # NoCounters
        PROVE  e \in 1 .. Len(entries) /\ entries'[e].counters = entries[e].counters
    <3>1. \/ Len(entries') = Len(entries)
          \/ Len(entries') = Len(entries) + 1 /\ entries'[Len(entries) + 1].counters = NoCounters
      BY <1>4, FilterEntries
    <3>2. e \in 1 .. Len(entries)
      BY <1>0, <2>1, <3>1
    <3>3. \A x \in 1 .. Len(entries) : entries'[x].counters = entries[x].counters
      BY <1>4, FilterEntries
    <3>. QED
      BY <3>2, <3>3
  <2>. QED
    BY <1>2, <2>1 DEF EntryAsked
<1>5. ASSUME NEW t \in Threads, SetCounters(t)
      PROVE  EntryAsked'
  <2>1. Asks(jobs[t]) /\ Len(seen[t]) = NThreads
    BY <1>5, SetCountersEntries, Zenon DEF SetCounters, Asks
  <2> DEFINE n == jobs[t][1].num
  <2>2. n \in 1 .. Len(entries) - 1 /\ Len(entries') = Len(entries)
    BY <1>5, SetCountersEntries
  <2>3. /\ Ahead(queue, jobs, entries[n].jobs)
        /\ \A w \in Workers : w <= Len(seen[t]) => Newer(jobs[w], entries[n].jobs) \/ counter[w] = seen[t][w]
    BY <1>0, <2>1 DEF ThreadAsks
  <2>4. \A w \in Workers : w <= Len(seen[t])
    BY <2>1, SizesAssumption DEF Workers
  <2>5. \A e \in 1 .. Len(entries) :
           entries'[e].counters = IF e = n THEN seen[t] ELSE entries[e].counters
    BY <1>5, SetCountersEntries
  <2> HIDE DEF n
  <2>6. ASSUME NEW e \in 1 .. Len(entries), entries'[e].counters # NoCounters
        PROVE  /\ Ahead(queue', jobs', entries'[e].jobs)
               /\ \A w \in Workers : Newer(jobs'[w], entries'[e].jobs) \/ counter'[w] = entries'[e].counters[w]
    <3>1. CASE e = n
      BY <1>1, <2>2, <2>3, <2>4, <2>5, <3>1, SMTT(30)
    <3>2. CASE e # n
      BY <1>2, <2>5, <2>6, <3>2
    <3>. QED
      BY <3>1, <3>2
  <2>. QED
    BY <2>2, <2>6 DEF EntryAsked
<1>6. ASSUME NEW t \in Threads, Unlink(t)
      PROVE  EntryAsked'
  <2>1. Len(entries') = Len(entries) /\ \A e \in 1 .. Len(entries) : entries'[e].counters = entries[e].counters
    BY <1>6, UnlinkEntries
  <2>. QED
    BY <1>2, <2>1 DEF EntryAsked
<1>. QED
  BY <1>3, <1>4, <1>5, <1>6, EntriesFrame

\* All threads have moved on: the jobs of the entry may run.
LEMMA MovedSafe ==
    ASSUME StructInv, EpochInv, NEW e \in 1 .. Len(entries), AllMoved(entries[e])
    PROVE  Safe(queue, jobs, entries[e].jobs)
<1>1. /\ Ahead(queue, jobs, entries[e].jobs)
      /\ \A w \in Workers : Newer(jobs[w], entries[e].jobs) \/ counter[w] = entries[e].counters[w]
  BY DEF EpochInv, EntryAsked, AllMoved
<1>2. ASSUME NEW w \in Workers
      PROVE  Newer(jobs[w], entries[e].jobs)
  <2>1. CASE phase \in {"empty", "remaining", "end"}
    BY <2>1, Joined, NewerEmpty
  <2>2. CASE phase \notin {"empty", "remaining", "end"}
    <3>1. entries[e].counters[w] # counter[w]
      BY <2>2 DEF AllMoved, CounterValue
    <3>. QED
      BY <1>1, <3>1
  <2>. QED
    BY <2>1, <2>2
<1>. QED
  BY <1>1, <1>2, ThreadKinds DEF Ahead, Safe

LEMMA SafeTail ==
    ASSUME NEW q, NEW h, NEW d \in Seq(Jobs), d # <<>>, Safe(q, h, d)
    PROVE  Safe(q, h, Tail(d))
<1>1. ASSUME NEW s, Newer(s, d)
      PROVE  Newer(s, Tail(d))
  <2>1. /\ Len(Tail(d)) = Len(d) - 1 /\ Len(d) \in Nat
        /\ \A i \in 1 .. Len(Tail(d)) : Tail(d)[i] = d[i + 1] /\ i + 1 \in 1 .. Len(d)
    OBVIOUS
  <2>. QED
    BY <1>1, <2>1 DEF Newer
<1>. QED
  BY <1>1 DEF Safe, QueueNewer

\* With nothing in the queue and nothing in hand all delayed jobs may run.
LEMMA NothingLeft ==
    ASSUME StructInv, phase' \in {"remaining", "end"}, StructInv', NEW d
    PROVE  Safe(queue', jobs', d)
<1>1. queue' = <<>> /\ jobs'[Main] = <<>> /\ \A w \in Workers : pc'[w] = "exit"
  BY DEF StructInv, PhaseOK
<1>2. \A w \in Workers : jobs'[w] = <<>>
  BY <1>1, ThreadKinds DEF StructInv, ThreadsOK, ThreadOK
<1>3. \A t \in Threads : jobs'[t] = <<>>
  BY <1>1, <1>2, ThreadKinds
<1>4. QueueNewer(queue', 1, d)
  BY <1>1 DEF QueueNewer
<1>. QED
  BY <1>3, <1>4, NewerEmpty DEF Safe

LEMMA TodoSafeStep ==
    ASSUME StructInv, EpochInv, [Next]_vars
    PROVE  TodoSafe'
<1>0. TypeOK /\ StructInv' /\ TodoSafe
  BY StructStep DEF StructInv, EpochInv
<1>1. dw \in [Threads -> Nat] /\ todo \in [Threads -> Seq(Jobs)] /\ pc \in [Threads -> PCs]
  BY <1>0 DEF TypeOK
<1>2. CASE phase' \in {"remaining", "end"}
  BY <1>0, <1>2, NothingLeft DEF TodoSafe
<1>3. ASSUME NEW d \in Seq(Jobs), Noted(d, Base), Safe(queue, jobs, d)
      PROVE  Safe(queue', jobs', d) /\ (d # <<>> => Safe(queue', jobs', Tail(d)))
  BY <1>3, SafeKeeps, SafeTail
<1>4. ASSUME NEW e \in 1 .. Len(entries) - 1, Safe(queue, jobs, entries[e].jobs)
      PROVE  Safe(queue', jobs', entries[e].jobs) /\ Safe(queue', jobs', entries'[e].jobs)
  BY <1>3, <1>4, AskedEntry
<1>5. ASSUME NEW u \in Threads
      PROVE  /\ Safe(queue, jobs, todo[u]) /\ Noted(todo[u], Base)
             /\ Safe(queue', jobs', todo[u])
             /\ todo[u] # <<>> => Safe(queue', jobs', Tail(todo[u]))
  <2>1. Safe(queue, jobs, todo[u]) /\ Noted(todo[u], Base) /\ todo[u] \in Seq(Jobs)
    BY <1>0, <1>1, BatchOf, Zenon DEF TodoSafe, ThreadOK
  <2>. QED
    BY <1>3, <2>1
<1>6. ASSUME NEW u \in Threads, pc[u] = "delayed"
      PROVE  /\ dw[u] \in 1 .. Len(entries) - 1
             /\ Safe(queue', jobs', entries[dw[u]].jobs)
             /\ Safe(queue', jobs', entries'[dw[u]].jobs)
  <2>1. before[u] = dw[u] + 1 /\ before[u] <= Len(entries) /\ dw[u] # NoEntry /\ Len(entries) \in Nat
    BY <1>6, BatchOf, EntriesGrow DEF ThreadOK
  <2>2. dw[u] \in 1 .. Len(entries) - 1
    BY <1>1, <2>1 DEF NoEntry
  <2>3. Safe(queue, jobs, entries[dw[u]].jobs)
    BY <1>0, <1>6 DEF TodoSafe
  <2>. QED
    BY <1>4, <2>2, <2>3
<1>7. ASSUME NEW u \in Threads, pc'[u] = pc[u], dw'[u] = dw[u], todo'[u] = todo[u]
      PROVE  /\ Safe(queue', jobs', todo'[u])
             /\ pc'[u] = "delayed" => Safe(queue', jobs', entries'[dw'[u]].jobs)
  BY <1>5, <1>6, <1>7
<1>8. CASE UNCHANGED <<pc, dw, todo>>
  BY <1>7, <1>8 DEF TodoSafe
<1>9. ASSUME NEW t \in Threads,
             \/ RunJob(t) \/ ReadCounter(t) \/ SetCounters(t) \/ StartFind(t)
             \/ Find(t) \/ RunDelayed(t) \/ Unlink(t)
      PROVE  TodoSafe'
  <2>1. ASSUME NEW u \in Threads, u # t
        PROVE  /\ Safe(queue', jobs', todo'[u])
               /\ pc'[u] = "delayed" => Safe(queue', jobs', entries'[dw'[u]].jobs)
    BY <1>7, <1>9, <2>1, OtherThread, Zenon DEF Same
  <2> SUFFICES /\ Safe(queue', jobs', todo'[t])
               /\ pc'[t] = "delayed" => Safe(queue', jobs', entries'[dw'[t]].jobs)
    BY <2>1 DEF TodoSafe
  <2>2. CASE RunJob(t) \/ ReadCounter(t) \/ SetCounters(t)
    BY <1>7, <2>2 DEF RunJob, ReadCounter, SetCounters, delayedVars
  <2>3. CASE StartFind(t)
    <3>1. pc'[t] = "find" /\ todo' = todo
      BY <1>1, <2>3 DEF StartFind
    <3>. QED
      BY <1>5, <3>1
  <2>4. CASE Find(t)
    <3>1. CASE dw[t] = NoEntry
      <4>1. pc'[t] = "job" /\ todo' = todo
        BY <1>1, <2>4, <3>1 DEF Find, delayedVars
      <4>. QED
        BY <1>5, <4>1
    <3>2. CASE dw[t] # NoEntry /\ UNCHANGED <<pc, todo>>
      <4>1. pc'[t] = "find"
        BY <2>4, <3>2 DEF Find
      <4>. QED
        BY <1>5, <3>2, <4>1, Zenon
    <3>3. CASE dw[t] # NoEntry /\ AllMoved(entries[dw[t]]) /\ todo' = [todo EXCEPT ![t] = entries[dw[t]].jobs]
               /\ UNCHANGED dw
      <4>1. before[t] = dw[t] + 1 /\ before[t] <= Len(entries) /\ Len(entries) \in Nat
        BY <2>4, <3>3, BatchOf, EntriesGrow, Zenon DEF Find, ThreadOK
      <4>2. dw[t] \in 1 .. Len(entries) - 1 /\ dw[t] \in 1 .. Len(entries)
        BY <1>1, <3>3, <4>1 DEF NoEntry
      <4>3. Safe(queue, jobs, entries[dw[t]].jobs)
        BY <3>3, <4>2, MovedSafe
      <4>4. todo'[t] = entries[dw[t]].jobs /\ dw'[t] = dw[t]
        BY <1>1, <3>3
      <4>. QED
        BY <1>4, <4>2, <4>3, <4>4, Zenon
    <3>. QED
      BY <2>4, <3>1, <3>2, <3>3, Zenon DEF Find
  <2>5. CASE RunDelayed(t)
    <3>1. todo'[t] = Tail(todo[t]) /\ todo[t] # <<>> /\ pc' = pc /\ dw' = dw
      BY <1>1, <2>5 DEF RunDelayed
    <3>. QED
      BY <1>5, <1>6, <3>1
  <2>6. CASE Unlink(t)
    <3>1. pc[t] = "delayed" /\ dw'[t] = entries[before[t]].next
      BY <1>1, <2>6 DEF Unlink
    <3>2. before[t] \in 1 .. Len(entries) /\ before[t] = dw[t] + 1
      BY <2>6, UnlinkEntries
    <3>3. CASE entries[before[t]].next = NoEntry
      <4>1. pc'[t] = "job" /\ todo' = todo
        BY <1>1, <2>6, <3>3 DEF Unlink
      <4>. QED
        BY <1>5, <4>1
    <3>4. CASE entries[before[t]].next # NoEntry
      <4>1. entries[before[t]].next \in Nat /\ before[t] = entries[before[t]].next + 1
        BY <3>2, <3>4, NextEntry
      <4>2. entries[before[t]].next = dw[t]
        BY <1>1, <3>2, <4>1
      <4>3. todo'[t] = entries[dw[t]].jobs \/ todo'[t] = todo[t]
        BY <1>1, <2>6, <3>4, <4>2 DEF Unlink
      <4>. QED
        BY <1>5, <1>6, <3>1, <4>2, <4>3
    <3>. QED
      BY <3>3, <3>4
  <2>. QED
    BY <1>9, <2>2, <2>3, <2>4, <2>5, <2>6, Zenon
<1>10. CASE Stop \/ Check \/ Repeated \/ GetJobs \/ Filter \/ Dispatch \/ StopNetwork \/ Join \/ UNCHANGED vars
  BY <1>8, <1>10 DEF Stop, Check, Repeated, GetJobs, Filter, Dispatch, StopNetwork, Join,
                     threadVars, delayedVars, vars
<1>11. CASE EmptyQueue
  BY <1>2, <1>8, <1>11 DEF EmptyQueue
<1>12. CASE Remaining
  BY <1>2, <1>12 DEF Remaining
<1>13. ASSUME NEW w \in Workers, LoopCheck(w) \/ Dequeue(w) \/ EndBatch(w) \/ Count(w)
       PROVE  TodoSafe'
  <2>1. w \in Threads
    BY ThreadKinds
  <2>2. UNCHANGED <<dw, todo>> /\ pc'[w] # "delayed"
    BY <1>1, <1>13, <2>1 DEF LoopCheck, Dequeue, EndBatch, Count, delayedVars
  <2>3. ASSUME NEW u \in Threads, u # w
        PROVE  pc'[u] = pc[u]
    BY <1>13, <2>1, <2>3, OtherThread, Zenon DEF Same
  <2>. QED
    BY <1>5, <1>7, <2>2, <2>3 DEF TodoSafe
<1>. QED
  BY <1>9, <1>10, <1>11, <1>12, <1>13, Steps

LEMMA EpochInit == Init => EpochInv
<1> SUFFICES ASSUME Init PROVE EpochInv
  OBVIOUS
<1>1. entries = <<>> /\ queue = <<>>
  BY DEF Init
<1>2. \A t \in Threads : jobs[t] = <<>> /\ todo[t] = <<>> /\ pc[t] \in {"job", "loop"}
  BY DEF Init
<1>3. QueueAsks /\ EntryAsked
  BY <1>1 DEF QueueAsks, EntryAsked
<1>4. ThreadAsks
  BY <1>2 DEF ThreadAsks, Asks
<1>5. QueueNewer(queue, 1, <<>>)
  BY <1>1 DEF QueueNewer
<1>6. TodoSafe
  BY <1>2, <1>5, NewerEmpty DEF TodoSafe, Safe
<1>. QED
  BY <1>3, <1>4, <1>6 DEF EpochInv

LEMMA EpochStep ==
    ASSUME StructInv, EpochInv, [Next]_vars
    PROVE  EpochInv'
BY QueueAsksStep, ThreadAsksStep, EntryAskedStep, TodoSafeStep DEF EpochInv

-----------------------------------------------------------------------------
(* Delayed jobs run after the jobs dispatched before them *)

\* No connection is open when the network layer stops, so that its last jobs free nothing.
NoneOpenAtStop == \A a \in StopArrays : \A i \in 1 .. Len(a) : a[i] # "DELAYED"

\* The filter has removed the delayed jobs from what is dispatched.
Undelayed(s) == \A i \in 1 .. Len(s) : s[i].type # "DELAYED"
Filtered ==
    /\ \A k \in 1 .. Len(queue) : Undelayed(queue[k])
    /\ \A t \in Threads : Undelayed(jobs[t])

LEMMA FilteredStep ==
    ASSUME NoneOpenAtStop, StructInv, Filtered, [Next]_vars
    PROVE  Filtered'
<1>0. TypeOK
  BY DEF StructInv
<1>1. CASE UNCHANGED <<queue, jobs>>
  BY <1>1 DEF Filtered
<1>2. ASSUME NEW b, Ask(b)
      PROVE  Filtered'
  <2>1. Len(queue) \in Nat
    BY <1>0 DEF TypeOK
  <2>2. Undelayed(b) /\ jobs' = jobs
    BY <1>2 DEF Ask, Call, Looks, Asks, Undelayed
  <2>3. \A k \in 1 .. Len(queue') : k \in 1 .. Len(queue) \/ k = Len(queue) + 1
    BY <1>0, <1>2, <2>1, AskEffect
  <2>. QED
    BY <1>0, <1>2, <2>2, <2>3, AskEffect DEF Filtered
<1>3. ASSUME NEW t \in Threads, Take(t)
      PROVE  Filtered'
  <2>1. 1 \in 1 .. Len(queue)
    BY <1>0, <1>3, TakeEffect
  <2>. QED
    BY <1>0, <1>3, <2>1, TakeEffect DEF Filtered
<1>4. ASSUME NEW t \in Threads, Finish(t)
      PROVE  Filtered'
  <2>1. Undelayed(jobs'[t])
    BY <1>4, FinishEffect DEF Filtered, Undelayed
  <2>. QED
    BY <1>4, <2>1, FinishEffect DEF Filtered
<1>5. CASE Dispatch
  <2>1. array \in Seq(Jobs) /\ \A i \in 1 .. Len(array) : array[i].type # "DELAYED"
    BY <1>0, <1>5, Zenon DEF TypeOK, Dispatch, Unfiltered
  <2>2. ASSUME NEW k \in 1 .. NumSlices(array)
        PROVE  Undelayed(Slices(array)[k])
    <3>1. \A i \in 1 .. Len(Slices(array)[k]) :
             /\ First(array, k) + i - 1 \in 1 .. Len(array)
             /\ Slices(array)[k][i] = array[First(array, k) + i - 1]
      BY <2>1, SlicesType
    <3>2. ASSUME NEW i \in 1 .. Len(Slices(array)[k])
          PROVE  Slices(array)[k][i].type # "DELAYED"
      BY <2>1, <3>1, Zenon
    <3>. QED
      BY <3>2, Zenon DEF Undelayed
  <2>3. ASSUME NEW k \in 1 .. Len(queue')
        PROVE  Undelayed(queue'[k])
    <3>1. CASE k \in 1 .. Len(queue)
      BY <1>5, <3>1, DispatchEffect DEF Filtered
    <3>2. CASE k - Len(queue) \in 1 .. NumSlices(array)
      <4>1. k = Len(queue) + (k - Len(queue))
        BY <1>5, DispatchEffect
      <4>. QED
        BY <1>5, <2>2, <3>2, <4>1, DispatchEffect
    <3>. QED
      BY <1>5, <3>1, <3>2, DispatchEffect
  <2>. QED
    BY <1>5, <2>3, DispatchEffect DEF Filtered
<1>6. CASE StopNetwork
  <2>1. PICK a \in StopArrays :
              /\ jobs'[Main] = Numbered(a)
              /\ \A u \in Threads : u # Main => jobs'[u] = jobs[u]
              /\ queue' = queue
    BY <1>6, StopEffect
  <2>2. Len(Numbered(a)) = Len(a)
    BY <1>0, NumberedType DEF TypeOK
  <2>3. \A i \in 1 .. Len(a) : Numbered(a)[i].type = a[i]
    BY DEF Numbered, Job
  <2>4. Undelayed(Numbered(a))
    BY <2>2, <2>3 DEF Undelayed, NoneOpenAtStop
  <2>. QED
    BY <2>1, <2>4 DEF Filtered
<1>. QED
  BY <1>1, <1>2, <1>3, <1>4, <1>5, <1>6, Moves

LEMMA FilteredInit == Init => Filtered
BY DEF Init, Filtered, Undelayed

\* A delayed job that a thread has found in an entry, or finds there at shutdown, may run.
LEMMA SafeListed ==
    ASSUME StructInv, TodoSafe
    PROVE  ListedAfterDispatched
<1> SUFFICES ASSUME NEW t \in Threads, todo[t] # <<>>, NEW n \in Unfinished
             PROVE  n >= Head(todo[t]).first
  BY DEF ListedAfterDispatched, ExecutingListed
<1>1. todo[t] \in Seq(Jobs)
  BY DEF StructInv, TypeOK
<1>2. Head(todo[t]) = todo[t][1] /\ 1 \in 1 .. Len(todo[t])
  BY <1>1
<1>3. Safe(queue, jobs, todo[t])
  BY DEF TodoSafe
<1>4. PICK j : /\ j.type = "NORMAL" /\ j.num = n
               /\ \/ \E k \in 1 .. Len(queue) : \E i \in 1 .. Len(queue[k]) : j = queue[k][i]
                  \/ \E u \in Threads : \E i \in 1 .. Len(jobs[u]) : j = jobs[u][i]
  BY DEF Unfinished, Elements
<1>5. CASE \E k \in 1 .. Len(queue) : \E i \in 1 .. Len(queue[k]) : j = queue[k][i]
  BY <1>2, <1>3, <1>4, <1>5 DEF Safe, QueueNewer, Newer
<1>6. CASE \E u \in Threads : \E i \in 1 .. Len(jobs[u]) : j = jobs[u][i]
  BY <1>2, <1>3, <1>4, <1>6 DEF Safe, Newer
<1>. QED
  BY <1>4, <1>5, <1>6

LEMMA EpochAlways == Spec => [](StructInv /\ EpochInv)
<1>1. Init => StructInv /\ EpochInv
  BY StructInit, EpochInit
<1>2. StructInv /\ EpochInv /\ [Next]_vars => (StructInv /\ EpochInv)'
  BY StructStep, EpochStep
<1>. QED
  BY <1>1, <1>2, PTL DEF Spec

\* Epoch based reclamation works for any number of workers, any batch and entry sizes and
\* counters that wrap around: a job of an entry is executed only when all normal jobs that
\* were dispatched before it was added are finished, by workers and at shutdown.
THEOREM ListedJobsWait == Spec => []ListedAfterDispatched
<1>1. StructInv /\ EpochInv => ListedAfterDispatched
  BY SafeListed DEF EpochInv
<1>. QED
  BY <1>1, EpochAlways, PTL

\* If no connection is open when the network layer stops, that is true of every delayed job;
\* otherwise the main thread executes those of stop at once, beside the workers.
THEOREM DelayedJobsWait ==
    ASSUME NoneOpenAtStop
    PROVE  Spec => []DelayedAfterDispatched
<1>1. ASSUME StructInv, TodoSafe, Filtered
      PROVE  DelayedAfterDispatched
  <2>1. ASSUME NEW t \in Threads, jobs[t] # <<>>
        PROVE  Head(jobs[t]).type # "DELAYED"
    <3>1. jobs[t] \in Seq(Jobs)
      BY <1>1 DEF StructInv, TypeOK
    <3>2. Head(jobs[t]) = jobs[t][1] /\ 1 \in 1 .. Len(jobs[t])
      BY <2>1, <3>1
    <3>. QED
      BY <1>1, <3>2 DEF Filtered, Undelayed
  <2>2. ExecutingDelayed = ExecutingListed
    BY <2>1 DEF ExecutingDelayed, ExecutingListed
  <2>3. ListedAfterDispatched
    BY <1>1, SafeListed
  <2>. QED
    BY <2>2, <2>3 DEF ListedAfterDispatched, DelayedAfterDispatched
<1>2. Init => StructInv /\ EpochInv /\ Filtered
  BY StructInit, EpochInit, FilteredInit
<1>3. StructInv /\ EpochInv /\ Filtered /\ [Next]_vars => (StructInv /\ EpochInv /\ Filtered)'
  BY StructStep, EpochStep, FilteredStep
<1>4. StructInv /\ EpochInv /\ Filtered => DelayedAfterDispatched
  BY <1>1 DEF EpochInv
<1>. QED
  BY <1>2, <1>3, <1>4, PTL DEF Spec
=============================================================================
