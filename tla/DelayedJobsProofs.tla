-------------------------- MODULE DelayedJobsProofs --------------------------
(***************************************************************************)
(* Proofs about DelayedJobs, for any number of workers, any job arrays,    *)
(* any size of batches and of entries and any width of the counters.       *)
(***************************************************************************)
EXTENDS DelayedJobs, Integers, TLAPS

Entry == [jobs : Seq(Jobs), next : Nat, counters : Seq(0 .. CounterMod - 1)]

-----------------------------------------------------------------------------
(* The inductive invariant *)

\* The number of the first job of the current array: all jobs before it are dispatched.
Base == nextJob - Len(array)

\* No normal job of s was dispatched before a delayed job of d was created.
Newer(s, d) ==
    \A i \in 1 .. Len(s), j \in 1 .. Len(d) : s[i].type = "NORMAL" => s[i].num >= d[j].first

\* The same for the batches of a queue from the k-th on.
QueueNewer(q, k, d) == \A m \in k .. Len(q) : Newer(q[m], d)

\* The same for all that a worker may still take: a queue q, and the jobs h[Main] that the
\* main thread holds.
Ahead(q, h, d) == QueueNewer(q, 1, d) /\ Newer(h[Main], d)

\* The delayed jobs d may run: all normal jobs dispatched before them are finished.
Safe(q, h, d) == QueueNewer(q, 1, d) /\ \A t \in Threads : Newer(h[t], d)

\* The delayed jobs d were created for the array that begins with the job b, or before.
Noted(d, b) == \A j \in 1 .. Len(d) : d[j].first <= b

\* A batch is a slice of a job array, or one of the two calls of this file, for one of n entries.
Plain(s) == \A i \in 1 .. Len(s) : s[i].type \in {"NORMAL", "NOTHING", "DELAYED"}
Asks(s) == s # <<>> /\ s[1].type = "GETCOUNTERS"
Looks(s) == s # <<>> /\ s[1].type = "DISPATCHDELAYED"
Call(s, n) ==
    /\ Len(s) = 1
    /\ Looks(s) \/ (Asks(s) /\ s[1].num \in 1 .. n - 1)
Batch(s, n) == Plain(s) \/ Call(s, n)

BatchesOK ==
    /\ \A k \in 1 .. Len(queue) : Batch(queue[k], Len(entries))
    /\ \A t \in Threads : Batch(jobs[t], Len(entries))

ArrayOK ==
    /\ \A i \in 1 .. Len(array) :
          /\ array[i].type \in {"NORMAL", "DELAYED", "NOTHING"}
          /\ array[i].num = Base + i - 1
          /\ array[i].first = Base
    /\ phase # "filter" => array = <<>>
    /\ Base >= 1

\* The list runs from newer to older entries, and only full ones get their counters.
EntriesOK ==
    \A e \in 1 .. Len(entries) :
        /\ entries[e].next \in {e - 1, NoEntry}
        /\ entries[e].counters # NoCounters => Len(entries[e].counters) = NThreads /\ e < Len(entries)
        /\ Noted(entries[e].jobs, Base)

\* What a thread has at each place of workerLoop and processJobs.
ThreadOK(t) ==
    /\ pc[t] \in {"loop", "dequeue", "count", "exit"} => t # Main /\ jobs[t] = <<>>
    /\ pc[t] \in {"find", "delayed"} =>
          /\ Looks(jobs[t])
          /\ dw[t] # NoEntry => before[t] = dw[t] + 1 /\ before[t] <= Len(entries)
    /\ pc[t] = "delayed" => dw[t] # NoEntry
    /\ Len(seen[t]) <= NThreads
    /\ ~Asks(jobs[t]) => seen[t] = <<>>
    /\ Noted(todo[t], Base)

ThreadsOK == \A t \in Threads : ThreadOK(t)

\* What the main thread and the workers hold in each phase.
PhaseOK ==
    /\ phase \in {"check", "repeated", "network", "filter"} => jobs[Main] = <<>>
    /\ phase = "stop" => Plain(jobs[Main]) /\ \A e \in 1 .. Len(entries) : Newer(jobs[Main], entries[e].jobs)
    /\ phase \in {"empty", "remaining", "end"} => \A w \in Workers : pc[w] = "exit"
    /\ phase \in {"remaining", "end"} =>
          queue = <<>> /\ jobs[Main] = <<>> /\ dw[Main] \in 0 .. Len(entries)

StructInv == TypeOK /\ BatchesOK /\ ArrayOK /\ EntriesOK /\ ThreadsOK /\ PhaseOK

-----------------------------------------------------------------------------
(* Steps *)

LEMMA ThreadKinds ==
    /\ Main \in Threads
    /\ \A w \in Workers : w \in Threads /\ w # Main /\ w \in Nat
    /\ \A t \in Threads : t = Main \/ t \in Workers
BY SizesAssumption DEF Threads, Main, Workers

\* Every step of the system is one of these.
LEMMA Steps ==
    ASSUME [Next]_vars
    PROVE  \/ Stop \/ Check \/ Repeated \/ GetJobs \/ Filter \/ Dispatch
           \/ StopNetwork \/ Join \/ EmptyQueue \/ Remaining
           \/ \E t \in Threads : \/ RunJob(t) \/ ReadCounter(t) \/ SetCounters(t) \/ StartFind(t)
                                 \/ Find(t) \/ RunDelayed(t) \/ Unlink(t)
           \/ \E w \in Workers : LoopCheck(w) \/ Dequeue(w) \/ EndBatch(w) \/ Count(w)
           \/ UNCHANGED vars
<1>1. CASE MainStep
  BY <1>1, ThreadKinds DEF MainStep, JobStep
<1>2. ASSUME NEW w \in Workers, WorkerStep(w)
      PROVE  \/ \E t \in Threads : \/ RunJob(t) \/ ReadCounter(t) \/ SetCounters(t) \/ StartFind(t)
                                   \/ Find(t) \/ RunDelayed(t) \/ Unlink(t)
             \/ LoopCheck(w) \/ Dequeue(w) \/ EndBatch(w) \/ Count(w)
  BY <1>2, ThreadKinds DEF WorkerStep, JobStep
<1>. QED
  BY <1>1, <1>2 DEF Next

-----------------------------------------------------------------------------
(* Types *)

\* The job array is well typed and numbered.
LEMMA NumberedType ==
    ASSUME nextJob \in Nat, NEW a \in Arrays \cup LateArrays \cup StopArrays
    PROVE  /\ Numbered(a) \in Seq(Jobs)
           /\ Len(Numbered(a)) = Len(a)
           /\ Len(a) \in Nat
           /\ \A i \in 1 .. Len(a) :
                 /\ Numbered(a)[i].type \in {"NORMAL", "DELAYED"}
                 /\ Numbered(a)[i].num = nextJob + i - 1
                 /\ Numbered(a)[i].first = nextJob
<1>1. a \in Seq({"NORMAL", "DELAYED"})
  BY ArraysAssumption
<1>2. \A i \in 1 .. Len(a) : Numbered(a)[i] = [type |-> a[i], num |-> nextJob + i - 1, first |-> nextJob]
  BY DEF Numbered, Job
<1>3. ASSUME NEW i \in 1 .. Len(a)
      PROVE  Numbered(a)[i] \in Jobs
  <2>1. a[i] \in {"NORMAL", "DELAYED"} /\ nextJob + i - 1 \in Nat
    BY <1>1
  <2>2. Numbered(a)[i] = [type |-> a[i], num |-> nextJob + i - 1, first |-> nextJob]
    BY <1>2
  <2>. QED
    BY <2>1, <2>2 DEF Jobs, JobType
<1>4. Numbered(a) \in [1 .. Len(a) -> Jobs]
  BY <1>3 DEF Numbered
<1>5. Len(a) \in Nat
  BY <1>1
<1>6. Numbered(a) \in Seq(Jobs) /\ Len(Numbered(a)) = Len(a)
  BY <1>4, <1>5
<1>7. \A i \in 1 .. Len(a) : a[i] \in {"NORMAL", "DELAYED"}
  BY <1>1
<1>8. ASSUME NEW i \in 1 .. Len(a)
      PROVE  /\ Numbered(a)[i].type \in {"NORMAL", "DELAYED"}
             /\ Numbered(a)[i].num = nextJob + i - 1
             /\ Numbered(a)[i].first = nextJob
  <2>1. Numbered(a)[i] = [type |-> a[i], num |-> nextJob + i - 1, first |-> nextJob]
    BY <1>2
  <2>. QED
    BY <2>1, <1>7
<1>. QED
  BY <1>5, <1>6, <1>8

\* The slices of an array are the parts of it from First to Final.
NumSlices(a) == (Len(a) + BatchSize - 1) \div BatchSize
Final(a, k) == Len(a) - (k - 1) * BatchSize
First(a, k) == IF k = NumSlices(a) THEN 1 ELSE Len(a) - k * BatchSize + 1

LEMMA NumSlicesBounds ==
    ASSUME NEW a \in Seq(Jobs)
    PROVE  /\ NumSlices(a) \in Nat
           /\ NumSlices(a) * BatchSize >= Len(a)
           /\ (NumSlices(a) - 1) * BatchSize < Len(a)
<1>1. Len(a) \in Nat /\ BatchSize \in Nat /\ BatchSize >= 1
  BY SizesAssumption
<1>2. NumSlices(a) \in Nat /\ NumSlices(a) * BatchSize >= Len(a) /\ NumSlices(a) * BatchSize < Len(a) + BatchSize
  BY <1>1 DEF NumSlices
<1>3. (NumSlices(a) - 1) * BatchSize = NumSlices(a) * BatchSize - BatchSize
  BY <1>1, <1>2
<1>. QED
  BY <1>1, <1>2, <1>3

\* They are not empty,
LEMMA SliceBounds ==
    ASSUME NEW a \in Seq(Jobs), NEW k \in 1 .. NumSlices(a)
    PROVE  First(a, k) \in 1 .. Len(a) /\ Final(a, k) \in First(a, k) .. Len(a)
<1> DEFINE p == k * BatchSize
<1>1. Len(a) \in Nat /\ BatchSize \in Nat /\ BatchSize >= 1 /\ NumSlices(a) \in Nat
  BY SizesAssumption, NumSlicesBounds
<1>2. p \in Nat /\ p >= BatchSize /\ (k - 1) * BatchSize = p - BatchSize
  BY <1>1
<1>3. (k - 1) * BatchSize <= (NumSlices(a) - 1) * BatchSize
  BY <1>1
<1>4. p - BatchSize < Len(a)
  BY <1>1, <1>2, <1>3, NumSlicesBounds
<1>5. Final(a, k) = Len(a) - (p - BatchSize)
  BY <1>2 DEF Final
<1>6. k # NumSlices(a) => First(a, k) = Len(a) - p + 1 /\ p <= (NumSlices(a) - 1) * BatchSize
  BY <1>1 DEF First
<1>7. k = NumSlices(a) => First(a, k) = 1
  BY DEF First
<1>8. k # NumSlices(a) => p < Len(a)
  BY <1>1, <1>2, <1>6, NumSlicesBounds
<1> HIDE DEF p
<1>. QED
  BY <1>1, <1>2, <1>4, <1>5, <1>6, <1>7, <1>8

\* the first part of the array comes last,
LEMMA SliceOrder ==
    ASSUME NEW a \in Seq(Jobs), NEW k \in 1 .. NumSlices(a), NEW m \in 1 .. NumSlices(a), k < m
    PROVE  Final(a, m) < First(a, k)
<1>1. Len(a) \in Nat /\ BatchSize \in Nat /\ BatchSize >= 1 /\ NumSlices(a) \in Nat
  BY SizesAssumption, NumSlicesBounds
<1>2. k * BatchSize <= (m - 1) * BatchSize /\ k * BatchSize \in Nat /\ (m - 1) * BatchSize \in Nat
  BY <1>1
<1>3. First(a, k) = Len(a) - k * BatchSize + 1
  <2>1. k # NumSlices(a)
    BY <1>1
  <2>. QED
    BY <2>1 DEF First
<1>4. Final(a, m) = Len(a) - (m - 1) * BatchSize
  BY DEF Final
<1>. QED
  BY <1>1, <1>2, <1>3, <1>4

\* and every job is in one of them.
LEMMA SlicesCover ==
    ASSUME NEW a \in Seq(Jobs), NEW i \in 1 .. Len(a)
    PROVE  \E k \in 1 .. NumSlices(a) : i \in First(a, k) .. Final(a, k)
<1> DEFINE r == Len(a) - i
           k == r \div BatchSize + 1
<1>1. Len(a) \in Nat /\ BatchSize \in Nat /\ BatchSize >= 1 /\ NumSlices(a) \in Nat /\ r \in Nat
  BY SizesAssumption, NumSlicesBounds
<1>2. r = Len(a) - i
  OBVIOUS
<1> HIDE DEF r
<1>3. k \in Nat /\ k >= 1 /\ (k - 1) * BatchSize <= r /\ r < k * BatchSize
  BY <1>1
<1> HIDE DEF k
<1>4. (k - 1) * BatchSize < NumSlices(a) * BatchSize
  <2>1. NumSlices(a) * BatchSize >= Len(a)
    BY NumSlicesBounds
  <2>2. r < Len(a)
    BY <1>1, <1>2
  <2>3. (k - 1) * BatchSize \in Nat /\ NumSlices(a) * BatchSize \in Nat
    BY <1>1, <1>3
  <2> DEFINE x == (k - 1) * BatchSize
             y == NumSlices(a) * BatchSize
  <2>4. x \in Nat /\ y \in Nat /\ x <= r /\ r < Len(a) /\ y >= Len(a)
    BY <1>3, <2>1, <2>2, <2>3
  <2> HIDE DEF x, y
  <2>5. x < y
    BY <1>1, <2>4
  <2>. QED
    BY <2>5 DEF x, y
<1>5. k - 1 < NumSlices(a)
  BY <1>1, <1>3, <1>4
<1>6. k \in 1 .. NumSlices(a)
  BY <1>1, <1>3, <1>5
<1>7. i <= Final(a, k)
  BY <1>1, <1>2, <1>3 DEF Final
<1>8. First(a, k) <= i
  <2>1. k # NumSlices(a) => First(a, k) = Len(a) - k * BatchSize + 1
    BY DEF First
  <2>2. k = NumSlices(a) => First(a, k) = 1
    BY DEF First
  <2>. QED
    BY <2>1, <2>2, <1>1, <1>2, <1>3
<1>9. First(a, k) \in Nat /\ Final(a, k) \in Nat
  BY <1>6, <1>1, SliceBounds
<1>. QED
  BY <1>6, <1>7, <1>8, <1>9

LEMMA SlicesType ==
    ASSUME NEW a \in Seq(Jobs)
    PROVE  /\ Slices(a) \in Seq(Seq(Jobs))
           /\ Len(Slices(a)) = NumSlices(a)
           /\ \A k \in 1 .. NumSlices(a) :
                 /\ Slices(a)[k] = SubSeq(a, First(a, k), Final(a, k))
                 /\ Slices(a)[k] \in Seq(Jobs)
                 /\ Len(Slices(a)[k]) = Final(a, k) - First(a, k) + 1
                 /\ \A i \in 1 .. Len(Slices(a)[k]) :
                       /\ First(a, k) + i - 1 \in 1 .. Len(a)
                       /\ Slices(a)[k][i] = a[First(a, k) + i - 1]
<1>1. Slices(a) = [k \in 1 .. NumSlices(a) |-> SubSeq(a, First(a, k), Final(a, k))]
  <2>1. Len(a) \in Nat /\ BatchSize \in Nat /\ NumSlices(a) \in Nat
    BY SizesAssumption, NumSlicesBounds
  <2>2. ASSUME NEW k \in 1 .. NumSlices(a)
        PROVE  SubSeq(a, First(a, k), Final(a, k)) =
                  IF k = NumSlices(a) THEN SubSeq(a, 1, Len(a) - (NumSlices(a) - 1) * BatchSize)
                  ELSE SubSeq(a, Len(a) - k * BatchSize + 1, Len(a) - (k - 1) * BatchSize)
    BY Zenon DEF First, Final
  <2>. QED
    BY <2>2, Zenon DEF Slices, NumSlices
<1>2. ASSUME NEW k \in 1 .. NumSlices(a)
      PROVE  /\ Slices(a)[k] = SubSeq(a, First(a, k), Final(a, k))
             /\ Slices(a)[k] \in Seq(Jobs)
             /\ Len(Slices(a)[k]) = Final(a, k) - First(a, k) + 1
             /\ \A i \in 1 .. Len(Slices(a)[k]) :
                   /\ First(a, k) + i - 1 \in 1 .. Len(a)
                   /\ Slices(a)[k][i] = a[First(a, k) + i - 1]
  <2> DEFINE x == First(a, k)
             y == Final(a, k)
  <2>1. x \in 1 .. Len(a) /\ y \in x .. Len(a)
    BY SliceBounds
  <2>2. Slices(a)[k] = SubSeq(a, x, y)
    BY <1>1, Zenon
  <2> HIDE DEF x, y
  <2>3. /\ SubSeq(a, x, y) \in Seq(Jobs) /\ Len(SubSeq(a, x, y)) = y - x + 1
        /\ \A i \in 1 .. y - x + 1 : x + i - 1 \in 1 .. Len(a) /\ SubSeq(a, x, y)[i] = a[x + i - 1]
    BY <2>1
  <2>. QED
    BY <2>2, <2>3, Zenon DEF x, y
<1>3. Slices(a) \in [1 .. NumSlices(a) -> Seq(Jobs)]
  BY <1>1, <1>2
<1>4. Slices(a) \in Seq(Seq(Jobs)) /\ Len(Slices(a)) = NumSlices(a)
  BY <1>3, NumSlicesBounds
<1>. QED
  BY <1>2, <1>4

\* Changing one entry of the list.
Replaced(es, n, r) == [es EXCEPT ![n] = r]

LEMMA EntryExcept ==
    ASSUME NEW es \in Seq(Entry), NEW n, NEW r \in Entry
    PROVE  /\ Replaced(es, n, r) \in Seq(Entry)
           /\ Len(Replaced(es, n, r)) = Len(es)
           /\ \A i \in 1 .. Len(es) : Replaced(es, n, r)[i] = IF i = n THEN r ELSE es[i]
<1> DEFINE new == [es EXCEPT ![n] = r]
<1>1. Len(es) \in Nat /\ es \in [1 .. Len(es) -> Entry]
  OBVIOUS
<1>2. \A i \in 1 .. Len(es) : new[i] = IF i = n THEN r ELSE es[i]
  BY <1>1
<1>3. new \in [1 .. Len(es) -> Entry]
  BY <1>1, Zenon
<1> HIDE DEF new
<1>4. new \in Seq(Entry) /\ Len(new) = Len(es)
  BY <1>1, <1>3
<1>. QED
  BY <1>2, <1>4, Zenon DEF new, Replaced

LEMMA CounterValueType ==
    ASSUME TypeOK, NEW w \in Workers
    PROVE  CounterValue(w) \subseteq 0 .. CounterMod - 1
BY SizesAssumption DEF CounterValue, TypeOK

LEMMA TypeInit == Init => TypeOK
<1> SUFFICES ASSUME Init PROVE TypeOK
  OBVIOUS
<1>1. 0 \in 0 .. CounterMod - 1 /\ 0 \in 0 .. DispatchBound
  BY SizesAssumption
<1>. QED
  BY <1>1 DEF Init, TypeOK, Phases, PCs, NoEntry

\* A thread takes a job off its batch.
LEMMA NextOfType ==
    ASSUME TypeOK, NEW t \in Threads, jobs[t] # <<>>, NextOf(t)
    PROVE  jobs' \in [Threads -> Seq(Jobs)]
<1>1. jobs[t] \in Seq(Jobs) /\ Tail(jobs[t]) \in Seq(Jobs)
  BY DEF TypeOK
<1>. QED
  BY <1>1 DEF TypeOK, NextOf

LEMMA ExecutedType ==
    ASSUME TypeOK, NEW n \in Nat, Executed(n)
    PROVE  done' \subseteq Nat /\ twice' \subseteq done'
BY DEF TypeOK, Executed

LEMMA TypeMain ==
    ASSUME StructInv,
           Stop \/ Check \/ Repeated \/ GetJobs \/ Dispatch \/ StopNetwork \/ Join \/ UNCHANGED vars
    PROVE  TypeOK'
<1> TypeOK
  BY DEF StructInv
<1>1. CASE Stop
  BY <1>1, Zenon DEF Stop, TypeOK, queueVars, threadVars
<1>2. CASE Check
  BY <1>2 DEF Check, TypeOK, queueVars, threadVars, Phases
<1>3. CASE Repeated
  <2> DEFINE look == <<Job("DISPATCHDELAYED", 0, 0)>>
  <2>1. look \in Seq(Jobs)
    BY DEF Job, Jobs, JobType
  <2>2. queue' \in Seq(Seq(Jobs))
    <3>1. queue \in Seq(Seq(Jobs)) /\ (queue' = Append(queue, look) \/ queue' = queue)
      BY <1>3 DEF Repeated, TypeOK
    <3> HIDE DEF look
    <3>2. Append(queue, look) \in Seq(Seq(Jobs))
      BY <2>1, <3>1
    <3>. QED
      BY <3>1, <3>2, Zenon
  <2>3. dispatches' \in 0 .. DispatchBound
    BY <1>3, SizesAssumption DEF Repeated, TypeOK
  <2>. QED
    BY <1>3, <2>2, <2>3 DEF Repeated, TypeOK, threadVars, Phases
<1>4. CASE GetJobs
  <2>1. PICK a \in Arrays \cup LateArrays \cup StopArrays : array' = Numbered(a) /\ nextJob' = nextJob + Len(a)
    BY <1>4 DEF GetJobs
  <2>2. array' \in Seq(Jobs) /\ nextJob' \in Nat
    BY <2>1, NumberedType DEF TypeOK
  <2>. QED
    BY <1>4, <2>2, Zenon DEF GetJobs, TypeOK, queueVars, threadVars, Phases
<1>5. CASE Dispatch
  <2>1. queue' \in Seq(Seq(Jobs)) /\ array' \in Seq(Jobs)
    BY <1>5, SlicesType DEF Dispatch, TypeOK
  <2>. QED
    BY <1>5, <2>1 DEF Dispatch, TypeOK, threadVars, Phases
<1>6. CASE StopNetwork
  <2>1. PICK a \in StopArrays : jobs' = [jobs EXCEPT ![Main] = Numbered(a)] /\ nextJob' = nextJob + Len(a)
    BY <1>6, Zenon DEF StopNetwork
  <2>2. Numbered(a) \in Seq(Jobs) /\ Len(a) \in Nat
    BY NumberedType DEF TypeOK
  <2>3. jobs' \in [Threads -> Seq(Jobs)] /\ nextJob' \in Nat
    <3>1. jobs \in [Threads -> Seq(Jobs)] /\ nextJob \in Nat
      BY DEF TypeOK
    <3>2. jobs' \in [Threads -> Seq(Jobs)]
      BY <2>1, <2>2, <3>1, Zenon
    <3>3. nextJob' \in Nat
      BY <2>1, <2>2, <3>1
    <3>. QED
      BY <3>2, <3>3
  <2>. QED
    BY <1>6, <2>3, Zenon DEF StopNetwork, TypeOK, queueVars, delayedVars, Phases
<1>7. CASE Join
  BY <1>7 DEF Join, TypeOK, queueVars, threadVars, Phases
<1>8. CASE UNCHANGED vars
  BY <1>8 DEF vars, TypeOK
<1>. QED
  BY <1>1, <1>2, <1>3, <1>4, <1>5, <1>6, <1>7, <1>8

\* Adding a delayed job changes the newest entry, or makes a new one and asks for the
\* counters of the one that was the newest.
LEMMA AddDelayed ==
    ASSUME TypeOK, NEW j \in Jobs, AddDelayedJob(j)
    PROVE  /\ entries' \in Seq(Entry)
           /\ queue' \in Seq(Seq(Jobs))
           /\ \/ /\ Len(entries) > 0
                 /\ queue' = queue
                 /\ Len(entries') = Len(entries)
                 /\ \A e \in 1 .. Len(entries) :
                       entries'[e] = IF e = Len(entries) THEN [entries[e] EXCEPT !.jobs = Append(@, j)]
                                     ELSE entries[e]
              \/ /\ Len(entries') = Len(entries) + 1
                 /\ \A e \in 1 .. Len(entries) : entries'[e] = entries[e]
                 /\ entries'[Len(entries) + 1] = [jobs |-> <<j>>, next |-> Len(entries), counters |-> NoCounters]
                 /\ queue' = IF Len(entries) > 0 THEN Append(queue, <<Job("GETCOUNTERS", Len(entries), 0)>>)
                             ELSE queue
<1> DEFINE head == Len(entries)
           full == IF head = 0 THEN TRUE ELSE Len(entries[head].jobs) >= DelayedJobsSize
<1>1. head \in Nat /\ entries \in Seq(Entry) /\ queue \in Seq(Seq(Jobs))
  BY DEF TypeOK, Entry
<1>2. CASE full
  <2> DEFINE new == [jobs |-> <<j>>, next |-> head, counters |-> NoCounters]
             ask == <<Job("GETCOUNTERS", head, 0)>>
  <2>1. new \in Entry
    BY <1>1 DEF Entry, NoCounters
  <2>2. ask \in Seq(Jobs)
    BY <1>1 DEF Job, Jobs, JobType
  <2>3. entries' = Append(entries, new) /\ queue' = IF head > 0 THEN Append(queue, ask) ELSE queue
    BY <1>1, <1>2 DEF AddDelayedJob
  <2> HIDE DEF new, ask, full
  <2>4. /\ entries' \in Seq(Entry) /\ Len(entries') = head + 1
        /\ \A e \in 1 .. head : entries'[e] = entries[e]
        /\ entries'[head + 1] = new
    BY <1>1, <2>1, <2>3
  <2>5. queue' \in Seq(Seq(Jobs))
    BY <1>1, <2>2, <2>3
  <2>. QED
    BY <2>3, <2>4, <2>5 DEF new, ask
<1>3. CASE ~full
  <2> DEFINE new == [entries[head] EXCEPT !.jobs = Append(@, j)]
  <2>1. head \in 1 .. Len(entries) /\ entries[head] \in Entry
    BY <1>1, <1>3
  <2>2. new \in Entry
    <3>1. Append(entries[head].jobs, j) \in Seq(Jobs)
      BY <2>1 DEF Entry
    <3>. QED
      BY <2>1, <3>1, Zenon DEF Entry
  <2>3. entries' = Replaced(entries, head, new) /\ queue' = queue
    BY <1>3 DEF AddDelayedJob, Replaced
  <2> HIDE DEF new
  <2>4. /\ entries' \in Seq(Entry) /\ Len(entries') = head
        /\ \A e \in 1 .. head : entries'[e] = IF e = head THEN new ELSE entries[e]
    BY <1>1, <2>2, <2>3, EntryExcept
  <2>5. ASSUME NEW e \in 1 .. Len(entries)
        PROVE  entries'[e] = IF e = Len(entries) THEN [entries[e] EXCEPT !.jobs = Append(@, j)]
                             ELSE entries[e]
    BY <2>4, Zenon DEF new
  <2>6. Len(entries) > 0 /\ Len(entries') = Len(entries)
    BY <1>1, <2>1, <2>4
  <2>. QED
    BY <1>1, <2>3, <2>4, <2>5, <2>6, Zenon
<1>. QED
  BY <1>2, <1>3, Zenon

LEMMA TypeFilter ==
    ASSUME StructInv, Filter
    PROVE  TypeOK'
<1>0. TypeOK
  BY DEF StructInv
<1>1. PICK k \in Unfiltered : AddDelayedJob(array[k]) /\ array' = [array EXCEPT ![k].type = "NOTHING"]
  BY Zenon DEF Filter
<1>2. array \in Seq(Jobs) /\ k \in 1 .. Len(array) /\ array[k] \in Jobs
  BY <1>0 DEF Unfiltered, TypeOK
<1>3. entries' \in Seq(Entry) /\ queue' \in Seq(Seq(Jobs))
  BY <1>0, <1>1, <1>2, AddDelayed, Zenon
<1>4. array' \in Seq(Jobs)
  <2> DEFINE new == [array[k] EXCEPT !.type = "NOTHING"]
  <2>1. new \in Jobs
    BY <1>2, Zenon DEF Jobs, JobType
  <2>2. array' = [array EXCEPT ![k] = new]
    BY <1>1
  <2> HIDE DEF new
  <2>. QED
    BY <1>2, <2>1, <2>2
<1>. QED
  BY <1>0, <1>3, <1>4, Zenon DEF Filter, TypeOK, Entry, threadVars

\* The first batch is taken off the queue.
LEMMA DequeueType ==
    ASSUME TypeOK, NEW t \in Threads, queue # <<>>,
           jobs' = [jobs EXCEPT ![t] = Head(queue)], queue' = Tail(queue)
    PROVE  jobs' \in [Threads -> Seq(Jobs)] /\ queue' \in Seq(Seq(Jobs))
<1>1. queue \in Seq(Seq(Jobs)) /\ jobs \in [Threads -> Seq(Jobs)]
  BY DEF TypeOK
<1>2. Head(queue) \in Seq(Jobs) /\ Tail(queue) \in Seq(Seq(Jobs))
  BY <1>1
<1>. QED
  BY <1>1, <1>2

\* The jobs of an entry of the list.
LEMMA EntryType ==
    ASSUME TypeOK, NEW e \in 1 .. Len(entries)
    PROVE  /\ entries[e] \in Entry
           /\ entries[e].jobs \in Seq(Jobs)
           /\ entries[e].next \in Nat
           /\ entries[e].counters \in Seq(0 .. CounterMod - 1)
<1>0. entries \in Seq(Entry)
  BY DEF TypeOK, Entry
<1>1. entries[e] \in Entry
  BY <1>0
<1>. QED
  BY <1>1 DEF Entry

LEMMA TypeEmptyQueue ==
    ASSUME StructInv, EmptyQueue
    PROVE  TypeOK'
<1>0. TypeOK
  BY DEF StructInv
<1>1. CASE queue # <<>>
  <2>1. jobs' \in [Threads -> Seq(Jobs)] /\ queue' \in Seq(Seq(Jobs))
    BY <1>0, <1>1, ThreadKinds, DequeueType DEF EmptyQueue
  <2>. QED
    BY <1>0, <1>1, <2>1, Zenon DEF EmptyQueue, TypeOK
<1>2. CASE queue = <<>>
  <2>1. Len(entries) \in Nat /\ (entries # <<>> => Len(entries) \in 1 .. Len(entries))
    BY <1>0 DEF TypeOK
  <2>2. (IF entries = <<>> THEN <<>> ELSE entries[Len(entries)].jobs) \in Seq(Jobs)
    BY <1>0, <2>1, EntryType
  <2>. QED
    BY <1>0, <1>2, <2>1, <2>2, Zenon DEF EmptyQueue, TypeOK, Phases
<1>. QED
  BY <1>1, <1>2

LEMMA TypeRemaining ==
    ASSUME StructInv, Remaining
    PROVE  TypeOK'
<1>0. TypeOK /\ Main \in Threads
  BY ThreadKinds DEF StructInv
<1>1. CASE todo[Main] # <<>>
  <2>1. todo[Main] \in Seq(Jobs) /\ todo \in [Threads -> Seq(Jobs)]
    BY <1>0 DEF TypeOK
  <2>2. Head(todo[Main]) \in Jobs /\ Tail(todo[Main]) \in Seq(Jobs)
    BY <1>1, <2>1
  <2>3. done' \subseteq Nat /\ twice' \subseteq done'
    BY <1>0, <1>1, <2>2, ExecutedType DEF Remaining, Jobs
  <2>4. todo' \in [Threads -> Seq(Jobs)]
    BY <1>1, <2>1, <2>2, Zenon DEF Remaining
  <2>. QED
    BY <1>0, <1>1, <2>3, <2>4, Zenon DEF Remaining, TypeOK, queueVars
<1>2. CASE todo[Main] = <<>> /\ dw[Main] # NoEntry
  <2> DEFINE next == entries[dw[Main]].next
  <2>1. dw[Main] \in 1 .. Len(entries)
    BY <1>2, <1>0 DEF StructInv, PhaseOK, Remaining, NoEntry, TypeOK
  <2>2. next \in Nat /\ (next # NoEntry => next \in 1 .. Len(entries))
    <3>1. next \in {dw[Main] - 1, NoEntry}
      BY <2>1 DEF StructInv, EntriesOK
    <3>2. next \in Nat
      BY <1>0, <2>1, EntryType
    <3>3. Len(entries) \in Nat
      BY <1>0 DEF TypeOK
    <3>. QED
      BY <2>1, <3>1, <3>2, <3>3 DEF NoEntry
  <2>3. (IF next = NoEntry THEN <<>> ELSE entries[next].jobs) \in Seq(Jobs)
    BY <1>0, <2>2, EntryType
  <2>4. dw' = [dw EXCEPT ![Main] = next]
        /\ todo' = [todo EXCEPT ![Main] = IF next = NoEntry THEN <<>> ELSE entries[next].jobs]
    BY <1>2 DEF Remaining
  <2> HIDE DEF next
  <2>5. dw' \in [Threads -> Nat] /\ todo' \in [Threads -> Seq(Jobs)]
    BY <1>0, <2>2, <2>3, <2>4 DEF TypeOK
  <2>. QED
    BY <1>0, <1>2, <2>5, Zenon DEF Remaining, TypeOK, queueVars
<1>3. CASE todo[Main] = <<>> /\ dw[Main] = NoEntry
  BY <1>0, <1>3, SMTT(30) DEF Remaining, TypeOK, Phases, queueVars
<1>. QED
  BY <1>1, <1>2, <1>3

LEMMA EmptySequence ==
    ASSUME NEW S, NEW s \in Seq(S), Len(s) = 0
    PROVE  s = <<>>
OBVIOUS

\* A batch that begins with a call of this file is that call.
LEMMA BatchHead ==
    ASSUME NEW s \in Seq(Jobs), s # <<>>, NEW n, Batch(s, n)
    PROVE  /\ Head(s) = s[1] /\ s[1] \in Jobs
           /\ Tail(s) \in Seq(Jobs)
           /\ Len(Tail(s)) = Len(s) - 1
           /\ \A i \in 1 .. Len(Tail(s)) : Tail(s)[i] = s[i + 1]
           /\ Plain(Tail(s))
           /\ s[1].type \in {"GETCOUNTERS", "DISPATCHDELAYED"} => Len(s) = 1 /\ Tail(s) = <<>>
           /\ s[1].type = "GETCOUNTERS" => s[1].num \in 1 .. n - 1
<1>1. /\ Len(s) \in Nat /\ Len(s) >= 1 /\ Head(s) = s[1] /\ s[1] \in Jobs
      /\ Tail(s) \in Seq(Jobs) /\ Len(Tail(s)) = Len(s) - 1
      /\ \A i \in 1 .. Len(Tail(s)) : Tail(s)[i] = s[i + 1]
  OBVIOUS
<1>2. CASE Plain(s)
  <2>1. s[1].type \in {"NORMAL", "NOTHING", "DELAYED"}
    BY <1>1, <1>2 DEF Plain
  <2>2. Plain(Tail(s))
    BY <1>1, <1>2 DEF Plain
  <2>. QED
    BY <1>1, <2>1, <2>2
<1>3. CASE Call(s, n)
  <2>1. Len(s) = 1 /\ Tail(s) = <<>>
    <3>1. Len(s) = 1 /\ Len(Tail(s)) = 0
      BY <1>1, <1>3 DEF Call
    <3>. QED
      BY <3>1, <1>1, EmptySequence, Zenon
  <2>2. Plain(Tail(s))
    <3>1. Plain(<<>>)
      BY DEF Plain
    <3>. QED
      BY <2>1, <3>1, Zenon
  <2>3. s[1].type = "GETCOUNTERS" => s[1].num \in 1 .. n - 1
    BY <1>3 DEF Call, Looks, Asks
  <2>. QED
    BY <1>1, <2>1, <2>2, <2>3
<1>. QED
  BY <1>2, <1>3 DEF Batch

LEMMA BatchOf ==
    ASSUME StructInv, NEW t \in Threads
    PROVE  jobs[t] \in Seq(Jobs) /\ Batch(jobs[t], Len(entries)) /\ ThreadOK(t)
BY DEF StructInv, BatchesOK, ThreadsOK, TypeOK

LEMMA TypeJob ==
    ASSUME StructInv, NEW t \in Threads,
           \/ RunJob(t) \/ ReadCounter(t) \/ SetCounters(t) \/ StartFind(t)
           \/ Find(t) \/ RunDelayed(t) \/ Unlink(t)
    PROVE  TypeOK'
<1>0. TypeOK
  BY DEF StructInv
<1>1. CASE RunJob(t)
  <2>1. jobs' \in [Threads -> Seq(Jobs)]
    BY <1>0, <1>1, NextOfType, Zenon DEF RunJob
  <2>2. Head(jobs[t]) \in Jobs
    BY <1>0, <1>1 DEF RunJob, TypeOK
  <2>3. done' \subseteq Nat /\ twice' \subseteq done'
    <3>1. CASE UNCHANGED <<done, twice>>
      BY <1>0, <3>1 DEF TypeOK
    <3>2. CASE Executed(Head(jobs[t]).num)
      BY <1>0, <2>2, <3>2, ExecutedType DEF Jobs
    <3>. QED
      BY <1>1, <3>1, <3>2 DEF RunJob
  <2>. QED
    BY <1>0, <1>1, <2>1, <2>3, Zenon DEF RunJob, TypeOK, mainVars, queueVars, delayedVars
<1>2. CASE ReadCounter(t)
  <2>1. PICK v \in CounterValue(Len(seen[t]) + 1) : seen' = [seen EXCEPT ![t] = Append(@, v)]
    BY <1>2, Zenon DEF ReadCounter
  <2>2. Len(seen[t]) + 1 \in Workers
    BY <1>0, <1>2, SizesAssumption, SMTT(30) DEF ReadCounter, Workers, TypeOK
  <2>3. v \in 0 .. CounterMod - 1
    BY <1>0, <2>1, <2>2, CounterValueType
  <2>4. seen \in [Threads -> Seq(0 .. CounterMod - 1)]
    BY <1>0 DEF TypeOK
  <2>5. Append(seen[t], v) \in Seq(0 .. CounterMod - 1)
    BY <2>3, <2>4
  <2>6. seen' \in [Threads -> Seq(0 .. CounterMod - 1)]
    BY <2>1, <2>4, <2>5
  <2>. QED
    BY <1>0, <1>2, <2>6, Zenon DEF ReadCounter, TypeOK, mainVars, queueVars, delayedVars
<1>3. CASE SetCounters(t)
  <2>1. jobs' \in [Threads -> Seq(Jobs)]
    BY <1>0, <1>3, NextOfType DEF SetCounters
  <2>2. seen \in [Threads -> Seq(0 .. CounterMod - 1)] /\ entries \in Seq(Entry)
    BY <1>0 DEF TypeOK, Entry
  <2>3. seen' \in [Threads -> Seq(0 .. CounterMod - 1)]
    BY <1>3, <2>2 DEF SetCounters
  <2>4. Head(jobs[t]).num \in 1 .. Len(entries)
    <3>1. Len(entries) \in Nat
      BY <2>2
    <3>2. Head(jobs[t]).num \in 1 .. Len(entries) - 1
      BY <1>3, BatchOf, BatchHead DEF SetCounters
    <3>. QED
      BY <3>1, <3>2
  <2>5. entries' \in Seq(Entry)
    <3> DEFINE n == Head(jobs[t]).num
               new == [entries[n] EXCEPT !.counters = seen[t]]
    <3>1. new \in Entry
      BY <1>0, <2>2, <2>4, EntryType, Zenon DEF Entry
    <3>2. entries' = Replaced(entries, n, new)
      BY <1>3 DEF SetCounters, Replaced
    <3> HIDE DEF n, new
    <3>. QED
      BY <2>2, <3>1, <3>2, EntryExcept, Zenon
  <2>. QED
    BY <1>0, <1>3, <2>1, <2>3, <2>5, Zenon DEF SetCounters, TypeOK, Entry, mainVars, delayedVars
<1>4. CASE StartFind(t)
  <2>1. Len(entries) \in Nat /\ (entries # <<>> => Len(entries) \in 1 .. Len(entries))
    BY <1>0 DEF TypeOK
  <2>2. (IF entries = <<>> THEN NoEntry ELSE entries[Len(entries)].next) \in Nat
    BY <1>0, <2>1, EntryType DEF NoEntry
  <2>. QED
    BY <1>0, <1>4, <2>1, <2>2, SMTT(30) DEF StartFind, TypeOK, PCs, mainVars, queueVars
<1>5. CASE Find(t)
  <2>1. CASE dw[t] = NoEntry
    <3>1. jobs' \in [Threads -> Seq(Jobs)]
      BY <1>0, <1>5, <2>1, NextOfType, Zenon DEF Find, StructInv, ThreadsOK, ThreadOK, Looks
    <3>. QED
      BY <1>0, <1>5, <2>1, <3>1, Zenon DEF Find, TypeOK, PCs, mainVars, queueVars, delayedVars
  <2>2. CASE dw[t] # NoEntry
    <3>1. dw[t] \in 1 .. Len(entries)
      <4>1. dw[t] \in Nat /\ Len(entries) \in Nat
        BY <1>0 DEF TypeOK
      <4>2. before[t] = dw[t] + 1 /\ before[t] <= Len(entries)
        BY <1>5, <2>2, BatchOf, Zenon DEF Find, ThreadOK
      <4>. QED
        BY <2>2, <4>1, <4>2 DEF NoEntry
    <3>2. entries[dw[t]].jobs \in Seq(Jobs) /\ entries[dw[t]].next \in Nat
      BY <1>0, <3>1, EntryType, Zenon
    <3>. QED
      BY <1>0, <1>5, <2>2, <3>2, Zenon DEF Find, TypeOK, PCs, mainVars, queueVars
  <2>. QED
    BY <2>1, <2>2
<1>6. CASE RunDelayed(t)
  <2>1. todo[t] \in Seq(Jobs) /\ todo \in [Threads -> Seq(Jobs)]
    BY <1>0 DEF TypeOK
  <2>2. Head(todo[t]) \in Jobs /\ Tail(todo[t]) \in Seq(Jobs)
    <3>1. todo[t] # <<>>
      BY <1>6 DEF RunDelayed
    <3>. QED
      BY <2>1, <3>1
  <2>3. done' \subseteq Nat /\ twice' \subseteq done'
    BY <1>0, <1>6, <2>2, ExecutedType DEF RunDelayed, Jobs
  <2>4. todo' \in [Threads -> Seq(Jobs)]
    BY <1>6, <2>1, <2>2 DEF RunDelayed
  <2>. QED
    BY <1>0, <1>6, <2>3, <2>4, Zenon DEF RunDelayed, TypeOK, mainVars, queueVars
<1>7. CASE Unlink(t)
  <2> DEFINE next == entries[before[t]].next
  <2>1. before[t] \in 1 .. Len(entries) /\ jobs[t] # <<>>
    BY <1>0, <1>7 DEF Unlink, StructInv, ThreadsOK, ThreadOK, TypeOK, NoEntry, Looks
  <2>2. next \in Nat /\ (next # NoEntry => next \in 1 .. Len(entries))
    <3>1. next \in {before[t] - 1, NoEntry}
      BY <2>1 DEF StructInv, EntriesOK
    <3>2. next \in Nat
      BY <1>0, <2>1, EntryType
    <3>3. Len(entries) \in Nat
      BY <1>0 DEF TypeOK
    <3>. QED
      BY <2>1, <3>1, <3>2, <3>3 DEF NoEntry
  <2>3. next # NoEntry => entries[next].jobs \in Seq(Jobs)
    BY <1>0, <2>2, EntryType
  <2>4. entries' \in Seq(Entry)
    <3> DEFINE n == before[t]
               new == [entries[n] EXCEPT !.next = NoEntry]
    <3>1. new \in Entry
      BY <1>0, <2>1, EntryType DEF Entry, NoEntry
    <3>2. entries' = Replaced(entries, n, new) /\ entries \in Seq(Entry)
      BY <1>0, <1>7 DEF Unlink, TypeOK, Entry, Replaced
    <3> HIDE DEF n, new
    <3>. QED
      BY <3>1, <3>2, EntryExcept, Zenon
  <2>5. dw' = [dw EXCEPT ![t] = next]
        /\ IF next = NoEntry
           THEN pc' = [pc EXCEPT ![t] = "job"] /\ NextOf(t) /\ UNCHANGED todo
           ELSE /\ todo' \in {[todo EXCEPT ![t] = entries[next].jobs], todo}
                /\ UNCHANGED <<pc, jobs>>
    BY <1>7 DEF Unlink
  <2> HIDE DEF next
  <2>6. dw' \in [Threads -> Nat] /\ todo' \in [Threads -> Seq(Jobs)] /\ pc' \in [Threads -> PCs]
    BY <1>0, <2>2, <2>3, <2>5, Zenon DEF TypeOK, PCs
  <2>7. jobs' \in [Threads -> Seq(Jobs)]
    <3>1. CASE next = NoEntry
      BY <1>0, <2>1, <2>5, <3>1, NextOfType
    <3>2. CASE next # NoEntry
      BY <1>0, <2>5, <3>2 DEF TypeOK
    <3>. QED
      BY <3>1, <3>2
  <2>. QED
    BY <1>0, <1>7, <2>4, <2>6, <2>7, Zenon DEF Unlink, TypeOK, Entry, mainVars
<1>. QED
  BY <1>1, <1>2, <1>3, <1>4, <1>5, <1>6, <1>7

LEMMA TypeWorker ==
    ASSUME StructInv, NEW w \in Workers,
           LoopCheck(w) \/ Dequeue(w) \/ EndBatch(w) \/ Count(w)
    PROVE  TypeOK'
<1>0. TypeOK /\ w \in Threads
  BY ThreadKinds DEF StructInv
<1>1. CASE LoopCheck(w)
  BY <1>0, <1>1, Zenon DEF LoopCheck, TypeOK, PCs, mainVars, queueVars, delayedVars
<1>2. CASE Dequeue(w)
  <2>1. jobs' \in [Threads -> Seq(Jobs)] /\ queue' \in Seq(Seq(Jobs))
    <3>1. CASE queue # <<>>
      BY <1>0, <1>2, <3>1, DequeueType DEF Dequeue
    <3>2. CASE queue = <<>>
      BY <1>0, <1>2, <3>2 DEF Dequeue, TypeOK
    <3>. QED
      BY <3>1, <3>2
  <2>2. pc' \in [Threads -> PCs]
    BY <1>0, <1>2, Zenon DEF Dequeue, TypeOK, PCs
  <2>. QED
    BY <1>0, <1>2, <2>1, <2>2, Zenon DEF Dequeue, TypeOK, mainVars, delayedVars
<1>3. CASE EndBatch(w)
  BY <1>0, <1>3, SMTT(30) DEF EndBatch, TypeOK, PCs, mainVars, queueVars, delayedVars
<1>4. CASE Count(w)
  <2>1. (counter[w] + 1) % CounterMod \in 0 .. CounterMod - 1
    BY <1>0, SizesAssumption, SMTT(30) DEF TypeOK
  <2>2. counter' \in [Workers -> 0 .. CounterMod - 1]
    BY <1>0, <1>4, <2>1 DEF Count, TypeOK
  <2>. QED
    BY <1>0, <1>4, <2>2, Zenon DEF Count, TypeOK, PCs, mainVars, delayedVars
<1>. QED
  BY <1>1, <1>2, <1>3, <1>4

LEMMA TypeStep ==
    ASSUME StructInv, [Next]_vars
    PROVE  TypeOK'
BY Steps, TypeMain, TypeFilter, TypeEmptyQueue, TypeRemaining, TypeJob, TypeWorker

-----------------------------------------------------------------------------
(* The array, the list of entries and the batches *)

\* What the steps of the threads leave alone.
LEMMA ThreadFrame ==
    ASSUME \/ \E t \in Threads : \/ RunJob(t) \/ ReadCounter(t) \/ SetCounters(t) \/ StartFind(t)
                                 \/ Find(t) \/ RunDelayed(t) \/ Unlink(t)
           \/ \E w \in Workers : LoopCheck(w) \/ Dequeue(w) \/ EndBatch(w) \/ Count(w)
    PROVE  UNCHANGED <<running, phase, array, nextJob, dispatches>>
BY Zenon DEF RunJob, ReadCounter, SetCounters, StartFind, Find, RunDelayed, Unlink, LoopCheck, Dequeue, EndBatch,
       Count, mainVars

LEMMA BaseType ==
    ASSUME StructInv
    PROVE  Base \in Nat /\ Base >= 1 /\ Len(array) \in Nat /\ nextJob = Base + Len(array) /\ nextJob \in Nat
<1>1. array \in Seq(Jobs) /\ nextJob \in Nat
  BY DEF StructInv, TypeOK
<1>2. Base >= 1
  BY DEF StructInv, ArrayOK
<1>. QED
  BY <1>1, <1>2 DEF Base

\* Outside of the filter the array is empty.
LEMMA ArrayEmpty ==
    ASSUME StructInv, phase # "filter"
    PROVE  array = <<>> /\ Base = nextJob
BY BaseType DEF StructInv, ArrayOK

LEMMA ArrayStep ==
    ASSUME StructInv, [Next]_vars
    PROVE  ArrayOK' /\ Base' \in Nat /\ Base' >= Base
<1>0. ArrayOK /\ TypeOK /\ nextJob \in Nat /\ array \in Seq(Jobs)
  BY DEF StructInv, TypeOK
<1>1. CASE UNCHANGED <<array, nextJob>> /\ (phase' = "filter" <=> phase = "filter")
  <2>1. Base' = Base
    BY <1>1 DEF Base
  <2>. QED
    BY <1>0, <1>1, <2>1, BaseType DEF ArrayOK
<1>2. CASE GetJobs
  <2>1. PICK a \in Arrays \cup LateArrays \cup StopArrays : array' = Numbered(a) /\ nextJob' = nextJob + Len(a)
    BY <1>2 DEF GetJobs
  <2>2. Len(array') = Len(a) /\ Len(a) \in Nat
    BY <1>0, <2>1, NumberedType
  <2>3. Base' = nextJob /\ Base = nextJob
    BY <1>0, <1>2, <2>1, <2>2, ArrayEmpty DEF GetJobs, Base
  <2>4. \A i \in 1 .. Len(array') :
           /\ array'[i].type \in {"NORMAL", "DELAYED"}
           /\ array'[i].num = nextJob + i - 1
           /\ array'[i].first = nextJob
    BY <1>0, <2>1, NumberedType
  <2>5. phase' = "filter"
    BY <1>2 DEF GetJobs
  <2>. QED
    BY <2>3, <2>4, <2>5, BaseType DEF ArrayOK
<1>3. CASE Filter
  <2>1. PICK k \in Unfiltered : array' = [array EXCEPT ![k].type = "NOTHING"]
    BY <1>3, Zenon DEF Filter
  <2>2. UNCHANGED <<nextJob, phase>>
    BY <1>3 DEF Filter
  <2>3. k \in 1 .. Len(array) /\ array \in [1 .. Len(array) -> Jobs] /\ Len(array) \in Nat
    BY <1>0 DEF Unfiltered
  <2>4. Len(array') = Len(array)
    BY <1>0, <2>1, <2>3
  <2>5. Base' = Base
    BY <2>2, <2>4 DEF Base
  <2>6. ASSUME NEW i \in 1 .. Len(array)
        PROVE  /\ array'[i].type \in {"NORMAL", "DELAYED", "NOTHING"}
               /\ array'[i].num = array[i].num /\ array'[i].first = array[i].first
    <3>1. array[i] \in Jobs /\ array[i].type \in {"NORMAL", "DELAYED", "NOTHING"}
      BY <1>0, <2>3 DEF ArrayOK
    <3>2. array'[i] = IF i = k THEN [array[i] EXCEPT !.type = "NOTHING"] ELSE array[i]
      BY <2>1, <2>3
    <3>. QED
      BY <3>1, <3>2 DEF Jobs
  <2>7. phase' = "filter"
    BY <1>3, <2>2 DEF Filter
  <2>. QED
    <3>1. \A i \in 1 .. Len(array) : array[i].num = Base + i - 1 /\ array[i].first = Base
      BY <1>0 DEF ArrayOK
    <3>2. ASSUME NEW i \in 1 .. Len(array')
          PROVE  /\ array'[i].type \in {"NORMAL", "DELAYED", "NOTHING"}
                 /\ array'[i].num = Base' + i - 1 /\ array'[i].first = Base'
      BY <2>4, <2>5, <2>6, <3>1, Zenon
    <3>3. Base' \in Nat /\ Base' >= 1 /\ Base' >= Base
      BY <2>5, BaseType
    <3>. QED
      <4>1. phase' # "filter" => array' = <<>>
        BY <2>7
      <4>. QED
        BY <3>2, <3>3, <4>1, Zenon DEF ArrayOK
<1>4. CASE Dispatch
  <2>1. array' = <<>> /\ nextJob' = nextJob
    BY <1>4 DEF Dispatch
  <2>2. Base' = nextJob
    BY <1>0, <2>1 DEF Base
  <2>. QED
    BY <2>1, <2>2, BaseType DEF ArrayOK
<1>5. CASE StopNetwork
  <2>1. PICK a \in StopArrays : nextJob' = nextJob + Len(a)
    BY <1>5 DEF StopNetwork
  <2>2. array = <<>> /\ array' = <<>> /\ Base = nextJob
    BY <1>5, ArrayEmpty DEF StopNetwork
  <2>3. Base' = nextJob + Len(a) /\ Len(a) \in Nat
    BY <1>0, <2>1, <2>2, NumberedType DEF Base
  <2>. QED
    BY <2>2, <2>3, BaseType DEF ArrayOK
<1>6. CASE Stop \/ Check \/ Repeated \/ Join \/ EmptyQueue \/ Remaining \/ UNCHANGED vars
  BY <1>1, <1>6, Zenon DEF Stop, Check, Repeated, Join, EmptyQueue, Remaining, vars
<1>7. CASE UNCHANGED <<running, phase, array, nextJob, dispatches>>
  BY <1>1, <1>7
<1>. QED
  BY <1>2, <1>3, <1>4, <1>5, <1>6, <1>7, Steps, ThreadFrame

\* What the steps that change the list do to its entries.
LEMMA SetCountersEntries ==
    ASSUME StructInv, NEW t \in Threads, SetCounters(t)
    PROVE  /\ jobs[t][1].num \in 1 .. Len(entries) - 1
           /\ jobs[t][1].type = "GETCOUNTERS"
           /\ Len(entries') = Len(entries)
           /\ \A e \in 1 .. Len(entries) :
                 /\ entries'[e].jobs = entries[e].jobs
                 /\ entries'[e].next = entries[e].next
                 /\ entries'[e].counters = IF e = jobs[t][1].num THEN seen[t] ELSE entries[e].counters
<1> DEFINE n == jobs[t][1].num
           r == [entries[n] EXCEPT !.counters = seen[t]]
<1>0. TypeOK /\ Len(entries) \in Nat /\ entries \in Seq(Entry)
  BY SMTT(30) DEF StructInv, TypeOK, Entry
<1>1. Head(jobs[t]) = jobs[t][1] /\ n \in 1 .. Len(entries) - 1 /\ jobs[t][1].type = "GETCOUNTERS"
  BY BatchOf, BatchHead DEF SetCounters
<1>2. n \in 1 .. Len(entries)
  BY <1>0, <1>1
<1>3. entries[n] \in Entry /\ seen[t] \in Seq(0 .. CounterMod - 1)
  BY <1>0, <1>2, EntryType, Zenon DEF TypeOK
<1>4. r \in Entry /\ r.jobs = entries[n].jobs /\ r.next = entries[n].next /\ r.counters = seen[t]
  BY <1>3 DEF Entry
<1>5. entries' = Replaced(entries, n, r)
  BY <1>1 DEF SetCounters, Replaced
<1> HIDE DEF r
<1>6. Len(entries') = Len(entries) /\ \A e \in 1 .. Len(entries) : entries'[e] = IF e = n THEN r ELSE entries[e]
  <2> HIDE DEF n
  <2>1. entries \in Seq(Entry) /\ r \in Entry
    BY <1>0, <1>4, Zenon
  <2>2. /\ Len(Replaced(entries, n, r)) = Len(entries)
        /\ \A e \in 1 .. Len(entries) : Replaced(entries, n, r)[e] = IF e = n THEN r ELSE entries[e]
    BY <2>1, EntryExcept
  <2>. QED
    BY <1>5, <2>2, Zenon
<1>. QED
  BY <1>1, <1>4, <1>6

LEMMA UnlinkEntries ==
    ASSUME StructInv, NEW t \in Threads, Unlink(t)
    PROVE  /\ before[t] \in 1 .. Len(entries)
           /\ dw[t] \in 1 .. Len(entries) - 1
           /\ before[t] = dw[t] + 1
           /\ Len(entries') = Len(entries)
           /\ \A e \in 1 .. Len(entries) :
                 /\ entries'[e].jobs = entries[e].jobs
                 /\ entries'[e].next = IF e = before[t] THEN NoEntry ELSE entries[e].next
                 /\ entries'[e].counters = entries[e].counters
<1> DEFINE n == before[t]
           r == [entries[n] EXCEPT !.next = NoEntry]
<1>0. TypeOK /\ Len(entries) \in Nat /\ entries \in Seq(Entry) /\ dw[t] \in Nat
  BY SMTT(30) DEF StructInv, TypeOK, Entry
<1>1. dw[t] # NoEntry /\ before[t] = dw[t] + 1 /\ before[t] <= Len(entries)
  BY BatchOf DEF Unlink, ThreadOK
<1>2. before[t] \in 1 .. Len(entries) /\ dw[t] \in 1 .. Len(entries) - 1
  BY <1>0, <1>1 DEF NoEntry
<1>3. entries[n] \in Entry
  BY <1>0, <1>2, EntryType
<1>4. r \in Entry /\ r.jobs = entries[n].jobs /\ r.next = NoEntry /\ r.counters = entries[n].counters
  BY <1>3 DEF Entry, NoEntry
<1>5. entries' = Replaced(entries, n, r)
  BY DEF Unlink, Replaced
<1> HIDE DEF r
<1>6. Len(entries') = Len(entries) /\ \A e \in 1 .. Len(entries) : entries'[e] = IF e = n THEN r ELSE entries[e]
  <2> HIDE DEF n
  <2>1. entries \in Seq(Entry) /\ r \in Entry
    BY <1>0, <1>4, Zenon
  <2>2. /\ Len(Replaced(entries, n, r)) = Len(entries)
        /\ \A e \in 1 .. Len(entries) : Replaced(entries, n, r)[e] = IF e = n THEN r ELSE entries[e]
    BY <2>1, EntryExcept
  <2>. QED
    BY <1>5, <2>2, Zenon
<1>. QED
  BY <1>1, <1>2, <1>4, <1>6

\* A delayed job goes from the array to the newest entry.
LEMMA FilterEntries ==
    ASSUME StructInv, Filter
    PROVE  \E k \in 1 .. Len(array) :
              /\ array[k].type = "DELAYED"
              /\ array[k] \in Jobs
              /\ array[k].first = Base
              /\ array' = [array EXCEPT ![k].type = "NOTHING"]
              /\ \/ /\ Len(entries) > 0
                    /\ Len(entries') = Len(entries)
                    /\ \A e \in 1 .. Len(entries) :
                          /\ entries'[e].jobs = IF e = Len(entries) THEN Append(entries[e].jobs, array[k])
                                                ELSE entries[e].jobs
                          /\ entries'[e].next = entries[e].next
                          /\ entries'[e].counters = entries[e].counters
                    /\ queue' = queue
                 \/ /\ Len(entries') = Len(entries) + 1
                    /\ \A e \in 1 .. Len(entries) : entries'[e] = entries[e]
                    /\ entries'[Len(entries) + 1].jobs = <<array[k]>>
                    /\ entries'[Len(entries) + 1].next = Len(entries)
                    /\ entries'[Len(entries) + 1].counters = NoCounters
                    /\ queue' = IF Len(entries) > 0 THEN Append(queue, <<Job("GETCOUNTERS", Len(entries), 0)>>)
                                ELSE queue
<1>0. TypeOK
  BY DEF StructInv
<1>1. PICK k \in Unfiltered : AddDelayedJob(array[k]) /\ array' = [array EXCEPT ![k].type = "NOTHING"]
  BY Zenon DEF Filter
<1>2. k \in 1 .. Len(array) /\ array[k] \in Jobs /\ array[k].type = "DELAYED"
  BY <1>0 DEF Unfiltered, TypeOK
<1>3. array[k].first = Base
  BY <1>2 DEF StructInv, ArrayOK
<1> DEFINE j == array[k]
<1>4. \/ /\ Len(entries) > 0
         /\ queue' = queue
         /\ Len(entries') = Len(entries)
         /\ \A e \in 1 .. Len(entries) :
               entries'[e] = IF e = Len(entries) THEN [entries[e] EXCEPT !.jobs = Append(@, j)]
                             ELSE entries[e]
      \/ /\ Len(entries') = Len(entries) + 1
         /\ \A e \in 1 .. Len(entries) : entries'[e] = entries[e]
         /\ entries'[Len(entries) + 1] = [jobs |-> <<j>>, next |-> Len(entries), counters |-> NoCounters]
         /\ queue' = IF Len(entries) > 0 THEN Append(queue, <<Job("GETCOUNTERS", Len(entries), 0)>>)
                     ELSE queue
  BY <1>0, <1>1, <1>2, AddDelayed, Zenon
<1>5. \A e \in 1 .. Len(entries) : entries[e] \in Entry
  BY <1>0, EntryType
<1>6. ASSUME NEW e \in 1 .. Len(entries), entries'[e] = [entries[e] EXCEPT !.jobs = Append(@, j)]
      PROVE  /\ entries'[e].jobs = Append(entries[e].jobs, j)
             /\ entries'[e].next = entries[e].next
             /\ entries'[e].counters = entries[e].counters
  BY <1>5, <1>6 DEF Entry
<1> HIDE DEF j
<1>7. CASE /\ Len(entries) > 0
           /\ queue' = queue
           /\ Len(entries') = Len(entries)
           /\ \A e \in 1 .. Len(entries) :
                 entries'[e] = IF e = Len(entries) THEN [entries[e] EXCEPT !.jobs = Append(@, j)]
                               ELSE entries[e]
  <2>1. ASSUME NEW e \in 1 .. Len(entries)
        PROVE  /\ entries'[e].jobs = IF e = Len(entries) THEN Append(entries[e].jobs, j) ELSE entries[e].jobs
               /\ entries'[e].next = entries[e].next
               /\ entries'[e].counters = entries[e].counters
    BY <1>6, <1>7, Zenon
  <2>. QED
    BY <2>1, <1>7, <1>1, <1>2, <1>3, Zenon DEF j
<1>8. CASE /\ Len(entries') = Len(entries) + 1
           /\ \A e \in 1 .. Len(entries) : entries'[e] = entries[e]
           /\ entries'[Len(entries) + 1] = [jobs |-> <<j>>, next |-> Len(entries), counters |-> NoCounters]
           /\ queue' = IF Len(entries) > 0 THEN Append(queue, <<Job("GETCOUNTERS", Len(entries), 0)>>)
                       ELSE queue
  <2>1. /\ entries'[Len(entries) + 1].jobs = <<j>>
        /\ entries'[Len(entries) + 1].next = Len(entries)
        /\ entries'[Len(entries) + 1].counters = NoCounters
    BY <1>8
  <2>. QED
    BY <2>1, <1>8, <1>1, <1>2, <1>3, Zenon DEF j
<1>. QED
  BY <1>4, <1>7, <1>8, Zenon

\* The steps that leave the list alone.
LEMMA EntriesFrame ==
    ASSUME [Next]_vars
    PROVE  \/ UNCHANGED entries
           \/ Filter
           \/ \E t \in Threads : SetCounters(t) \/ Unlink(t)
<1>1. CASE \/ Stop \/ Check \/ Repeated \/ GetJobs \/ Dispatch \/ StopNetwork \/ Join \/ EmptyQueue \/ Remaining
           \/ UNCHANGED vars
  BY <1>1 DEF Stop, Check, Repeated, GetJobs, Dispatch, StopNetwork, Join, EmptyQueue, Remaining,
              queueVars, vars
<1>2. ASSUME NEW t \in Threads, RunJob(t) \/ ReadCounter(t) \/ StartFind(t) \/ Find(t) \/ RunDelayed(t)
      PROVE  UNCHANGED entries
  BY <1>2, Zenon DEF RunJob, ReadCounter, StartFind, Find, RunDelayed, queueVars
<1>3. ASSUME NEW w \in Workers, LoopCheck(w) \/ Dequeue(w) \/ EndBatch(w) \/ Count(w)
      PROVE  UNCHANGED entries
  BY <1>3 DEF LoopCheck, Dequeue, EndBatch, Count, queueVars
<1>. QED
  BY <1>1, <1>2, <1>3, Steps

\* The entries of the list other than the newest one do not get any more jobs.
LEMMA EntriesGrow ==
    ASSUME StructInv, [Next]_vars
    PROVE  /\ Len(entries) \in Nat
           /\ Len(entries') \in Nat
           /\ Len(entries') >= Len(entries)
           /\ \A e \in 1 .. Len(entries) : e < Len(entries) => entries'[e].jobs = entries[e].jobs
<1>0. Len(entries) \in Nat
  BY DEF StructInv, TypeOK
<1>1. CASE UNCHANGED entries
  BY <1>0, <1>1
<1>2. CASE Filter
  <2>1. \/ Len(entries') = Len(entries)
        \/ Len(entries') = Len(entries) + 1
    BY <1>2, FilterEntries
  <2>2. ASSUME NEW e \in 1 .. Len(entries), e < Len(entries)
        PROVE  entries'[e].jobs = entries[e].jobs
    <3>1. e # Len(entries)
      BY <1>0, <2>2
    <3>. QED
      BY <1>2, <3>1, FilterEntries
  <2>. QED
    BY <1>0, <2>1, <2>2
<1>3. ASSUME NEW t \in Threads, SetCounters(t) \/ Unlink(t)
      PROVE  /\ Len(entries') = Len(entries)
             /\ \A e \in 1 .. Len(entries) : entries'[e].jobs = entries[e].jobs
  BY <1>3, SetCountersEntries, UnlinkEntries
<1>4. CASE Len(entries') = Len(entries) /\ \A e \in 1 .. Len(entries) : entries'[e].jobs = entries[e].jobs
  BY <1>0, <1>4
<1>. QED
  BY <1>1, <1>2, <1>3, <1>4, EntriesFrame

LEMMA NotedGrows ==
    ASSUME NEW d \in Seq(Jobs), NEW b \in Nat, NEW c \in Nat, b <= c, Noted(d, b)
    PROVE  Noted(d, c)
<1>1. ASSUME NEW j \in 1 .. Len(d)
      PROVE  d[j].first <= c
  <2>0. d[j] \in Jobs
    OBVIOUS
  <2>1. d[j].first \in Nat
    BY <2>0 DEF Jobs
  <2>2. d[j].first <= b
    BY DEF Noted
  <2>. QED
    BY <2>1, <2>2
<1>. QED
  BY <1>1 DEF Noted

LEMMA EntriesStep ==
    ASSUME StructInv, [Next]_vars
    PROVE  EntriesOK'
<1>0. /\ TypeOK /\ Len(entries) \in Nat /\ EntriesOK
      /\ Base \in Nat /\ Base' \in Nat /\ Base <= Base'
  <2>1. TypeOK /\ EntriesOK
    BY DEF StructInv
  <2>2. Base \in Nat
    BY BaseType
  <2>3. Base' \in Nat /\ Base' >= Base
    BY ArrayStep
  <2>4. Len(entries) \in Nat
    BY EntriesGrow
  <2>. QED
    BY <2>1, <2>2, <2>3, <2>4
<1>1. ASSUME NEW e \in 1 .. Len(entries)
      PROVE  Noted(entries[e].jobs, Base')
  BY <1>0, NotedGrows, EntryType DEF EntriesOK
<1>2. CASE UNCHANGED entries
  BY <1>0, <1>1, <1>2 DEF EntriesOK
<1>3. CASE Filter
  <2>1. PICK k \in 1 .. Len(array) :
              /\ array[k] \in Jobs
              /\ array[k].first = Base
              /\ \/ /\ Len(entries) > 0
                    /\ Len(entries') = Len(entries)
                    /\ \A e \in 1 .. Len(entries) :
                          /\ entries'[e].jobs = IF e = Len(entries) THEN Append(entries[e].jobs, array[k])
                                                ELSE entries[e].jobs
                          /\ entries'[e].next = entries[e].next
                          /\ entries'[e].counters = entries[e].counters
                 \/ /\ Len(entries') = Len(entries) + 1
                    /\ \A e \in 1 .. Len(entries) : entries'[e] = entries[e]
                    /\ entries'[Len(entries) + 1].jobs = <<array[k]>>
                    /\ entries'[Len(entries) + 1].next = Len(entries)
                    /\ entries'[Len(entries) + 1].counters = NoCounters
    BY <1>3, FilterEntries
  <2>2. ASSUME NEW d \in Seq(Jobs), Noted(d, Base')
        PROVE  Noted(Append(d, array[k]), Base')
    <3>1. ASSUME NEW j \in 1 .. Len(Append(d, array[k]))
          PROVE  Append(d, array[k])[j].first <= Base'
      <4>1. CASE j = Len(d) + 1
        BY <1>0, <2>1, <4>1
      <4>2. CASE j \in 1 .. Len(d)
        BY <2>1, <2>2, <4>2 DEF Noted
      <4>. QED
        BY <2>1, <3>1, <4>1, <4>2
    <3>. QED
      BY <3>1 DEF Noted
  <2>3. Noted(<<array[k]>>, Base')
    BY <1>0, <2>1 DEF Noted
  <2>4. ASSUME NEW e \in 1 .. Len(entries')
        PROVE  /\ entries'[e].next \in {e - 1, NoEntry}
               /\ entries'[e].counters # NoCounters => Len(entries'[e].counters) = NThreads /\ e < Len(entries')
               /\ Noted(entries'[e].jobs, Base')
    <3>1. CASE e = Len(entries) + 1
      BY <1>0, <2>1, <2>3, <3>1
    <3>2. CASE e \in 1 .. Len(entries)
      <4>1. /\ entries[e].next \in {e - 1, NoEntry}
            /\ entries[e].counters # NoCounters => Len(entries[e].counters) = NThreads /\ e < Len(entries)
            /\ entries[e].jobs \in Seq(Jobs)
            /\ Len(entries) <= Len(entries')
        BY <1>0, <3>2, EntryType, EntriesGrow DEF EntriesOK
      <4>2. entries'[e].next = entries[e].next /\ entries'[e].counters = entries[e].counters
        BY <2>1, <3>2
      <4>3. entries'[e].jobs \in {entries[e].jobs, Append(entries[e].jobs, array[k])}
        BY <2>1, <3>2, Zenon
      <4>4. Noted(entries'[e].jobs, Base')
        BY <1>1, <2>2, <3>2, <4>1, <4>3, Zenon
      <4>5. Len(entries') \in Nat
        BY EntriesGrow
      <4>6. e < Len(entries) => e < Len(entries')
        BY <1>0, <4>1, <4>5
      <4>. QED
        BY <4>1, <4>2, <4>4, <4>6
    <3>. QED
      BY <1>0, <2>1, <3>1, <3>2
  <2>. QED
    BY <2>4 DEF EntriesOK
<1>4. ASSUME NEW t \in Threads, SetCounters(t)
      PROVE  EntriesOK'
  <2>1. Len(seen[t]) = NThreads
    BY <1>4 DEF SetCounters
  <2>2. ASSUME NEW e \in 1 .. Len(entries)
        PROVE  /\ entries'[e].next \in {e - 1, NoEntry}
               /\ entries'[e].counters # NoCounters => Len(entries'[e].counters) = NThreads /\ e < Len(entries)
               /\ Noted(entries'[e].jobs, Base')
    <3>1. /\ entries'[e].jobs = entries[e].jobs
          /\ entries'[e].next = entries[e].next
          /\ entries'[e].counters = IF e = jobs[t][1].num THEN seen[t] ELSE entries[e].counters
          /\ jobs[t][1].num \in 1 .. Len(entries) - 1
      BY <1>4, SetCountersEntries
    <3>2. e = jobs[t][1].num => e < Len(entries)
      BY <1>0, <3>1
    <3>. QED
      BY <1>0, <1>1, <2>1, <3>1, <3>2 DEF EntriesOK
  <2>. QED
    BY <1>4, <2>2, SetCountersEntries DEF EntriesOK
<1>5. ASSUME NEW t \in Threads, Unlink(t)
      PROVE  EntriesOK'
  <2>1. ASSUME NEW e \in 1 .. Len(entries)
        PROVE  /\ entries'[e].next \in {e - 1, NoEntry}
               /\ entries'[e].counters # NoCounters => Len(entries'[e].counters) = NThreads /\ e < Len(entries)
               /\ Noted(entries'[e].jobs, Base')
    <3>1. /\ entries'[e].jobs = entries[e].jobs
          /\ entries'[e].next = IF e = before[t] THEN NoEntry ELSE entries[e].next
          /\ entries'[e].counters = entries[e].counters
      BY <1>5, UnlinkEntries
    <3>. QED
      BY <1>0, <1>1, <3>1 DEF EntriesOK
  <2>. QED
    BY <1>5, <2>1, UnlinkEntries DEF EntriesOK
<1>. QED
  BY <1>2, <1>3, <1>4, <1>5, EntriesFrame

-----------------------------------------------------------------------------
(* How jobs move *)

\* A call of this file is put into the queue.
Ask(b) ==
    /\ b \in Seq(Jobs)
    /\ Call(b, Len(entries'))
    /\ queue' = Append(queue, b)
    /\ UNCHANGED jobs

\* A thread takes a batch off the queue.
Take(t) ==
    /\ queue # <<>>
    /\ jobs[t] = <<>>
    /\ jobs' = [jobs EXCEPT ![t] = Head(queue)]
    /\ queue' = Tail(queue)
    /\ t # Main => pc[t] = "dequeue"
    /\ UNCHANGED <<seen, entries>>

\* A thread is done with a job.
Finish(t) ==
    /\ jobs[t] # <<>>
    /\ NextOf(t)
    /\ UNCHANGED queue

LEMMA Moves ==
    ASSUME StructInv, [Next]_vars
    PROVE  \/ UNCHANGED <<queue, jobs>>
           \/ \E b : Ask(b)
           \/ \E t \in Threads : Take(t) \/ Finish(t)
           \/ Dispatch
           \/ StopNetwork
<1>0. TypeOK
  BY DEF StructInv
<1>1. CASE Stop \/ Check \/ GetJobs \/ Join \/ Remaining \/ UNCHANGED vars
  BY <1>1, Zenon DEF Stop, Check, GetJobs, Join, Remaining, queueVars, threadVars, vars
<1>2. CASE Repeated
  <2> DEFINE b == <<Job("DISPATCHDELAYED", 0, 0)>>
  <2>1. b \in Seq(Jobs) /\ Len(b) = 1 /\ b # <<>> /\ b[1].type = "DISPATCHDELAYED"
    BY DEF Job, Jobs, JobType
  <2>2. UNCHANGED jobs /\ (UNCHANGED queue \/ queue' = Append(queue, b))
    BY <1>2 DEF Repeated, threadVars
  <2> HIDE DEF b
  <2>. QED
    BY <2>1, <2>2 DEF Ask, Call, Looks
<1>3. CASE Filter
  <2> DEFINE b == <<Job("GETCOUNTERS", Len(entries), 0)>>
  <2>1. Len(entries) \in Nat
    BY EntriesGrow
  <2>2. b \in Seq(Jobs) /\ Len(b) = 1 /\ b # <<>> /\ b[1].type = "GETCOUNTERS" /\ b[1].num = Len(entries)
    BY <2>1 DEF Job, Jobs, JobType
  <2>3. UNCHANGED jobs
    BY <1>3 DEF Filter, threadVars
  <2>4. UNCHANGED queue \/ (queue' = Append(queue, b) /\ Len(entries) > 0 /\ Len(entries') = Len(entries) + 1)
    BY <1>3, FilterEntries
  <2> HIDE DEF b
  <2>5. CASE queue' = Append(queue, b) /\ Len(entries) > 0 /\ Len(entries') = Len(entries) + 1
    <3>1. b[1].num \in 1 .. Len(entries') - 1
      BY <2>1, <2>2, <2>5
    <3>. QED
      BY <2>2, <2>3, <2>5, <3>1 DEF Ask, Call, Asks
  <2>. QED
    BY <2>3, <2>4, <2>5
<1>4. CASE EmptyQueue
  BY <1>4, ThreadKinds, Zenon DEF EmptyQueue, Take
<1>5. ASSUME NEW t \in Threads,
             \/ RunJob(t) \/ ReadCounter(t) \/ SetCounters(t) \/ StartFind(t)
             \/ Find(t) \/ RunDelayed(t) \/ Unlink(t)
      PROVE  UNCHANGED <<queue, jobs>> \/ Finish(t)
  <2>1. UNCHANGED queue
    BY <1>5 DEF RunJob, ReadCounter, SetCounters, StartFind, Find, RunDelayed, Unlink, queueVars
  <2>2. pc[t] \in {"find", "delayed"} => jobs[t] # <<>>
    BY BatchOf DEF ThreadOK, Looks
  <2>3. UNCHANGED jobs \/ (jobs[t] # <<>> /\ NextOf(t))
    BY <1>5, <2>2 DEF RunJob, ReadCounter, SetCounters, StartFind, Find, RunDelayed, Unlink
  <2>. QED
    BY <2>1, <2>3 DEF Finish
<1>6. ASSUME NEW w \in Workers, LoopCheck(w) \/ Dequeue(w) \/ EndBatch(w) \/ Count(w)
      PROVE  UNCHANGED <<queue, jobs>> \/ Take(w)
  <2>1. pc[w] = "dequeue" => jobs[w] = <<>>
    BY ThreadKinds, BatchOf, Zenon DEF ThreadOK
  <2>. QED
    BY <1>6, <2>1 DEF LoopCheck, Dequeue, EndBatch, Count, queueVars, delayedVars, Take
<1>. QED
  BY <1>1, <1>2, <1>3, <1>4, <1>5, <1>6, Steps, ThreadKinds

\* What each move leaves in the queue and with the threads.
LEMMA AskEffect ==
    ASSUME TypeOK, NEW b, Ask(b)
    PROVE  /\ Len(queue') = Len(queue) + 1
           /\ \A k \in 1 .. Len(queue) : queue'[k] = queue[k]
           /\ queue'[Len(queue) + 1] = b
<1>1. queue \in Seq(Seq(Jobs)) /\ b \in Seq(Jobs)
  BY DEF TypeOK, Ask
<1>2. queue' = Append(queue, b)
  BY DEF Ask
<1>. QED
  BY <1>1, <1>2

LEMMA TakeEffect ==
    ASSUME TypeOK, NEW t \in Threads, Take(t)
    PROVE  /\ Len(queue) \in Nat /\ Len(queue) >= 1
           /\ Len(queue') = Len(queue) - 1
           /\ \A k \in 1 .. Len(queue') : queue'[k] = queue[k + 1] /\ k + 1 \in 1 .. Len(queue)
           /\ jobs'[t] = queue[1]
           /\ \A u \in Threads : u # t => jobs'[u] = jobs[u]
<1>1. queue \in Seq(Seq(Jobs)) /\ jobs \in [Threads -> Seq(Jobs)] /\ queue # <<>>
  BY DEF TypeOK, Take
<1>2. /\ Len(queue) \in Nat /\ Len(queue) >= 1
      /\ Len(queue') = Len(queue) - 1
      /\ \A k \in 1 .. Len(queue') : queue'[k] = queue[k + 1] /\ k + 1 \in 1 .. Len(queue)
  BY <1>1 DEF Take
<1>3. Head(queue) = queue[1]
  BY <1>1
<1>. QED
  BY <1>1, <1>2, <1>3 DEF Take

LEMMA FinishEffect ==
    ASSUME StructInv, NEW t \in Threads, Finish(t)
    PROVE  /\ queue' = queue
           /\ Len(jobs[t]) \in Nat /\ Len(jobs[t]) >= 1
           /\ Len(jobs'[t]) = Len(jobs[t]) - 1
           /\ \A i \in 1 .. Len(jobs'[t]) : jobs'[t][i] = jobs[t][i + 1] /\ i + 1 \in 1 .. Len(jobs[t])
           /\ Plain(jobs'[t])
           /\ \A u \in Threads : u # t => jobs'[u] = jobs[u]
<1>1. jobs \in [Threads -> Seq(Jobs)] /\ jobs[t] \in Seq(Jobs) /\ jobs[t] # <<>>
  BY DEF StructInv, TypeOK, Finish
<1>2. jobs'[t] = Tail(jobs[t])
  BY <1>1 DEF Finish, NextOf
<1>3. Plain(Tail(jobs[t]))
  BY <1>1, BatchOf, BatchHead
<1>4. /\ Len(jobs[t]) \in Nat /\ Len(jobs[t]) >= 1
      /\ Len(Tail(jobs[t])) = Len(jobs[t]) - 1
      /\ \A i \in 1 .. Len(Tail(jobs[t])) : Tail(jobs[t])[i] = jobs[t][i + 1] /\ i + 1 \in 1 .. Len(jobs[t])
  BY <1>1
<1>5. \A u \in Threads : u # t => jobs'[u] = jobs[u]
  BY <1>1 DEF Finish, NextOf
<1>6. queue' = queue
  BY DEF Finish
<1>. QED
  BY <1>2, <1>3, <1>4, <1>5, <1>6

LEMMA DispatchEffect ==
    ASSUME StructInv, Dispatch
    PROVE  /\ jobs' = jobs
           /\ Len(queue) \in Nat
           /\ NumSlices(array) \in Nat
           /\ Len(queue') = Len(queue) + NumSlices(array)
           /\ \A k \in 1 .. Len(queue) : queue'[k] = queue[k]
           /\ \A k \in 1 .. NumSlices(array) : queue'[Len(queue) + k] = Slices(array)[k]
           /\ \A k \in 1 .. Len(queue') : k \in 1 .. Len(queue) \/ k - Len(queue) \in 1 .. NumSlices(array)
<1>1. queue \in Seq(Seq(Jobs)) /\ array \in Seq(Jobs)
  BY DEF StructInv, TypeOK
<1>2. Slices(array) \in Seq(Seq(Jobs)) /\ Len(Slices(array)) = NumSlices(array) /\ NumSlices(array) \in Nat
  BY <1>1, SlicesType, NumSlicesBounds
<1>3. queue' = queue \o Slices(array) /\ jobs' = jobs
  BY DEF Dispatch, threadVars
<1> DEFINE sl == Slices(array)
           n == NumSlices(array)
<1> HIDE DEF sl, n
<1>4. /\ Len(queue') = Len(queue) + n /\ Len(queue) \in Nat
      /\ \A k \in 1 .. Len(queue) : queue'[k] = queue[k]
      /\ \A k \in 1 .. n : queue'[Len(queue) + k] = sl[k]
  BY <1>1, <1>2, <1>3 DEF sl, n
<1>5. \A k \in 1 .. Len(queue') : k \in 1 .. Len(queue) \/ k - Len(queue) \in 1 .. n
  BY <1>2, <1>4 DEF n
<1>. QED
  BY <1>2, <1>3, <1>4, <1>5 DEF sl, n

LEMMA StopEffect ==
    ASSUME StructInv, StopNetwork
    PROVE  \E a \in StopArrays :
              /\ jobs'[Main] = Numbered(a)
              /\ nextJob' = nextJob + Len(a)
              /\ jobs[Main] = <<>>
              /\ \A u \in Threads : u # Main => jobs'[u] = jobs[u]
              /\ queue' = queue
<1>1. jobs \in [Threads -> Seq(Jobs)] /\ Main \in Threads
  BY ThreadKinds DEF StructInv, TypeOK
<1>2. PICK a \in StopArrays : jobs' = [jobs EXCEPT ![Main] = Numbered(a)] /\ nextJob' = nextJob + Len(a)
  BY Zenon DEF StopNetwork
<1>3. jobs[Main] = <<>>
  BY Zenon DEF StopNetwork, StructInv, PhaseOK
<1>4. queue' = queue
  BY DEF StopNetwork, queueVars
<1>. QED
  BY <1>1, <1>2, <1>3, <1>4

LEMMA BatchGrows ==
    ASSUME NEW s, NEW n \in Nat, NEW m \in Nat, n <= m, Batch(s, n)
    PROVE  Batch(s, m)
<1>1. CASE Plain(s)
  BY <1>1 DEF Batch
<1>2. CASE Call(s, n)
  <2>1. s[1].num \in 1 .. n - 1 => s[1].num \in 1 .. m - 1
    OBVIOUS
  <2>. QED
    BY <1>2, <2>1 DEF Batch, Call
<1>. QED
  BY <1>1, <1>2 DEF Batch

LEMMA BatchesStep ==
    ASSUME StructInv, [Next]_vars
    PROVE  BatchesOK'
<1>0. TypeOK /\ BatchesOK
  BY DEF StructInv
<1> DEFINE n == Len(entries)
           m == Len(entries')
<1>1. n \in Nat /\ m \in Nat /\ n <= m
  BY EntriesGrow
<1>2. \A k \in 1 .. Len(queue) : Batch(queue[k], m)
  BY <1>0, <1>1, BatchGrows DEF BatchesOK
<1>3. \A t \in Threads : Batch(jobs[t], m)
  BY <1>0, <1>1, BatchGrows DEF BatchesOK
<1> HIDE DEF n, m
<1> SUFFICES (\A k \in 1 .. Len(queue') : Batch(queue'[k], m)) /\ (\A t \in Threads : Batch(jobs'[t], m))
  BY DEF BatchesOK, m
<1>4. CASE UNCHANGED <<queue, jobs>>
  BY <1>2, <1>3, <1>4
<1>5. ASSUME NEW b, Ask(b)
      PROVE  (\A k \in 1 .. Len(queue') : Batch(queue'[k], m)) /\ (\A t \in Threads : Batch(jobs'[t], m))
  <2>1. Len(queue) \in Nat
    BY <1>0 DEF TypeOK
  <2>2. Batch(b, m) /\ jobs' = jobs
    BY <1>5 DEF Ask, Batch, m
  <2>3. \A k \in 1 .. Len(queue') : k \in 1 .. Len(queue) \/ k = Len(queue) + 1
    BY <1>0, <1>5, <2>1, AskEffect
  <2>. QED
    BY <1>0, <1>2, <1>3, <1>5, <2>2, <2>3, AskEffect
<1>6. ASSUME NEW t \in Threads, Take(t)
      PROVE  (\A k \in 1 .. Len(queue') : Batch(queue'[k], m)) /\ (\A u \in Threads : Batch(jobs'[u], m))
  <2>1. \A k \in 1 .. Len(queue') : Batch(queue'[k], m)
    BY <1>0, <1>2, <1>6, TakeEffect
  <2>2. 1 \in 1 .. Len(queue)
    BY <1>0, <1>6, TakeEffect
  <2>3. \A u \in Threads : Batch(jobs'[u], m)
    BY <1>0, <1>2, <1>3, <1>6, <2>2, TakeEffect
  <2>. QED
    BY <2>1, <2>3
<1>7. ASSUME NEW t \in Threads, Finish(t)
      PROVE  (\A k \in 1 .. Len(queue') : Batch(queue'[k], m)) /\ (\A u \in Threads : Batch(jobs'[u], m))
  <2>1. Batch(jobs'[t], m)
    BY <1>7, FinishEffect DEF Batch
  <2>. QED
    BY <1>2, <1>3, <1>7, <2>1, FinishEffect
<1>8. CASE Dispatch
  <2>1. array \in Seq(Jobs) /\ \A i \in 1 .. Len(array) : array[i].type \in {"NORMAL", "DELAYED", "NOTHING"}
    BY <1>0 DEF StructInv, ArrayOK, TypeOK
  <2>2. ASSUME NEW k \in 1 .. NumSlices(array)
        PROVE  Batch(Slices(array)[k], m)
    <3>1. Plain(Slices(array)[k])
      BY <2>1, SlicesType, Zenon DEF Plain
    <3>. QED
      BY <3>1 DEF Batch
  <2>3. ASSUME NEW k \in 1 .. Len(queue')
        PROVE  Batch(queue'[k], m)
    <3>1. CASE k \in 1 .. Len(queue)
      BY <1>2, <1>8, <3>1, DispatchEffect
    <3>2. CASE k - Len(queue) \in 1 .. NumSlices(array)
      <4>1. k = Len(queue) + (k - Len(queue))
        BY <1>8, DispatchEffect
      <4>. QED
        BY <1>8, <2>2, <3>2, <4>1, DispatchEffect
    <3>. QED
      BY <1>8, <3>1, <3>2, DispatchEffect
  <2>. QED
    BY <1>3, <1>8, <2>3, DispatchEffect
<1>9. CASE StopNetwork
  <2>1. PICK a \in StopArrays :
              /\ jobs'[Main] = Numbered(a)
              /\ \A u \in Threads : u # Main => jobs'[u] = jobs[u]
              /\ queue' = queue
    BY <1>9, StopEffect
  <2>2. Plain(Numbered(a))
    BY <1>0, NumberedType DEF TypeOK, Plain
  <2>. QED
    BY <1>2, <1>3, <2>1, <2>2 DEF Batch
<1>. QED
  BY <1>4, <1>5, <1>6, <1>7, <1>8, <1>9, Moves

-----------------------------------------------------------------------------
(* The threads *)

\* A thread that the step does not concern.
Same(u) ==
    /\ pc'[u] = pc[u]
    /\ jobs'[u] = jobs[u]
    /\ seen'[u] = seen[u]
    /\ dw'[u] = dw[u]
    /\ before'[u] = before[u]
    /\ todo'[u] = todo[u]

LEMMA SameOK ==
    ASSUME StructInv, [Next]_vars, NEW u \in Threads, Same(u)
    PROVE  ThreadOK(u)'
<1>1. ThreadOK(u) /\ before[u] \in Nat /\ todo[u] \in Seq(Jobs)
  BY BatchOf, ZenonT(30) DEF StructInv, TypeOK
<1>2. Noted(todo'[u], Base')
  BY <1>1, BaseType, ArrayStep, NotedGrows DEF Same, ThreadOK
<1>3. before[u] <= Len(entries) => before[u] <= Len(entries')
  BY <1>1, EntriesGrow
<1>. QED
  BY <1>1, <1>2, <1>3, Zenon DEF Same, ThreadOK

\* A step of a thread concerns no other thread.
LEMMA OtherThread ==
    ASSUME StructInv, NEW t \in Threads, NEW u \in Threads, u # t,
           \/ RunJob(t) \/ ReadCounter(t) \/ SetCounters(t) \/ StartFind(t)
           \/ Find(t) \/ RunDelayed(t) \/ Unlink(t)
           \/ LoopCheck(t) \/ Dequeue(t) \/ EndBatch(t) \/ Count(t)
    PROVE  Same(u)
<1>0. /\ pc \in [Threads -> PCs] /\ jobs \in [Threads -> Seq(Jobs)] /\ seen \in [Threads -> Seq(0 .. CounterMod - 1)]
      /\ dw \in [Threads -> Nat] /\ before \in [Threads -> Nat] /\ todo \in [Threads -> Seq(Jobs)]
  BY SMTT(30) DEF StructInv, TypeOK
<1>1. CASE RunJob(t)
  BY <1>0, <1>1, Zenon DEF RunJob, NextOf, Same, delayedVars
<1>2. CASE ReadCounter(t)
  BY <1>0, <1>2 DEF ReadCounter, Same, delayedVars
<1>3. CASE SetCounters(t)
  BY <1>0, <1>3 DEF SetCounters, NextOf, Same, delayedVars
<1>4. CASE StartFind(t)
  BY <1>0, <1>4, Zenon DEF StartFind, Same
<1>5. CASE Find(t)
  BY <1>0, <1>5, Zenon DEF Find, NextOf, Same, delayedVars
<1>6. CASE RunDelayed(t)
  BY <1>0, <1>6, Zenon DEF RunDelayed, Same
<1>7. CASE Unlink(t)
  <2>1. UNCHANGED <<seen, before>> /\ dw'[u] = dw[u]
    BY <1>0, <1>7 DEF Unlink
  <2>2. pc'[u] = pc[u] /\ jobs'[u] = jobs[u] /\ todo'[u] = todo[u]
    BY <1>0, <1>7 DEF Unlink, NextOf
  <2>. QED
    BY <2>1, <2>2 DEF Same
<1>8. CASE LoopCheck(t)
  BY <1>0, <1>8 DEF LoopCheck, Same, delayedVars
<1>9. CASE Dequeue(t)
  BY <1>0, <1>9 DEF Dequeue, Same, delayedVars
<1>10. CASE EndBatch(t)
  BY <1>0, <1>10 DEF EndBatch, Same, delayedVars
<1>11. CASE Count(t)
  BY <1>0, <1>11 DEF Count, Same, delayedVars
<1>. QED
  BY <1>1, <1>2, <1>3, <1>4, <1>5, <1>6, <1>7, <1>8, <1>9, <1>10, <1>11

LEMMA ThreadType ==
    ASSUME StructInv, NEW t \in Threads
    PROVE  /\ pc[t] \in PCs /\ jobs[t] \in Seq(Jobs) /\ seen[t] \in Seq(0 .. CounterMod - 1)
           /\ dw[t] \in Nat /\ before[t] \in Nat /\ todo[t] \in Seq(Jobs)
BY DEF StructInv, TypeOK

\* The delayed jobs a thread still has to execute stay noted.
LEMMA TodoNoted ==
    ASSUME StructInv, [Next]_vars, NEW t \in Threads
    PROVE  /\ Noted(todo[t], Base')
           /\ todo[t] # <<>> => Noted(Tail(todo[t]), Base')
           /\ \A e \in 1 .. Len(entries) : Noted(entries[e].jobs, Base')
           /\ Noted(<<>>, Base')
<1>1. Base \in Nat /\ Base' \in Nat /\ Base <= Base'
  BY BaseType, ArrayStep
<1>2. Noted(todo[t], Base) /\ todo[t] \in Seq(Jobs)
  BY BatchOf, ThreadType DEF ThreadOK
<1>3. Noted(todo[t], Base')
  BY <1>1, <1>2, NotedGrows
<1>4. todo[t] # <<>> => Noted(Tail(todo[t]), Base')
  BY <1>2, <1>3 DEF Noted
<1>5. \A e \in 1 .. Len(entries) : Noted(entries[e].jobs, Base')
  <2>1. ASSUME NEW e \in 1 .. Len(entries)
        PROVE  entries[e].jobs \in Seq(Jobs) /\ Noted(entries[e].jobs, Base)
    BY EntryType DEF StructInv, EntriesOK
  <2>. QED
    BY <1>1, <2>1, NotedGrows
<1>6. Noted(<<>>, Base')
  BY DEF Noted
<1>. QED
  BY <1>3, <1>4, <1>5, <1>6

\* The list pointers of dispatchDelayedJobs move on to the next entry.
LEMMA NextEntry ==
    ASSUME StructInv, NEW e \in 1 .. Len(entries)
    PROVE  /\ entries[e].next \in Nat
           /\ entries[e].next # NoEntry => entries[e].next \in 1 .. Len(entries) /\ e = entries[e].next + 1
           /\ e <= Len(entries)
<1>1. entries[e].next \in {e - 1, NoEntry} /\ Len(entries) \in Nat
  BY DEF StructInv, EntriesOK, TypeOK
<1>. QED
  BY <1>1 DEF NoEntry

LEMMA JobThread ==
    ASSUME StructInv, [Next]_vars, NEW t \in Threads,
           \/ RunJob(t) \/ ReadCounter(t) \/ SetCounters(t) \/ StartFind(t)
           \/ Find(t) \/ RunDelayed(t) \/ Unlink(t)
    PROVE  ThreadOK(t)'
<1>0. /\ pc \in [Threads -> PCs] /\ jobs \in [Threads -> Seq(Jobs)] /\ seen \in [Threads -> Seq(0 .. CounterMod - 1)]
      /\ dw \in [Threads -> Nat] /\ before \in [Threads -> Nat] /\ todo \in [Threads -> Seq(Jobs)]
  BY SMTT(30) DEF StructInv, TypeOK
<1>1. ThreadOK(t) /\ Batch(jobs[t], Len(entries)) /\ Len(seen[t]) \in Nat
  BY <1>0, BatchOf
<1>2. Noted(todo[t], Base') /\ (todo[t] # <<>> => Noted(Tail(todo[t]), Base'))
      /\ \A e \in 1 .. Len(entries) : Noted(entries[e].jobs, Base')
  BY TodoNoted
<1>3. Len(entries) \in Nat /\ Len(entries') \in Nat /\ Len(entries) <= Len(entries')
  BY EntriesGrow
<1>4. jobs[t] # <<>> => Head(jobs[t]) = jobs[t][1]
  BY <1>0, <1>1, BatchHead, Zenon
<1>5. CASE RunJob(t)
  <2>1. seen[t] = <<>>
    BY <1>1, <1>4, <1>5, Zenon DEF RunJob, ThreadOK, Asks
  <2>2. pc'[t] = "job" /\ seen'[t] = seen[t] /\ todo'[t] = todo[t]
    BY <1>5, Zenon DEF RunJob, delayedVars
  <2>. QED
    BY <1>1, <1>2, <2>1, <2>2, Zenon DEF ThreadOK
<1>6. CASE ReadCounter(t)
  <2>1. pc'[t] = "job" /\ jobs'[t] = jobs[t] /\ todo'[t] = todo[t]
    BY <1>6 DEF ReadCounter, delayedVars
  <2>2. Asks(jobs[t])
    BY <1>4, <1>6, Zenon DEF ReadCounter, Asks
  <2>3. PICK v \in CounterValue(Len(seen[t]) + 1) : seen' = [seen EXCEPT ![t] = Append(@, v)]
    BY <1>6, Zenon DEF ReadCounter
  <2>4. seen'[t] = Append(seen[t], v) /\ Len(seen[t]) < NThreads
    BY <1>0, <1>6, <2>3 DEF ReadCounter
  <2>5. Len(seen'[t]) = Len(seen[t]) + 1
    BY <1>0, <2>4
  <2>6. Len(seen'[t]) <= NThreads
    <3>1. Len(seen[t]) \in Nat
      BY <1>0
    <3>. QED
      BY <2>4, <2>5, <3>1, SizesAssumption
  <2>. QED
    BY <1>2, <2>1, <2>2, <2>6, ZenonT(30) DEF ThreadOK
<1>7. CASE SetCounters(t)
  <2>1. pc'[t] = "job" /\ seen'[t] = <<>> /\ todo'[t] = todo[t]
    BY <1>0, <1>7 DEF SetCounters, delayedVars
  <2>. QED
    BY <1>2, <2>1, SizesAssumption DEF ThreadOK
<1>8. CASE StartFind(t)
  <2>1. pc'[t] = "find" /\ jobs'[t] = jobs[t] /\ seen'[t] = seen[t] /\ todo'[t] = todo[t] /\ entries' = entries
    BY <1>0, <1>8, Zenon DEF StartFind, queueVars
  <2>2. Looks(jobs[t])
    BY <1>4, <1>8, Zenon DEF StartFind, Looks
  <2>3. before'[t] = Len(entries)
        /\ dw'[t] = IF entries = <<>> THEN NoEntry ELSE entries[Len(entries)].next
    BY <1>0, <1>8, Zenon DEF StartFind
  <2>4. entries # <<>> => Len(entries) \in 1 .. Len(entries)
    BY <1>3 DEF StructInv, TypeOK
  <2>5. dw'[t] # NoEntry => before'[t] = dw'[t] + 1 /\ before'[t] <= Len(entries')
    BY <1>3, <2>1, <2>3, <2>4, NextEntry
  <2>. QED
    BY <1>1, <1>2, <2>1, <2>2, <2>5, Zenon DEF ThreadOK
<1>9. CASE Find(t)
  <2>1. Looks(jobs[t]) /\ seen'[t] = seen[t] /\ entries' = entries
    BY <1>1, <1>9, ZenonT(30) DEF Find, ThreadOK, queueVars
  <2>2. ~Asks(jobs[t])
    BY <2>1 DEF Looks, Asks
  <2>3. seen[t] = <<>>
    BY <1>1, <2>2, Zenon DEF ThreadOK
  <2>4. CASE dw[t] = NoEntry
    <3>1. pc'[t] = "job" /\ todo'[t] = todo[t]
      BY <1>0, <1>9, <2>4, Zenon DEF Find, delayedVars
    <3>. QED
      BY <1>1, <1>2, <2>1, <2>3, <3>1, Zenon DEF ThreadOK
  <2>5. CASE dw[t] # NoEntry
    <3>1. before[t] = dw[t] + 1 /\ before[t] <= Len(entries)
      BY <1>1, <1>9, <2>5, Zenon DEF Find, ThreadOK
    <3>2. dw[t] \in 1 .. Len(entries)
      BY <1>0, <1>3, <2>5, <3>1 DEF NoEntry
    <3>3. \/ /\ pc'[t] = "find" /\ jobs'[t] = jobs[t] /\ todo'[t] = todo[t]
             /\ before'[t] = dw[t] /\ dw'[t] = entries[dw[t]].next
          \/ /\ pc'[t] = "delayed" /\ jobs'[t] = jobs[t] /\ todo'[t] = entries[dw[t]].jobs
             /\ before'[t] = before[t] /\ dw'[t] = dw[t]
      <4>1. \/ /\ before' = [before EXCEPT ![t] = dw[t]]
               /\ dw' = [dw EXCEPT ![t] = entries[dw[t]].next]
               /\ UNCHANGED <<pc, jobs, todo>>
            \/ /\ todo' = [todo EXCEPT ![t] = entries[dw[t]].jobs]
               /\ pc' = [pc EXCEPT ![t] = "delayed"]
               /\ UNCHANGED <<jobs, dw, before>>
        BY <1>9, <2>5, Zenon DEF Find
      <4>2. pc[t] = "find"
        BY <1>9, Zenon DEF Find
      <4>. QED
        BY <1>0, <4>1, <4>2, Zenon
    <3>4. CASE pc'[t] = "find" /\ jobs'[t] = jobs[t] /\ todo'[t] = todo[t]
             /\ before'[t] = dw[t] /\ dw'[t] = entries[dw[t]].next
      <4>1. dw'[t] # NoEntry => before'[t] = dw'[t] + 1 /\ before'[t] <= Len(entries')
        BY <2>1, <3>2, <3>4, NextEntry, Zenon
      <4>. QED
        BY <1>1, <1>2, <2>1, <2>3, <3>4, <4>1, Zenon DEF ThreadOK
    <3>5. CASE pc'[t] = "delayed" /\ jobs'[t] = jobs[t] /\ todo'[t] = entries[dw[t]].jobs
             /\ before'[t] = before[t] /\ dw'[t] = dw[t]
      <4>1. Noted(todo'[t], Base')
        BY <1>2, <3>2, <3>5, Zenon
      <4>. QED
        BY <1>1, <2>1, <2>3, <2>5, <3>1, <3>5, <4>1, Zenon DEF ThreadOK
    <3>. QED
      BY <3>3, <3>4, <3>5, Zenon
  <2>. QED
    BY <2>4, <2>5
<1>10. CASE RunDelayed(t)
  <2>1. /\ pc'[t] = pc[t] /\ jobs'[t] = jobs[t] /\ seen'[t] = seen[t] /\ dw'[t] = dw[t]
        /\ before'[t] = before[t] /\ todo'[t] = Tail(todo[t]) /\ todo[t] # <<>> /\ entries' = entries
    BY <1>0, <1>10, ZenonT(30) DEF RunDelayed, queueVars
  <2>. QED
    BY <1>1, <1>2, <2>1, Zenon DEF ThreadOK
<1>11. CASE Unlink(t)
  <2> DEFINE next == entries[before[t]].next
  <2>1. before[t] \in 1 .. Len(entries) /\ Len(entries') = Len(entries)
    BY <1>11, UnlinkEntries, Zenon
  <2>2. Looks(jobs[t]) /\ seen'[t] = seen[t] /\ before'[t] = before[t] /\ dw'[t] = next
    BY <1>0, <1>1, <1>11 DEF Unlink, ThreadOK
  <2>3. ~Asks(jobs[t])
    BY <2>2, Zenon DEF Looks, Asks
  <2>4. seen[t] = <<>>
    BY <1>1, <2>3, Zenon DEF ThreadOK
  <2>5. next # NoEntry => next \in 1 .. Len(entries) /\ before[t] = next + 1
    BY <2>1, NextEntry, Zenon
  <2>6. CASE next = NoEntry
    <3>1. pc'[t] = "job" /\ todo'[t] = todo[t]
      BY <1>0, <1>11, <2>6 DEF Unlink
    <3>. QED
      BY <1>1, <1>2, <2>2, <2>4, <3>1, Zenon DEF ThreadOK
  <2>7. CASE next # NoEntry
    <3>1. pc'[t] = "delayed" /\ jobs'[t] = jobs[t]
      BY <1>11, <2>7 DEF Unlink
    <3>2. todo'[t] = entries[next].jobs \/ todo'[t] = todo[t]
      BY <1>0, <1>11, <2>7 DEF Unlink
    <3>3. Noted(todo'[t], Base')
      BY <1>2, <2>5, <2>7, <3>2, Zenon
    <3>4. before'[t] = dw'[t] + 1 /\ before'[t] <= Len(entries')
      <4> HIDE DEF next
      <4>1. before[t] = next + 1 /\ before[t] <= Len(entries)
        BY <1>3, <2>1, <2>5, <2>7
      <4>. QED
        BY <2>1, <2>2, <4>1, Zenon
    <3> HIDE DEF next
    <3>. QED
      BY <1>1, <2>2, <2>4, <2>7, <3>1, <3>3, <3>4, Zenon DEF ThreadOK
  <2>. QED
    BY <2>6, <2>7
<1>. QED
  BY <1>5, <1>6, <1>7, <1>8, <1>9, <1>10, <1>11

LEMMA WorkerThread ==
    ASSUME StructInv, [Next]_vars, NEW w \in Workers, LoopCheck(w) \/ Dequeue(w) \/ EndBatch(w) \/ Count(w)
    PROVE  ThreadOK(w)'
<1>0. /\ pc \in [Threads -> PCs] /\ jobs \in [Threads -> Seq(Jobs)] /\ seen \in [Threads -> Seq(0 .. CounterMod - 1)]
      /\ dw \in [Threads -> Nat] /\ before \in [Threads -> Nat] /\ todo \in [Threads -> Seq(Jobs)]
      /\ w \in Threads /\ w # Main
  <2>1. w \in Threads /\ w # Main
    BY ThreadKinds
  <2>. QED
    BY <2>1, SMTT(30) DEF StructInv, TypeOK
<1>1. ThreadOK(w)
  BY <1>0, BatchOf
<1>2. Noted(todo[w], Base')
  BY <1>0, TodoNoted, Zenon
<1>3. UNCHANGED <<seen, todo>>
  BY DEF LoopCheck, Dequeue, EndBatch, Count, delayedVars
<1>4. jobs[w] = <<>> /\ seen[w] = <<>>
  <2>1. jobs[w] = <<>>
    BY <1>1 DEF LoopCheck, Dequeue, EndBatch, Count, ThreadOK
  <2>. QED
    BY <1>1, <2>1, ZenonT(30) DEF ThreadOK, Asks
<1>4a. /\ Len(seen'[w]) <= NThreads /\ seen'[w] = <<>>
       /\ pc'[w] \in {"loop", "dequeue", "count", "exit"} => pc'[w] \notin {"find", "delayed"} /\ pc'[w] # "delayed"
       /\ pc'[w] = "job" => pc'[w] \notin {"loop", "dequeue", "count", "exit", "find", "delayed"}
  <2>1. seen'[w] = <<>> /\ Len(seen'[w]) = 0
    BY <1>3, <1>4
  <2>2. Len(seen'[w]) <= NThreads
    BY <2>1, SizesAssumption
  <2>. QED
    BY <2>1, <2>2, Zenon
<1>5. CASE jobs'[w] = <<>> /\ pc'[w] \in {"loop", "dequeue", "count", "exit"}
  BY <1>0, <1>2, <1>3, <1>4a, <1>5, Zenon DEF ThreadOK
<1>6. CASE pc'[w] = "job"
  BY <1>2, <1>3, <1>4a, <1>6, ZenonT(30) DEF ThreadOK
<1>7. CASE LoopCheck(w) \/ EndBatch(w) \/ Count(w)
  BY <1>0, <1>4, <1>5, <1>7 DEF LoopCheck, EndBatch, Count
<1>8. CASE Dequeue(w)
  BY <1>0, <1>4, <1>5, <1>6, <1>8 DEF Dequeue
<1>. QED
  BY <1>7, <1>8

\* The main thread with no jobs.
LEMMA MainIdle ==
    ASSUME StructInv, jobs[Main] = <<>>
    PROVE  pc[Main] = "job" /\ seen[Main] = <<>>
<1>1. ThreadOK(Main) /\ pc[Main] \in PCs
  BY ThreadKinds, BatchOf, ThreadType, Zenon
<1>2. ~Asks(jobs[Main]) /\ ~Looks(jobs[Main])
  BY Zenon DEF Asks, Looks
<1>. QED
  BY <1>1, <1>2, Zenon DEF ThreadOK, PCs

LEMMA MainThread ==
    ASSUME StructInv, [Next]_vars, StopNetwork \/ EmptyQueue \/ Remaining
    PROVE  ThreadsOK'
<1>0. /\ pc \in [Threads -> PCs] /\ jobs \in [Threads -> Seq(Jobs)] /\ seen \in [Threads -> Seq(0 .. CounterMod - 1)]
      /\ dw \in [Threads -> Nat] /\ before \in [Threads -> Nat] /\ todo \in [Threads -> Seq(Jobs)]
      /\ Main \in Threads
  BY ThreadKinds, Zenon DEF StructInv, TypeOK
<1>1. jobs[Main] = <<>>
  BY Zenon DEF StopNetwork, EmptyQueue, Remaining, StructInv, PhaseOK
<1>2. pc[Main] = "job" /\ seen[Main] = <<>>
  BY <1>1, MainIdle
<1>3. UNCHANGED <<pc, seen>>
  BY Zenon DEF StopNetwork, EmptyQueue, Remaining
<1>4. Noted(todo'[Main], Base')
  <2>1. CASE todo'[Main] \in {todo[Main], <<>>}
    BY <1>0, <2>1, TodoNoted, ZenonT(30)
  <2>2. ASSUME NEW e \in 1 .. Len(entries), todo'[Main] = entries[e].jobs
        PROVE  Noted(todo'[Main], Base')
    BY <1>0, <2>2, TodoNoted
  <2>3. CASE StopNetwork
    BY <2>1, <2>3 DEF StopNetwork, delayedVars
  <2>4. CASE EmptyQueue
    <3>1. entries # <<>> => Len(entries) \in 1 .. Len(entries)
      BY DEF StructInv, TypeOK
    <3>. QED
      <4>1. CASE queue # <<>>
        BY <2>1, <2>4, <4>1 DEF EmptyQueue
      <4>2. CASE queue = <<>>
        <5>1. todo'[Main] = IF entries = <<>> THEN <<>> ELSE entries[Len(entries)].jobs
          BY <1>0, <2>4, <4>2, Zenon DEF EmptyQueue
        <5>. QED
          BY <2>1, <2>2, <3>1, <5>1
      <4>. QED
        BY <4>1, <4>2
  <2>5. CASE Remaining
    <3>1. CASE todo[Main] # <<>>
      <4>1. todo'[Main] = Tail(todo[Main])
        BY <1>0, <2>5, <3>1, Zenon DEF Remaining
      <4>. QED
        BY <1>0, <3>1, <4>1, TodoNoted, Zenon
    <3>2. CASE todo[Main] = <<>> /\ dw[Main] = NoEntry
      BY <2>1, <2>5, <3>2, Zenon DEF Remaining
    <3>3. CASE todo[Main] = <<>> /\ dw[Main] # NoEntry
      <4>1. dw[Main] \in 1 .. Len(entries)
        <5>1. dw[Main] \in 0 .. Len(entries)
          BY <2>5, Zenon DEF Remaining, StructInv, PhaseOK
        <5>2. Len(entries) \in Nat
          BY DEF StructInv, TypeOK
        <5>. QED
          BY <3>3, <5>1, <5>2 DEF NoEntry
      <4>2. todo'[Main] = IF entries[dw[Main]].next = NoEntry THEN <<>> ELSE entries[entries[dw[Main]].next].jobs
        BY <1>0, <2>5, <3>3, Zenon DEF Remaining
      <4>. QED
        BY <2>1, <2>2, <4>1, <4>2, NextEntry, Zenon
    <3>. QED
      BY <3>1, <3>2, <3>3
  <2>. QED
    BY <2>3, <2>4, <2>5
<1>5. ThreadOK(Main)'
  <2>1. pc'[Main] \notin {"loop", "dequeue", "count", "exit", "find", "delayed"} /\ pc'[Main] # "delayed"
    BY <1>2, <1>3
  <2>2. seen'[Main] = <<>> /\ Len(seen'[Main]) <= NThreads
    BY <1>2, <1>3, SizesAssumption
  <2>. QED
    BY <1>4, <2>1, <2>2, Zenon DEF ThreadOK
<1>6. ASSUME NEW u \in Threads, u # Main
      PROVE  Same(u)
  <2>1. jobs'[u] = jobs[u]
    BY <1>0, <1>6, Zenon DEF StopNetwork, EmptyQueue, Remaining
  <2>2. dw'[u] = dw[u] /\ before'[u] = before[u] /\ todo'[u] = todo[u]
    BY <1>0, <1>6, Zenon DEF StopNetwork, EmptyQueue, Remaining, delayedVars
  <2>. QED
    BY <1>3, <2>1, <2>2 DEF Same
<1>. QED
  BY <1>5, <1>6, SameOK DEF ThreadsOK

LEMMA ThreadsStep ==
    ASSUME StructInv, [Next]_vars
    PROVE  ThreadsOK'
<1>1. CASE Stop \/ Check \/ Repeated \/ GetJobs \/ Filter \/ Dispatch \/ Join \/ UNCHANGED vars
  <2>1. UNCHANGED threadVars
    BY <1>1 DEF Stop, Check, Repeated, GetJobs, Filter, Dispatch, Join, vars, threadVars
  <2>2. \A u \in Threads : Same(u)
    BY <2>1 DEF threadVars, Same
  <2>. QED
    BY <2>2, SameOK DEF ThreadsOK
<1>2. CASE StopNetwork \/ EmptyQueue \/ Remaining
  BY <1>2, MainThread
<1>3. ASSUME NEW t \in Threads,
             \/ RunJob(t) \/ ReadCounter(t) \/ SetCounters(t) \/ StartFind(t)
             \/ Find(t) \/ RunDelayed(t) \/ Unlink(t)
      PROVE  ThreadsOK'
  <2>1. ThreadOK(t)'
    BY <1>3, JobThread
  <2>2. \A u \in Threads : u # t => ThreadOK(u)'
    BY <1>3, OtherThread, SameOK
  <2>. QED
    BY <2>1, <2>2 DEF ThreadsOK
<1>4. ASSUME NEW w \in Workers, LoopCheck(w) \/ Dequeue(w) \/ EndBatch(w) \/ Count(w)
      PROVE  ThreadsOK'
  <2>1. ThreadOK(w)'
    BY <1>4, WorkerThread
  <2>2. \A u \in Threads : u # w => ThreadOK(u)'
    BY <1>4, ThreadKinds, OtherThread, SameOK
  <2>. QED
    BY <2>1, <2>2 DEF ThreadsOK
<1>. QED
  BY <1>1, <1>2, <1>3, <1>4, Steps

-----------------------------------------------------------------------------
(* The phases *)

LEMMA NewerTail ==
    ASSUME NEW s \in Seq(Jobs), s # <<>>, NEW d, Newer(s, d)
    PROVE  Newer(Tail(s), d)
<1>1. /\ Len(Tail(s)) = Len(s) - 1 /\ Len(s) \in Nat
      /\ \A i \in 1 .. Len(Tail(s)) : Tail(s)[i] = s[i + 1] /\ i + 1 \in 1 .. Len(s)
  OBVIOUS
<1>. QED
  BY <1>1 DEF Newer

LEMMA NewerEmpty ==
    ASSUME NEW d
    PROVE  Newer(<<>>, d) /\ Newer(d, <<>>)
BY DEF Newer

LEMMA NewerCall ==
    ASSUME NEW b, NEW n, Call(b, n), NEW d
    PROVE  Newer(b, d)
<1>1. Len(b) = 1 /\ b[1].type # "NORMAL"
  BY DEF Call, Looks, Asks
<1>. QED
  BY <1>1 DEF Newer

\* The jobs of a new array are newer than all delayed jobs noted so far.
LEMMA NewerNumbered ==
    ASSUME StructInv, phase # "filter", NEW a \in Arrays \cup LateArrays \cup StopArrays,
           NEW d \in Seq(Jobs), Noted(d, Base)
    PROVE  Newer(Numbered(a), d)
<1>1. nextJob \in Nat /\ Base = nextJob
  BY ArrayEmpty, BaseType
<1>2. ASSUME NEW i \in 1 .. Len(Numbered(a)), NEW j \in 1 .. Len(d)
      PROVE  Numbered(a)[i].num >= d[j].first
  <2>1. d[j] \in Jobs
    OBVIOUS
  <2>2. d[j].first \in Nat /\ d[j].first <= nextJob
    BY <1>1, <2>1, Zenon DEF Noted, Jobs
  <2>3. i \in 1 .. Len(a) /\ Len(a) \in Nat /\ Numbered(a)[i].num = nextJob + i - 1
    BY <1>1, <1>2, NumberedType
  <2>. QED
    BY <1>1, <2>2, <2>3
<1>. QED
  BY <1>2 DEF Newer

\* A thread that is not in the middle of a job has nothing to do.
LEMMA JobStepBusy ==
    ASSUME StructInv, NEW t \in Threads,
           \/ RunJob(t) \/ ReadCounter(t) \/ SetCounters(t) \/ StartFind(t)
           \/ Find(t) \/ RunDelayed(t) \/ Unlink(t)
    PROVE  /\ jobs[t] # <<>>
           /\ pc[t] \in {"job", "find", "delayed"}
           /\ Plain(jobs[t]) => RunJob(t)
<1>1. ThreadOK(t) /\ jobs[t] \in Seq(Jobs) /\ Batch(jobs[t], Len(entries))
  BY BatchOf
<1>2. pc[t] \in {"job", "find", "delayed"}
  BY DEF RunJob, ReadCounter, SetCounters, StartFind, Find, RunDelayed, Unlink
<1>3. pc[t] \in {"find", "delayed"} => Looks(jobs[t])
  BY <1>1 DEF ThreadOK
<1>4. jobs[t] # <<>>
  BY <1>3 DEF RunJob, ReadCounter, SetCounters, StartFind, Find, RunDelayed, Unlink, Looks
<1>5. Head(jobs[t]) = jobs[t][1] /\ Len(jobs[t]) \in Nat /\ Len(jobs[t]) >= 1
  BY <1>1, <1>4
<1>6. Plain(jobs[t]) => jobs[t][1].type \in {"NORMAL", "NOTHING", "DELAYED"}
  BY <1>5 DEF Plain
<1>7. Plain(jobs[t]) => RunJob(t)
  BY <1>3, <1>5, <1>6 DEF ReadCounter, SetCounters, StartFind, Find, RunDelayed, Unlink, Looks
<1>. QED
  BY <1>2, <1>4, <1>7

LEMMA PhaseStep ==
    ASSUME StructInv, [Next]_vars
    PROVE  PhaseOK'
<1>0. TypeOK /\ PhaseOK /\ Main \in Threads /\ phase \in Phases /\ Len(entries) \in Nat
  BY ThreadKinds, SMTT(30) DEF StructInv, TypeOK
<1>1. ASSUME UNCHANGED <<phase, jobs, pc, entries, queue, dw>>
      PROVE  PhaseOK'
  BY <1>0, <1>1 DEF PhaseOK
<1>2. ASSUME phase \in {"check", "repeated", "network", "filter"},
             phase' \in {"check", "repeated", "network", "filter"}, UNCHANGED jobs
      PROVE  PhaseOK'
  BY <1>0, <1>2 DEF PhaseOK
<1>3. CASE Stop \/ UNCHANGED vars
  BY <1>1, <1>3 DEF Stop, queueVars, threadVars, vars
<1>4. CASE Check \/ Repeated \/ GetJobs \/ Filter \/ Dispatch
  BY <1>2, <1>4 DEF Check, Repeated, GetJobs, Filter, Dispatch, threadVars
<1>5. CASE StopNetwork
  <2>1. PICK a \in StopArrays : jobs'[Main] = Numbered(a)
    BY <1>5, StopEffect
  <2>2. Plain(Numbered(a))
    BY <1>0, NumberedType, Zenon DEF TypeOK, Plain
  <2>3. UNCHANGED entries /\ phase' = "stop" /\ phase # "filter"
    BY <1>5 DEF StopNetwork, queueVars
  <2>4. ASSUME NEW e \in 1 .. Len(entries)
        PROVE  Newer(Numbered(a), entries[e].jobs)
    <3>1. entries[e].jobs \in Seq(Jobs) /\ Noted(entries[e].jobs, Base)
      BY <1>0, EntryType DEF StructInv, EntriesOK
    <3>. QED
      BY <2>3, <3>1, NewerNumbered
  <2>. QED
    BY <2>1, <2>2, <2>3, <2>4, Zenon DEF PhaseOK
<1>6. CASE Join
  BY <1>6 DEF Join, PhaseOK, threadVars
<1>7. CASE EmptyQueue
  <2>1. UNCHANGED <<pc, entries>> /\ phase = "empty"
    BY <1>7, Zenon DEF EmptyQueue
  <2>2. CASE queue # <<>>
    BY <1>0, <1>7, <2>1, <2>2, Zenon DEF EmptyQueue, PhaseOK
  <2>3. CASE queue = <<>>
    <3>1. queue' = <<>> /\ jobs'[Main] = <<>> /\ phase' = "remaining" /\ dw'[Main] = Len(entries)
      BY <1>0, <1>7, <2>3 DEF EmptyQueue, TypeOK
    <3>2. dw'[Main] \in 0 .. Len(entries')
      BY <1>0, <2>1, <3>1
    <3>. QED
      BY <1>0, <2>1, <3>1, <3>2, Zenon DEF PhaseOK
  <2>. QED
    BY <2>2, <2>3
<1>8. CASE Remaining
  <2>1. UNCHANGED <<pc, entries, queue, jobs>> /\ phase = "remaining" /\ phase' \in {"remaining", "end"}
    BY <1>0, <1>8, Zenon DEF Remaining, queueVars
  <2>2. dw'[Main] \in 0 .. Len(entries)
    <3>1. dw \in [Threads -> Nat] /\ dw[Main] \in 0 .. Len(entries)
      BY <1>0, <2>1 DEF PhaseOK, TypeOK
    <3>2. CASE UNCHANGED dw
      BY <3>1, <3>2
    <3>3. CASE dw[Main] # NoEntry /\ dw' = [dw EXCEPT ![Main] = entries[dw[Main]].next]
      <4>1. dw[Main] \in 1 .. Len(entries) /\ dw'[Main] = entries[dw[Main]].next
        BY <1>0, <3>1, <3>3 DEF NoEntry
      <4>. QED
        BY <1>0, <4>1, NextEntry DEF NoEntry
    <3>. QED
      BY <1>8, <3>2, <3>3, Zenon DEF Remaining
  <2>. QED
    BY <1>0, <2>1, <2>2, Zenon DEF PhaseOK
<1>9. ASSUME NEW w \in Workers, UNCHANGED phase, pc[w] # "exit", jobs'[Main] = jobs[Main],
             Len(entries') = Len(entries), \A e \in 1 .. Len(entries) : entries'[e].jobs = entries[e].jobs
      PROVE  PhaseOK'
  <2>1. phase \notin {"empty", "remaining", "end"}
    BY <1>0, <1>9, Zenon DEF PhaseOK
  <2>. QED
    BY <1>0, <1>9, <2>1 DEF PhaseOK
<1>10. ASSUME NEW t \in Threads,
              \/ RunJob(t) \/ ReadCounter(t) \/ SetCounters(t) \/ StartFind(t)
              \/ Find(t) \/ RunDelayed(t) \/ Unlink(t)
      PROVE  PhaseOK'
  <2>1. UNCHANGED phase /\ jobs[t] # <<>> /\ pc[t] \in {"job", "find", "delayed"}
    BY <1>10, ThreadFrame, JobStepBusy, Zenon
  <2>2. Len(entries') = Len(entries) /\ \A e \in 1 .. Len(entries) : entries'[e].jobs = entries[e].jobs
    <3>1. CASE SetCounters(t) \/ Unlink(t)
      BY <3>1, SetCountersEntries, UnlinkEntries, Zenon
    <3>2. CASE RunJob(t) \/ ReadCounter(t) \/ StartFind(t) \/ Find(t) \/ RunDelayed(t)
      BY <3>2, Zenon DEF RunJob, ReadCounter, StartFind, Find, RunDelayed, queueVars
    <3>. QED
      BY <1>10, <3>1, <3>2, Zenon
  <2>3. CASE t # Main
    <3>1. t \in Workers /\ jobs'[Main] = jobs[Main]
      BY <1>0, <1>10, <2>3, ThreadKinds, OtherThread, Zenon DEF Same
    <3>. QED
      BY <1>9, <2>1, <2>2, <3>1
  <2>4. CASE t = Main
    <3>1. phase \in {"stop", "empty"}
      BY <1>0, <2>1, <2>4 DEF PhaseOK, Phases
    <3>2. CASE phase = "stop"
      <4>1. Plain(jobs[Main]) /\ RunJob(Main)
        BY <1>0, <1>10, <2>4, <3>2, JobStepBusy, Zenon DEF PhaseOK
      <4>2. jobs[Main] \in Seq(Jobs) /\ jobs'[Main] = Tail(jobs[Main])
        BY <1>0, <4>1 DEF RunJob, NextOf, TypeOK
      <4>3. Plain(jobs'[Main])
        BY <1>0, <2>1, <2>4, <4>2, BatchOf, BatchHead, Zenon
      <4>4. ASSUME NEW e \in 1 .. Len(entries')
            PROVE  Newer(jobs'[Main], entries'[e].jobs)
        BY <1>0, <2>1, <2>2, <2>4, <3>2, <4>2, <4>4, NewerTail, Zenon DEF PhaseOK
      <4>. QED
        BY <2>1, <3>2, <4>3, <4>4, Zenon DEF PhaseOK
    <3>3. CASE phase = "empty"
      <4>1. \A w \in Workers : pc'[w] = pc[w]
        BY <1>10, <2>4, ThreadKinds, OtherThread, Zenon DEF Same
      <4>. QED
        BY <1>0, <2>1, <3>3, <4>1, Zenon DEF PhaseOK
    <3>. QED
      BY <3>1, <3>2, <3>3
  <2>. QED
    BY <2>3, <2>4
<1>11. ASSUME NEW w \in Workers, LoopCheck(w) \/ Dequeue(w) \/ EndBatch(w) \/ Count(w)
      PROVE  PhaseOK'
  <2>1. UNCHANGED phase
    BY <1>11, ThreadFrame
  <2>2. UNCHANGED entries /\ pc[w] # "exit"
    BY <1>11 DEF LoopCheck, Dequeue, EndBatch, Count, queueVars
  <2>3. jobs'[Main] = jobs[Main]
    BY <1>0, <1>11, ThreadKinds, OtherThread, Zenon DEF Same
  <2>. QED
    BY <1>9, <2>1, <2>2, <2>3, Zenon
<1>. QED
  BY <1>3, <1>4, <1>5, <1>6, <1>7, <1>8, <1>10, <1>11, Steps

LEMMA StructInit == Init => StructInv
<1> SUFFICES ASSUME Init PROVE StructInv
  OBVIOUS
<1>1. TypeOK
  BY TypeInit
<1>2. entries = <<>> /\ queue = <<>> /\ array = <<>> /\ nextJob = 1 /\ phase = "check" /\ Base = 1
  BY DEF Init, Base
<1>3. \A t \in Threads : jobs[t] = <<>> /\ seen[t] = <<>> /\ todo[t] = <<>> /\ dw[t] = NoEntry
                         /\ pc[t] = IF t = Main THEN "job" ELSE "loop"
  BY DEF Init
<1>4. BatchesOK
  BY <1>2, <1>3 DEF BatchesOK, Batch, Plain
<1>5. ArrayOK /\ EntriesOK
  BY <1>2 DEF ArrayOK, EntriesOK
<1>6. ThreadsOK
  BY <1>2, <1>3, SizesAssumption DEF ThreadsOK, ThreadOK, Noted
<1>7. PhaseOK
  BY <1>2, <1>3, ThreadKinds DEF PhaseOK
<1>. QED
  BY <1>1, <1>4, <1>5, <1>6, <1>7 DEF StructInv

LEMMA StructStep ==
    ASSUME StructInv, [Next]_vars
    PROVE  StructInv'
BY TypeStep, BatchesStep, ArrayStep, EntriesStep, ThreadsStep, PhaseStep DEF StructInv

\* After the workers were joined they hold no jobs.
LEMMA Joined ==
    ASSUME StructInv, phase \in {"empty", "remaining", "end"}, NEW w \in Workers
    PROVE  jobs[w] = <<>>
<1>1. pc[w] = "exit"
  BY DEF StructInv, PhaseOK
<1>. QED
  BY <1>1, ThreadKinds, BatchOf, Zenon DEF ThreadOK
=============================================================================
