----------------------------- MODULE DelayedJobs -----------------------------
(***************************************************************************)
(* Jobs of the multithreaded server: the main loop dispatches them in      *)
(* batches to worker threads, and holds back delayed jobs until every      *)
(* worker has moved on (epoch based reclamation).                          *)
(*                                                                         *)
(* A delayed job frees memory that jobs dispatched before it may still     *)
(* use.  The main thread collects delayed jobs in entries of a linked      *)
(* list, newest first.  When an entry is full, a job is dispatched that    *)
(* notes the counter of every worker; the entry may be processed once all  *)
(* counters differ from the noted ones.  At shutdown the main thread joins *)
(* the workers and finishes the queue and the list itself.                 *)
(*                                                                         *)
(* Jobs are numbered in the order in which the network layer creates       *)
(* them.  A step is one access to memory that threads share.  What normal  *)
(* and delayed jobs do is left out: a job is executing while it is at the  *)
(* head of a thread's list and finished by the step that takes it off.     *)
(***************************************************************************)
EXTENDS Naturals, Sequences

CONSTANTS
    NThreads,        \* server->nThreads
    Arrays,          \* the job arrays getJobs may return: sequences of job types
    LateArrays,      \* the job arrays stop may return to the main loop
    StopArrays,      \* the job arrays stop may return to UA_Server_run_shutdown
    BatchSize,       \* BATCHSIZE
    DelayedJobsSize, \* DELAYEDJOBSSIZE
    CounterMod,      \* the worker counters are modulo this, 2^32 in the code
    JobBound,        \* bound: jobs getJobs returns in a behaviour
    DispatchBound    \* bound: how often the delayed jobs are looked at

JobType == {"NORMAL", "DELAYED", "NOTHING", "GETCOUNTERS", "DISPATCHDELAYED"}

ASSUME SizesAssumption ==
    /\ NThreads \in Nat \ {0}
    /\ BatchSize \in Nat \ {0}
    /\ DelayedJobsSize \in Nat \ {0}
    /\ CounterMod \in Nat \ {0, 1}
    /\ JobBound \in Nat
    /\ DispatchBound \in Nat
ASSUME ArraysAssumption == Arrays \cup LateArrays \cup StopArrays \subseteq Seq({"NORMAL", "DELAYED"})

Workers == 1 .. NThreads
Main == 0
Threads == Workers \cup {Main}

VARIABLES
    running,    \* *server->running
    phase,      \* where the main thread is in UA_Server_run
    array,      \* the jobs of this iteration of the main loop
    nextJob,    \* number of the next job the network layer creates
    queue,      \* server->dispatchQueue: sequence of batches
    entries,    \* the DelayedJobs entries ever allocated, in that order
    counter,    \* *server->workerCounters[w]
    pc,         \* where a thread is in workerLoop and processJobs
    jobs,       \* the rest of the batch a thread is processing
    seen,       \* getCounters: the counters read so far
    dw, before, \* dispatchDelayedJobs: its two list pointers
    todo,       \* the rest of the delayed jobs of the entry being processed
    done,       \* numbers of the jobs that were executed
    twice,      \* numbers of the jobs that were executed more than once
    dispatches  \* how often the delayed jobs were looked at

queueVars == <<queue, entries, counter>>
delayedVars == <<dw, before, todo>>
threadVars == <<pc, jobs, seen, dw, before, todo>>
mainVars == <<running, phase, array, nextJob, dispatches>>
vars == <<running, phase, array, nextJob, queue, entries, counter, pc, jobs, seen, dw, before,
          todo, done, twice, dispatches>>

\* A job: its number, or the entry that GETCOUNTERS is for; and the number of the first job
\* of its array, all jobs before which are dispatched already.
Job(type, num, first) == [type |-> type, num |-> num, first |-> first]

\* The end of the list, dw == NULL.
NoEntry == 0
\* workerCounters == NULL.
NoCounters == <<>>

Init ==
    /\ running = TRUE
    /\ phase = "check"
    /\ array = <<>>
    /\ nextJob = 1
    /\ queue = <<>>
    /\ entries = <<>>
    /\ counter = [w \in Workers |-> 0]
    /\ pc = [t \in Threads |-> IF t = Main THEN "job" ELSE "loop"]
    /\ jobs = [t \in Threads |-> <<>>]
    /\ seen = [t \in Threads |-> <<>>]
    /\ dw = [t \in Threads |-> NoEntry]
    /\ before = [t \in Threads |-> NoEntry]
    /\ todo = [t \in Threads |-> <<>>]
    /\ done = {}
    /\ twice = {}
    /\ dispatches = 0

-----------------------------------------------------------------------------
(* The main loop *)

\* The job array the network layer makes of the types a.
Numbered(a) == [i \in 1 .. Len(a) |-> Job(a[i], nextJob + i - 1, nextJob)]

\* The first part of an array is dispatched last.
Slices(a) ==
    LET n == (Len(a) + BatchSize - 1) \div BatchSize
        rest == Len(a) - (n - 1) * BatchSize
    IN  [k \in 1 .. n |->
            IF k = n THEN SubSeq(a, 1, rest)
            ELSE SubSeq(a, Len(a) - k * BatchSize + 1, Len(a) - (k - 1) * BatchSize)]

\* The application ends the server.
Stop == running /\ running' = FALSE /\ UNCHANGED <<phase, array, nextJob, dispatches, queueVars, threadVars, done, twice>>

\* while(*running)
Check ==
    /\ phase = "check"
    /\ running
    /\ phase' = "repeated"
    /\ UNCHANGED <<running, array, nextJob, dispatches, queueVars, threadVars, done, twice>>

\* processRepeatedJobs: the search for delayed jobs is dispatched when it is due.
Repeated ==
    /\ phase = "repeated"
    /\ \/ /\ dispatches < DispatchBound
          /\ queue' = Append(queue, <<Job("DISPATCHDELAYED", 0, 0)>>)
          /\ dispatches' = dispatches + 1
       \/ UNCHANGED <<queue, dispatches>>
    /\ phase' = "network"
    /\ UNCHANGED <<running, array, nextJob, entries, counter, threadVars, done, twice>>

\* The jobs of the network layer, or its last ones when the server was stopped meanwhile.
GetJobs ==
    /\ phase = "network"
    /\ \E a \in IF running THEN Arrays ELSE LateArrays :
          /\ running => nextJob + Len(a) <= JobBound + 1
          /\ array' = Numbered(a)
          /\ nextJob' = nextJob + Len(a)
    /\ phase' = "filter"
    /\ UNCHANGED <<running, dispatches, queueVars, threadVars, done, twice>>

\* addDelayedJob: into the newest entry, or into a new one when that is full; the full one
\* gets its counters by a job that is dispatched behind all others.
AddDelayedJob(j) ==
    LET head == Len(entries)
        full == IF head = 0 THEN TRUE ELSE Len(entries[head].jobs) >= DelayedJobsSize
    IN
    /\ entries' = IF full
                  THEN Append(entries, [jobs |-> <<j>>, next |-> head, counters |-> NoCounters])
                  ELSE [entries EXCEPT ![head].jobs = Append(@, j)]
    /\ queue' = IF full /\ head > 0 THEN Append(queue, <<Job("GETCOUNTERS", head, 0)>>) ELSE queue

\* Indices of the delayed jobs still in the array.
Unfiltered == {k \in 1 .. Len(array) : array[k].type = "DELAYED"}

Filter ==
    /\ phase = "filter"
    /\ \E k \in Unfiltered :
          /\ \A i \in Unfiltered : k <= i
          /\ AddDelayedJob(array[k])
          /\ array' = [array EXCEPT ![k].type = "NOTHING"]
    /\ UNCHANGED <<running, phase, nextJob, dispatches, counter, threadVars, done, twice>>

Dispatch ==
    /\ phase = "filter"
    /\ Unfiltered = {}
    /\ queue' = queue \o Slices(array)
    /\ array' = <<>>
    /\ phase' = "check"
    /\ UNCHANGED <<running, nextJob, dispatches, entries, counter, threadVars, done, twice>>

-----------------------------------------------------------------------------
(* Processing jobs *)

\* The thread t is done with the first job of its batch.
NextOf(t) == jobs' = [jobs EXCEPT ![t] = Tail(@)]

\* A job is executed.
Executed(n) ==
    /\ done' = done \cup {n}
    /\ twice' = IF n \in done THEN twice \cup {n} ELSE twice

\* processJobs for jobs that are no calls into this file; a delayed job gets here only from
\* the array that the network layer returns at shutdown.
RunJob(t) ==
    /\ pc[t] = "job"
    /\ jobs[t] # <<>>
    /\ \/ Head(jobs[t]).type = "NOTHING" /\ UNCHANGED <<done, twice>>
       \/ Head(jobs[t]).type \in {"NORMAL", "DELAYED"} /\ Executed(Head(jobs[t]).num)
    /\ NextOf(t)
    /\ UNCHANGED <<mainVars, queueVars, pc, seen, delayedVars>>

\* The values a read of a counter can give: anything once they are freed.
CounterValue(w) == IF phase \in {"empty", "remaining", "end"} THEN 0 .. CounterMod - 1 ELSE {counter[w]}

\* getCounters: reads one counter after the other.
ReadCounter(t) ==
    /\ pc[t] = "job"
    /\ jobs[t] # <<>>
    /\ Head(jobs[t]).type = "GETCOUNTERS"
    /\ Len(seen[t]) < NThreads
    /\ \E v \in CounterValue(Len(seen[t]) + 1) : seen' = [seen EXCEPT ![t] = Append(@, v)]
    /\ UNCHANGED <<mainVars, queueVars, pc, jobs, delayedVars, done, twice>>

SetCounters(t) ==
    /\ pc[t] = "job"
    /\ jobs[t] # <<>>
    /\ Head(jobs[t]).type = "GETCOUNTERS"
    /\ Len(seen[t]) = NThreads
    /\ entries' = [entries EXCEPT ![Head(jobs[t]).num].counters = seen[t]]
    /\ seen' = [seen EXCEPT ![t] = <<>>]
    /\ NextOf(t)
    /\ UNCHANGED <<mainVars, queue, counter, pc, delayedVars, done, twice>>

\* dispatchDelayedJobs begins behind the newest entry.
StartFind(t) ==
    /\ pc[t] = "job"
    /\ jobs[t] # <<>>
    /\ Head(jobs[t]).type = "DISPATCHDELAYED"
    /\ before' = [before EXCEPT ![t] = Len(entries)]
    /\ dw' = [dw EXCEPT ![t] = IF entries = <<>> THEN NoEntry ELSE entries[Len(entries)].next]
    /\ pc' = [pc EXCEPT ![t] = "find"]
    /\ UNCHANGED <<mainVars, queueVars, jobs, seen, todo, done, twice>>

\* Mutant of AllMoved: one worker is enough.
OneMoved(e) ==
    /\ e.counters # NoCounters
    /\ \E w \in Workers : \E v \in CounterValue(w) : e.counters[w] # v

\* All workers have moved on since the counters of the entry were noted.
AllMoved(e) ==
    /\ e.counters # NoCounters
    /\ \A w \in Workers : \E v \in CounterValue(w) : e.counters[w] # v

\* Some worker has not, or the counters are not noted yet.
NotMoved(e) ==
    e.counters # NoCounters => \E w \in Workers : \E v \in CounterValue(w) : e.counters[w] = v

\* The search for the first entry whose jobs may run.
Find(t) ==
    /\ pc[t] = "find"
    /\ \/ /\ dw[t] = NoEntry
          /\ pc' = [pc EXCEPT ![t] = "job"]
          /\ NextOf(t)
          /\ UNCHANGED delayedVars
       \/ /\ dw[t] # NoEntry
          /\ NotMoved(entries[dw[t]])
          /\ before' = [before EXCEPT ![t] = dw[t]]
          /\ dw' = [dw EXCEPT ![t] = entries[dw[t]].next]
          /\ UNCHANGED <<pc, jobs, todo>>
       \/ /\ dw[t] # NoEntry
          /\ AllMoved(entries[dw[t]])
          /\ todo' = [todo EXCEPT ![t] = entries[dw[t]].jobs]
          /\ pc' = [pc EXCEPT ![t] = "delayed"]
          /\ UNCHANGED <<jobs, dw, before>>
    /\ UNCHANGED <<mainVars, queueVars, seen, done, twice>>

RunDelayed(t) ==
    /\ pc[t] = "delayed"
    /\ todo[t] # <<>>
    /\ Executed(Head(todo[t]).num)
    /\ todo' = [todo EXCEPT ![t] = Tail(@)]
    /\ UNCHANGED <<mainVars, queueVars, pc, jobs, seen, dw, before>>

\* The entry is freed and the search goes on with what the exchange of beforedw->next
\* returns, which is the entry itself unless another thread was here.  The jobs of a freed
\* entry are read again: they are still there, or the memory was reused.
Unlink(t) ==
    LET next == entries[before[t]].next
    IN
    /\ pc[t] = "delayed"
    /\ todo[t] = <<>>
    /\ entries' = [entries EXCEPT ![before[t]].next = NoEntry]
    /\ dw' = [dw EXCEPT ![t] = next]
    /\ IF next = NoEntry
       THEN pc' = [pc EXCEPT ![t] = "job"] /\ NextOf(t) /\ UNCHANGED todo
       ELSE /\ todo' \in {[todo EXCEPT ![t] = entries[next].jobs], todo}
            /\ UNCHANGED <<pc, jobs>>
    /\ UNCHANGED <<mainVars, queue, counter, seen, before, done, twice>>

-----------------------------------------------------------------------------
(* The worker threads *)

\* Mutant of LoopCheck: does not look at running.
LoopForever(w) ==
    /\ pc[w] = "loop"
    /\ pc' = [pc EXCEPT ![w] = "dequeue"]
    /\ UNCHANGED <<mainVars, queueVars, jobs, seen, delayedVars, done, twice>>

LoopCheck(w) ==
    /\ pc[w] = "loop"
    /\ pc' = [pc EXCEPT ![w] = IF running THEN "dequeue" ELSE "exit"]
    /\ UNCHANGED <<mainVars, queueVars, jobs, seen, delayedVars, done, twice>>

\* The next batch, or a wait that ends by a wake-up or after two seconds.
Dequeue(w) ==
    /\ pc[w] = "dequeue"
    /\ \/ /\ queue # <<>>
          /\ jobs' = [jobs EXCEPT ![w] = Head(queue)]
          /\ queue' = Tail(queue)
          /\ pc' = [pc EXCEPT ![w] = "job"]
       \/ /\ queue = <<>>
          /\ pc' = [pc EXCEPT ![w] = "count"]
          /\ UNCHANGED <<jobs, queue>>
    /\ UNCHANGED <<mainVars, entries, counter, seen, delayedVars, done, twice>>

EndBatch(w) ==
    /\ pc[w] = "job"
    /\ jobs[w] = <<>>
    /\ pc' = [pc EXCEPT ![w] = "count"]
    /\ UNCHANGED <<mainVars, queueVars, jobs, seen, delayedVars, done, twice>>

Count(w) ==
    /\ pc[w] = "count"
    /\ counter' = [counter EXCEPT ![w] = (@ + 1) % CounterMod]
    /\ pc' = [pc EXCEPT ![w] = "loop"]
    /\ UNCHANGED <<mainVars, queue, entries, jobs, seen, delayedVars, done, twice>>

-----------------------------------------------------------------------------
(* Shutdown *)

\* The last jobs of the network layer are executed by the main thread, at once.
StopNetwork ==
    /\ phase = "check"
    /\ ~running
    /\ \E a \in StopArrays :
          /\ jobs' = [jobs EXCEPT ![Main] = Numbered(a)]
          /\ nextJob' = nextJob + Len(a)
    /\ phase' = "stop"
    /\ UNCHANGED <<running, array, dispatches, queueVars, pc, seen, delayedVars, done, twice>>

\* pthread_join for all workers; their counters are freed.
Join ==
    /\ phase = "stop"
    /\ jobs[Main] = <<>>
    /\ \A w \in Workers : pc[w] = "exit"
    /\ phase' = "empty"
    /\ UNCHANGED <<running, array, nextJob, dispatches, queueVars, threadVars, done, twice>>

\* Mutant of EmptyQueue: the batches left in the queue are dropped.
DropQueue ==
    /\ phase = "empty"
    /\ jobs[Main] = <<>>
    /\ queue' = <<>>
    /\ phase' = "remaining"
    /\ dw' = [dw EXCEPT ![Main] = Len(entries)]
    /\ todo' = [todo EXCEPT ![Main] = IF entries = <<>> THEN <<>> ELSE entries[Len(entries)].jobs]
    /\ UNCHANGED <<running, array, nextJob, dispatches, entries, counter, pc, jobs, seen, before, done, twice>>

\* emptyDispatchQueue, then the list from its newest entry on.
EmptyQueue ==
    /\ phase = "empty"
    /\ pc[Main] = "job"
    /\ jobs[Main] = <<>>
    /\ \/ /\ queue # <<>>
          /\ jobs' = [jobs EXCEPT ![Main] = Head(queue)]
          /\ queue' = Tail(queue)
          /\ UNCHANGED <<phase, dw, todo>>
       \/ /\ queue = <<>>
          /\ phase' = "remaining"
          /\ dw' = [dw EXCEPT ![Main] = Len(entries)]
          /\ todo' = [todo EXCEPT ![Main] = IF entries = <<>> THEN <<>> ELSE entries[Len(entries)].jobs]
          /\ UNCHANGED <<jobs, queue>>
    /\ UNCHANGED <<running, array, nextJob, dispatches, entries, counter, pc, seen, before, done, twice>>

\* The remaining delayed jobs, entry by entry.
Remaining ==
    /\ phase = "remaining"
    /\ \/ /\ todo[Main] # <<>>
          /\ Executed(Head(todo[Main]).num)
          /\ todo' = [todo EXCEPT ![Main] = Tail(@)]
          /\ UNCHANGED <<phase, dw>>
       \/ /\ todo[Main] = <<>>
          /\ dw[Main] # NoEntry
          /\ LET next == entries[dw[Main]].next
             IN  /\ dw' = [dw EXCEPT ![Main] = next]
                 /\ todo' = [todo EXCEPT ![Main] = IF next = NoEntry THEN <<>> ELSE entries[next].jobs]
          /\ UNCHANGED <<phase, done, twice>>
       \/ /\ todo[Main] = <<>>
          /\ dw[Main] = NoEntry
          /\ phase' = "end"
          /\ UNCHANGED <<dw, todo, done, twice>>
    /\ UNCHANGED <<running, array, nextJob, dispatches, queueVars, pc, jobs, seen, before>>

-----------------------------------------------------------------------------
JobStep(t) ==
    \/ RunJob(t)
    \/ ReadCounter(t)
    \/ SetCounters(t)
    \/ StartFind(t)
    \/ Find(t)
    \/ RunDelayed(t)
    \/ Unlink(t)

WorkerStep(w) ==
    \/ LoopCheck(w)
    \/ Dequeue(w)
    \/ EndBatch(w)
    \/ Count(w)
    \/ JobStep(w)

MainStep ==
    \/ Check
    \/ Repeated
    \/ GetJobs
    \/ Filter
    \/ Dispatch
    \/ StopNetwork
    \/ Join
    \/ EmptyQueue
    \/ Remaining
    \/ JobStep(Main)

Next == Stop \/ MainStep \/ \E w \in Workers : WorkerStep(w)

\* Threads are scheduled fairly; nothing obliges the application to stop the server.
Spec == Init /\ [][Next]_vars /\ WF_vars(MainStep) /\ \A w \in Workers : WF_vars(WorkerStep(w))

-----------------------------------------------------------------------------
(* Properties *)

Phases == {"check", "repeated", "network", "filter", "stop", "empty", "remaining", "end"}
PCs == {"loop", "dequeue", "job", "find", "delayed", "count", "exit"}
Jobs == [type : JobType, num : Nat, first : Nat]

\* Every variable has its type: counters wrap within their width, and a job counts as executed
\* twice only if it was executed at all.
TypeOK ==
    /\ running \in BOOLEAN
    /\ phase \in Phases
    /\ array \in Seq(Jobs)
    /\ nextJob \in Nat
    /\ queue \in Seq(Seq(Jobs))
    /\ entries \in Seq([jobs : Seq(Jobs), next : Nat, counters : Seq(0 .. CounterMod - 1)])
    /\ counter \in [Workers -> 0 .. CounterMod - 1]
    /\ pc \in [Threads -> PCs]
    /\ jobs \in [Threads -> Seq(Jobs)]
    /\ seen \in [Threads -> Seq(0 .. CounterMod - 1)]
    /\ dw \in [Threads -> Nat]
    /\ before \in [Threads -> Nat]
    /\ todo \in [Threads -> Seq(Jobs)]
    /\ done \subseteq Nat
    /\ twice \subseteq done
    /\ dispatches \in 0 .. DispatchBound

Elements(s) == {s[i] : i \in 1 .. Len(s)}

\* Numbers of the normal jobs that are dispatched and not finished.
Unfinished ==
    {j.num : j \in {x \in UNION ({Elements(b) : b \in Elements(queue)} \cup {Elements(jobs[t]) : t \in Threads}) :
                       x.type = "NORMAL"}}

\* The delayed jobs of entries that are being executed.
ExecutingListed == {Head(todo[t]) : t \in {u \in Threads : todo[u] # <<>>}}

\* All delayed jobs that are being executed: with those the network layer returns when it
\* stops, which the main thread executes from their array.
ExecutingDelayed ==
    ExecutingListed \cup {j \in {Head(jobs[t]) : t \in {u \in Threads : jobs[u] # <<>>}} : j.type = "DELAYED"}

\* Numbers of the delayed jobs.
DelayedNumbers == UNION {{j.num : j \in Elements(e.jobs)} : e \in Elements(entries)}

\* What epoch based reclamation is for: a delayed job that was added to an entry is executed
\* "only when all normal jobs that were dispatched earlier have been executed", by whichever
\* thread and however the dispatching of counters and searches, the workers and a shutdown
\* interleave.  The jobs of a connection that is open when the network layer stops are never
\* added to one, see DelayedAfterDispatched.
ListedAfterDispatched == \A d \in ExecutingListed : \A n \in Unfinished : n >= d.first

\* The same for every delayed job.  It holds for the servers that stop with no connection
\* open; otherwise UA_Server_run_shutdown executes the jobs that free the connections before
\* it joins the workers, beside the messages these still process.
DelayedAfterDispatched == \A d \in ExecutingDelayed : \A n \in Unfinished : n >= d.first

\* The same for all jobs created before it, those of its own array included.
DelayedAfterPrevious ==
    \A d \in ExecutingDelayed : \A n \in Unfinished \cup {j.num : j \in {x \in Elements(array) : x.type = "NORMAL"}} :
        n >= d.num

\* "Delayed jobs are executed once".
DelayedOnce == twice = {}

\* Every normal job is in one place until it is executed, and when the server has shut down
\* all of them were: none is lost between the workers that leave and the emptied queue.
NormalOnce ==
    /\ \A n \in Unfinished : n \notin done
    /\ phase = "end" => 1 .. nextJob - 1 \subseteq done \cup DelayedNumbers

\* The queue, the lists of the threads and the entries of delayed jobs stay consistent while
\* counters wrap around and entries are freed: no normal job is lost or executed again.
JobsInv == TypeOK /\ NormalOnce

\* Every dispatched job is eventually executed, by a worker or at shutdown: a behaviour has
\* finitely many jobs (JobBound), so the threads get through with all of them.  And the
\* shutdown does not hang: once the application stops the server, which is final, the main
\* thread joins all workers and ends.
WorkFinishes == []<>(Unfinished = {} /\ (running \/ phase = "end"))
=============================================================================
