---------------------------- MODULE RepeatedJobs ----------------------------
(***************************************************************************)
(* The timer of the server: a linked list of entries, one per repetition   *)
(* interval, each with the jobs to execute and the time of their next      *)
(* execution, sorted by that time.  Every iteration of the main loop       *)
(* executes the entries that are due and moves them back into the list.    *)
(*                                                                         *)
(* All times are relative to the present instant, which is 0: a tick of    *)
(* the clock subtracts one from each.  This keeps behaviours unbounded     *)
(* with finitely many states; LateBound limits how long a due entry waits. *)
(* In the multithreaded build the list is changed only by the main loop,   *)
(* which takes the requests of all threads from a stack, newest first.     *)
(* Otherwise it is changed at once, also by the jobs being executed.       *)
(* Failing allocations, which change nothing, are left out.                *)
(***************************************************************************)
EXTENDS Integers, SequencesExt

CONSTANTS
    Builds,           \* the values of UA_MULTITHREADING to consider
    Ids,              \* the guids of the jobs
    Intervals,        \* intervals that may be asked for, in ms
    TicksPerMs,       \* resolution of the list, 10000 in the code
    IntervalMod,      \* intervals are modulo this, 2^32 in the code
    CallbackCalls,    \* jobs may add and remove repeated jobs
    KeepsOwnEntry,    \* but leave the entry alone that is being executed
    LateBound         \* bound: how late the main loop can be

ASSUME RepeatedAssumption ==
    /\ Builds \subseteq BOOLEAN
    /\ CallbackCalls \in BOOLEAN
    /\ KeepsOwnEntry \in BOOLEAN
    /\ Intervals \subseteq Nat \ {0}
    /\ TicksPerMs \in Nat \ {0}
    /\ IntervalMod \in Nat \ {0}
    /\ LateBound \in Nat

VARIABLES
    multithreading, \* the build, which never changes
    list,      \* server->repeatedJobs: entries with nextTime, interval and jobs
    stack,     \* server->mainLoopJobs, the newest request first
    requests,  \* the requests the main loop has popped and not executed yet
    requested, \* the interval each id was added with, 0 before
    removed,   \* the ids that were to be removed
    phase,     \* where the main loop is
    current,   \* the time the iteration began
    tw,        \* interval of the entry being executed
    index,     \* the next job of it to execute
    stale      \* the entry being executed was freed or moved

vars == <<multithreading, list, stack, requests, requested, removed, phase, current, tw, index, stale>>

Init ==
    /\ multithreading \in Builds
    /\ list = <<>>
    /\ stack = <<>>
    /\ requests = <<>>
    /\ requested = [id \in Ids |-> 0]
    /\ removed = {}
    /\ phase = "idle"
    /\ current = 0
    /\ tw = 0
    /\ index = 1
    /\ stale = FALSE

-----------------------------------------------------------------------------
(* The list *)

\* Where an entry with this time belongs: before the first one that is later.
Position(l, time) ==
    LET later == SelectInSeq(l, LAMBDA e : e.nextTime > time)
    IN  IF later = 0 THEN Len(l) + 1 ELSE later

\* ms to ticks, as a 32 bit product.
Ticks(ms) == (ms * TicksPerMs) % IntervalMod

\* addRepeatedJob: the search ends at the first entry with the interval or a later time.
Added(l, id, interval) ==
    LET found == SelectInSeq(l, LAMBDA e : e.interval = interval \/ e.nextTime > interval)
        matching == found # 0 /\ (found # 0 => l[found].interval = interval)
    IN  IF matching
        THEN [l EXCEPT ![found].jobs = Append(@, id)]
        ELSE InsertAt(l, Position(l, interval),
                      [nextTime |-> interval, interval |-> interval, jobs |-> <<id>>])

\* removeRepeatedJob: the last job of the entry takes the place of the removed one; an
\* entry without jobs is removed.
Removed(l, id) ==
    LET found == SelectInSeq(l, LAMBDA e : id \in Range(e.jobs))
        entry == l[found]
        i == SelectInSeq(entry.jobs, LAMBDA j : j = id)
        moved == [entry.jobs EXCEPT ![i] = Last(entry.jobs)]
    IN  CASE found = 0 -> l
          [] found # 0 /\ Len(entry.jobs) = 1 -> RemoveAt(l, found)
          [] OTHER -> [l EXCEPT ![found].jobs = Front(moved)]

\* The jobs of the entry with this interval.
JobsOf(l, interval) ==
    LET i == SelectInSeq(l, LAMBDA e : e.interval = interval)
    IN  IF i = 0 THEN <<>> ELSE l[i].jobs

-----------------------------------------------------------------------------
(* UA_Server_addRepeatedJob and UA_Server_removeRepeatedJob *)

\* The interval of a request to remove a job.
NoInterval == -1

\* A request names a job, and the interval to add it with.
Request(id, interval) == [id |-> id, interval |-> interval]

Execute(l, r) == IF r.interval = NoInterval THEN Removed(l, r.id) ELSE Added(l, r.id, r.interval)

NewJob(id, ms) ==
    /\ requested[id] = 0
    /\ requested' = [requested EXCEPT ![id] = ms]
    /\ UNCHANGED removed

OldJob(id) ==
    /\ requested[id] # 0
    /\ id \notin removed
    /\ removed' = removed \cup {id}
    /\ UNCHANGED requested

\* From any thread.
Push(r) ==
    /\ multithreading
    /\ stack' = <<r>> \o stack
    /\ UNCHANGED <<multithreading, list, requests, phase, current, tw, index, stale>>

\* From a service or the application, between two iterations.
Direct(r) ==
    /\ ~multithreading
    /\ phase = "idle"
    /\ list' = Execute(list, r)
    /\ UNCHANGED <<multithreading, stack, requests, phase, current, tw, index, stale>>

\* From the job being executed.  Growing the entry reallocates it, emptying it frees it.
Callback(r) ==
    /\ ~multithreading
    /\ CallbackCalls
    /\ phase = "job"
    /\ ~stale
    /\ list' = Execute(list, r)
    /\ LET touched == \/ r.interval = tw
                      \/ JobsOf(list, tw) = <<r.id>>
       IN  /\ KeepsOwnEntry => ~touched
           /\ stale' \in {touched, FALSE}
    /\ UNCHANGED <<multithreading, stack, requests, phase, current, tw, index>>

AddRepeatedJob(id, ms) ==
    /\ NewJob(id, ms)
    /\ LET r == Request(id, Ticks(ms)) IN Push(r) \/ Direct(r) \/ Callback(r)

RemoveRepeatedJob(id) ==
    /\ OldJob(id)
    /\ LET r == Request(id, NoInterval) IN Push(r) \/ Direct(r) \/ Callback(r)

-----------------------------------------------------------------------------
(* processMainLoopJobs and processRepeatedJobs *)

StartPass ==
    /\ phase = "idle"
    /\ requests' = stack
    /\ stack' = <<>>
    /\ phase' = "requests"
    /\ UNCHANGED <<multithreading, list, requested, removed, current, tw, index, stale>>

MainLoopJob ==
    /\ phase = "requests"
    /\ requests # <<>>
    /\ list' = Execute(list, Head(requests))
    /\ requests' = Tail(requests)
    /\ UNCHANGED <<multithreading, stack, requested, removed, phase, current, tw, index, stale>>

StartProcessing ==
    /\ phase = "requests"
    /\ requests = <<>>
    /\ phase' = "process"
    /\ current' = 0
    /\ UNCHANGED <<multithreading, list, stack, requests, requested, removed, tw, index, stale>>

\* Mutant of Due: only after the time has passed.
DueStrict == list # <<>> /\ (list # <<>> => list[1].nextTime < current)

Due == list # <<>> /\ (list # <<>> => list[1].nextTime <= current)

\* The first entry is due: its jobs are executed.
BeginEntry ==
    /\ phase = "process"
    /\ Due
    /\ tw' = list[1].interval
    /\ index' = 1
    /\ phase' = "entry"
    /\ UNCHANGED <<multithreading, list, stack, requests, requested, removed, current, stale>>

\* The next job of the entry, dispatched to the workers or executed here.
BeginJob ==
    /\ phase = "entry"
    /\ ~stale
    /\ index <= Len(JobsOf(list, tw))
    /\ phase' = "job"
    /\ UNCHANGED <<multithreading, list, stack, requests, requested, removed, current, tw, index, stale>>

\* Mutant of EndJob: skips a job.
EndJobSkipping ==
    /\ phase = "job"
    /\ index' = index + 2
    /\ phase' = "entry"
    /\ UNCHANGED <<multithreading, list, stack, requests, requested, removed, current, tw, stale>>

EndJob ==
    /\ phase = "job"
    /\ index' = index + 1
    /\ phase' = "entry"
    /\ UNCHANGED <<multithreading, list, stack, requests, requested, removed, current, tw, stale>>

\* Mutant of Rescheduled: the interval is not added.
RescheduledNow(e) == [e EXCEPT !.nextTime = IF e.nextTime < current THEN current ELSE @]

\* The next time, which is not in the past.
Rescheduled(e) ==
    LET next == e.nextTime + e.interval
    IN  [e EXCEPT !.nextTime = IF next < current THEN current ELSE next]

\* Mutant of MovedBack: the entry stays where it is.
MovedNowhere(l) == [l EXCEPT ![1] = Rescheduled(l[1])]

\* The clock does not go back, so the entry is still the head of the list; it moves behind those
\* that are due before it or with it.
MovedBack(l) == InsertAt(Tail(l), Position(Tail(l), Rescheduled(l[1]).nextTime), Rescheduled(l[1]))

EndEntry ==
    /\ phase = "entry"
    /\ ~stale
    /\ index > Len(JobsOf(list, tw))
    /\ list' = MovedBack(list)
    /\ phase' = "process"
    /\ UNCHANGED <<multithreading, stack, requests, requested, removed, current, tw, index, stale>>

EndPass ==
    /\ phase = "process"
    /\ ~Due
    /\ phase' = "idle"
    /\ tw' = 0
    /\ index' = 1
    /\ UNCHANGED <<multithreading, list, stack, requests, requested, removed, current, stale>>

\* UA_Server_deleteAllRepeatedJobs, when the server is deleted.
DeleteAll ==
    /\ phase = "idle"
    /\ list' = <<>>
    /\ phase' = "deleted"
    /\ UNCHANGED <<multithreading, stack, requests, requested, removed, current, tw, index, stale>>

Tick ==
    /\ \A i \in 1 .. Len(list) : list[i].nextTime > -LateBound
    /\ current > -LateBound
    /\ list' = [i \in 1 .. Len(list) |-> [list[i] EXCEPT !.nextTime = @ - 1]]
    /\ current' = IF phase \in {"idle", "requests", "deleted"} THEN 0 ELSE current - 1
    /\ UNCHANGED <<multithreading, stack, requests, requested, removed, phase, tw, index, stale>>

-----------------------------------------------------------------------------
MainLoop ==
    \/ StartPass
    \/ MainLoopJob
    \/ StartProcessing
    \/ BeginEntry
    \/ BeginJob
    \/ EndJob
    \/ EndEntry
    \/ EndPass

Next ==
    \/ MainLoop
    \/ Tick
    \/ DeleteAll
    \/ \E id \in Ids : RemoveRepeatedJob(id) \/ \E ms \in Intervals : AddRepeatedJob(id, ms)

\* The main loop goes on and time passes.
Spec == Init /\ [][Next]_vars /\ WF_vars(MainLoop) /\ WF_vars(Tick)

-----------------------------------------------------------------------------
(* Properties *)

Requests == [id : Ids, interval : {NoInterval} \cup 0 .. IntervalMod - 1]
Entry == [nextTime : Int, interval : 0 .. IntervalMod - 1, jobs : Seq(Ids) \ {<<>>}]

\* Every variable has its type: no entry of the list is left without a job.
TypeOK ==
    /\ multithreading \in BOOLEAN
    /\ list \in Seq(Entry)
    /\ stack \in Seq(Requests)
    /\ requests \in Seq(Requests)
    /\ requested \in [Ids -> Nat]
    /\ removed \subseteq Ids
    /\ phase \in {"idle", "requests", "process", "entry", "job", "deleted"}
    /\ current \in -LateBound .. 0
    /\ tw \in Nat
    /\ index \in Nat
    /\ stale \in BOOLEAN

\* "The linked list is sorted", also while requests and jobs change it, so the loop may stop
\* at the first entry that is not due.
ListSorted == \A i \in 1 .. Len(list) - 1 : list[i].nextTime <= list[i + 1].nextTime

\* The search for a matching entry stops at the first later one and still never misses it.
OneEntryPerInterval ==
    \A i, k \in 1 .. Len(list) : list[i].interval = list[k].interval => i = k

\* A job is in one entry and once, so removing it once is enough.
JobsInOneEntry ==
    /\ \A i \in 1 .. Len(list) : IsInjective(list[i].jobs)
    /\ \A i, k \in 1 .. Len(list) : i # k => Range(list[i].jobs) \cap Range(list[k].jobs) = {}

\* A job waits at most its interval: "the first execution occurs at now() + interval at the
\* latest", and so does every later one when the main loop is not late.
NextTimeInReach == \A i \in 1 .. Len(list) : list[i].nextTime <= list[i].interval

\* The timer list is well formed whenever services, callbacks, requests of other threads and
\* the clock change it in the middle of an iteration.
ListInv == TypeOK /\ ListSorted /\ OneEntryPerInterval /\ JobsInOneEntry /\ NextTimeInReach

\* At the end of an iteration no entry is left that was due when it began: an entry that
\* missed several executions is executed once more and then waits its interval.
NothingOverdue ==
    [][EndPass => \A i \in 1 .. Len(list) : list[i].nextTime > current]_vars

\* "processJobs may sort the list but dont delete entries": the entry that the loop holds a
\* pointer to stays where it is.
EntryStays == ~stale

\* "The entry will be removed asynchronously during the next iteration of the server main
\* loop": with all requests executed, a job that was to be removed is not in the list.
RemovedInNextPass ==
    phase = "process" =>
        \A id \in removed :
            (\A i \in 1 .. Len(stack) : stack[i].id # id) =>
                \A i \in 1 .. Len(list) : id \notin Range(list[i].jobs)

\* "The job shall be repeatedly executed with the given interval (in ms)".
IntervalKept ==
    \A i \in 1 .. Len(list) : \A id \in Range(list[i].jobs) : list[i].interval = requested[id] * TicksPerMs

Registered(id) == \E i \in 1 .. Len(list) : id \in Range(list[i].jobs)
Executing(id) == phase = "job" /\ index <= Len(JobsOf(list, tw)) /\ JobsOf(list, tw)[index] = id

\* "The entry will be removed asynchronously during the next iteration of the server main
\* loop": a job that was removed is gone when all requests were executed.
RemovedStaysOut == stack = <<>> /\ requests = <<>> => \A id \in removed : ~Registered(id)

\* A registered job is executed again and again until it is removed.
JobsRecur == \A id \in Ids : Registered(id) ~> (Executing(id) \/ ~Registered(id))

\* An iteration ends, however late the entries are.
PassEnds == phase = "process" ~> phase = "idle"
=============================================================================
