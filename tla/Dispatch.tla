-------------------------------- MODULE Dispatch --------------------------------
(***************************************************************************)
(* The executors every background task of the program runs on: ThreadPool, *)
(* BackgroundQueue, SerialQueue and Sync of libaegisub/common/dispatch.cpp.*)
(*                                                                         *)
(* Threads outside the pool (callers) and the thunks the pool runs post    *)
(* thunks to the Background queue or to a serial queue, and may wait for   *)
(* them (Sync).  A serial queue with tasks has one Drain in the pool,      *)
(* which occupies a worker until the queue is empty.  Shutdown clears the  *)
(* pool's tasks and joins its workers; a later Post starts new ones.       *)
(*                                                                         *)
(* A thunk is a task number, in the order of the calls.  What it computes, *)
(* and the exception it may end with, are left out: the worker goes on     *)
(* either way.                                                             *)
(***************************************************************************)
EXTENDS Integers, Sequences, FiniteSets

CONSTANTS
    Thread,        \* identities of pool threads
    WorkerCount,   \* threads the pool starts
    Caller,        \* threads outside the pool
    Queue,         \* serial queues
    Background,    \* the queue whose tasks go to the pool directly
    CallerCalls,   \* calls a caller makes: records [queue, sync]
    ThunkCalls,    \* calls a thunk makes: records [from, queue, sync], where
                   \* from is the queue it runs on
    NoTask,
    MaxPosts,      \* bound on the tasks
    MaxShutdowns   \* bound on the calls of Shutdown

AnyQueue == Queue \cup {Background}
ASSUME CallAssumption ==
    /\ CallerCalls \subseteq [queue : AnyQueue, sync : BOOLEAN]
    /\ ThunkCalls \subseteq [from : AnyQueue, queue : AnyQueue, sync : BOOLEAN]
ASSUME BackgroundAssumption == Background \notin Queue
ASSUME ThreadAssumption ==
    /\ Caller \cap Thread = {}
    /\ IsFiniteSet(Thread)
    /\ MaxPosts \in Nat /\ MaxShutdowns \in Nat
    /\ WorkerCount \in Nat \ {0}
    /\ Cardinality(Thread) >= WorkerCount * (MaxShutdowns + 1)
ASSUME TaskAssumption == NoTask \notin Nat \cup Queue /\ Queue \cap Nat = {}

VARIABLES
    pool,            \* ThreadPool::tasks: task numbers, and queues to drain
    threads,         \* ThreadPool::threads
    stopped,         \* threads a Shutdown asked to stop and still joins
    tasks,           \* SerialQueue::State::tasks
    drain_scheduled, \* SerialQueue::State::drain_scheduled
    worker,          \* where each pool thread is
    call,            \* what the code on each thread is doing in this module
    posted,          \* the queue each task was posted to
    done,            \* the tasks that have run
    shutdowns
vars == <<pool, threads, stopped, tasks, drain_scheduled, worker, call, posted,
          done, shutdowns>>

Agent == Caller \cup Thread
Tasks == 1 .. Len(posted)

Ended == [at |-> "none", queue |-> Background, task |-> NoTask]
Waiting == [Ended EXCEPT !.at = "wait"]
Draining(q) == [at |-> "drain", queue |-> q, task |-> NoTask]
Running(q, task) == [at |-> "thunk", queue |-> q, task |-> task]

Free == [at |-> "free", queue |-> Background, task |-> NoTask]
InSync(task) == [at |-> "sync", queue |-> Background, task |-> task]
InJoin == [Free EXCEPT !.at = "join"]
\* In DoPost, between releasing the queue's lock and posting its Drain; task
\* is the one to wait for, if any.
InSchedule(q, task) == [at |-> "schedule", queue |-> q, task |-> task]
After(task) == IF task = NoTask THEN Free ELSE InSync(task)

\* The thunk on a thread, or a caller, is free to make a call.
CanCall(p) == call[p] = Free /\ (p \in Thread => worker[p].at = "thunk")
-----------------------------------------------------------------------------
(***************************************************************************)
(* Posting                                                                 *)
(***************************************************************************)
\* Threads that start; which of those that do not run has no effect.
Started(ended) == CHOOSE ts \in SUBSET ended : Cardinality(ts) = WorkerCount

\* ThreadPool::Post, with EnsureStartedLocked: no thread left, start them.
PoolPost(item) ==
    /\ pool' = Append(pool, item)
    /\ IF threads # {}
       THEN UNCHANGED <<threads, worker>>
       ELSE LET ended == {t \in Thread : worker[t] = Ended} IN
            /\ Cardinality(ended) >= WorkerCount
            /\ threads' = Started(ended)
            /\ worker' = [t \in Thread |-> IF t \in threads' THEN Waiting
                                                            ELSE worker[t]]

\* Mutant: Sync waits for the task before its own.
PostBackground_WaitsForPrevious(p, c) ==
    /\ CanCall(p)
    /\ c.queue = Background
    /\ Len(posted) < MaxPosts
    /\ posted' = Append(posted, Background)
    /\ PoolPost(Len(posted'))
    /\ call' = [call EXCEPT ![p] = IF c.sync THEN InSync(Len(posted)) ELSE Free]
    /\ UNCHANGED <<stopped, tasks, drain_scheduled, done, shutdowns>>

\* Async and Sync of the Background queue.
PostBackground(p, c) ==
    /\ CanCall(p)
    /\ c.queue = Background
    /\ Len(posted) < MaxPosts
    /\ posted' = Append(posted, Background)
    /\ PoolPost(Len(posted'))
    /\ call' = [call EXCEPT ![p] = IF c.sync THEN InSync(Len(posted')) ELSE Free]
    /\ UNCHANGED <<stopped, tasks, drain_scheduled, done, shutdowns>>

\* Mutant: every post schedules a Drain.
PostSerial_AlwaysSchedules(p, c) ==
    /\ CanCall(p)
    /\ c.queue # Background
    /\ Len(posted) < MaxPosts
    /\ posted' = Append(posted, c.queue)
    /\ tasks' = [tasks EXCEPT ![c.queue] = Append(@, Len(posted'))]
    /\ LET waits == IF c.sync THEN Len(posted') ELSE NoTask IN
       /\ call' = [call EXCEPT ![p] = InSchedule(c.queue, waits)]
       /\ drain_scheduled' = [drain_scheduled EXCEPT ![c.queue] = TRUE]
    /\ UNCHANGED <<pool, threads, stopped, worker, done, shutdowns>>

\* Async and Sync of a serial queue, under its lock.
PostSerial(p, c) ==
    /\ CanCall(p)
    /\ c.queue # Background
    /\ Len(posted) < MaxPosts
    /\ posted' = Append(posted, c.queue)
    /\ tasks' = [tasks EXCEPT ![c.queue] = Append(@, Len(posted'))]
    /\ LET waits == IF c.sync THEN Len(posted') ELSE NoTask IN
       /\ call' = [call EXCEPT ![p] =
                     IF drain_scheduled[c.queue] THEN After(waits)
                                                 ELSE InSchedule(c.queue, waits)]
       /\ drain_scheduled' = [drain_scheduled EXCEPT ![c.queue] = TRUE]
    /\ UNCHANGED <<pool, threads, stopped, worker, done, shutdowns>>

\* should_schedule: the Drain goes to the pool.
Schedule(p) ==
    /\ call[p].at = "schedule"
    /\ PoolPost(call[p].queue)
    /\ call' = [call EXCEPT ![p] = After(call[p].task)]
    /\ UNCHANGED <<stopped, tasks, drain_scheduled, posted, done, shutdowns>>

\* DoDispatch: cv.wait returns once the thunk is done.
SyncReturn(p) ==
    /\ call[p].at = "sync"
    /\ call[p].task \in done
    /\ call' = [call EXCEPT ![p] = Free]
    /\ UNCHANGED <<pool, threads, stopped, tasks, drain_scheduled, worker,
                   posted, done, shutdowns>>
-----------------------------------------------------------------------------
(***************************************************************************)
(* A pool thread: WorkerLoop, and Drain                                    *)
(***************************************************************************)
\* The oldest item: a queue to drain or a task to run.
Take(t) ==
    /\ worker[t] = Waiting
    /\ t \notin stopped
    /\ pool # <<>>
    /\ worker' = [worker EXCEPT ![t] =
                    IF Head(pool) \in Queue THEN Draining(Head(pool))
                                            ELSE Running(Background, Head(pool))]
    /\ pool' = Tail(pool)
    /\ UNCHANGED <<threads, stopped, tasks, drain_scheduled, call, posted,
                   done, shutdowns>>

\* stop_requested: the thread ends, whatever the pool holds.
Stop(t) ==
    /\ worker[t] = Waiting
    /\ t \in stopped
    /\ worker' = [worker EXCEPT ![t] = Ended]
    /\ stopped' = stopped \ {t}
    /\ UNCHANGED <<pool, threads, tasks, drain_scheduled, call, posted, done,
                   shutdowns>>

\* Mutant: the Drain of an empty queue leaves it scheduled.
DrainStep_KeepsScheduled(t) ==
    /\ worker[t].at = "drain"
    /\ LET q == worker[t].queue IN
       IF tasks[q] = <<>>
       THEN /\ worker' = [worker EXCEPT ![t] = Waiting]
            /\ UNCHANGED <<drain_scheduled, tasks>>
       ELSE /\ worker' = [worker EXCEPT ![t] = Running(q, Head(tasks[q]))]
            /\ tasks' = [tasks EXCEPT ![q] = Tail(@)]
            /\ UNCHANGED drain_scheduled
    /\ UNCHANGED <<pool, threads, stopped, call, posted, done, shutdowns>>

\* One turn of Drain, under the queue's lock.
DrainStep(t) ==
    /\ worker[t].at = "drain"
    /\ LET q == worker[t].queue IN
       IF tasks[q] = <<>>
       THEN /\ worker' = [worker EXCEPT ![t] = Waiting]
            /\ drain_scheduled' = [drain_scheduled EXCEPT ![q] = FALSE]
            /\ tasks' = tasks
       ELSE /\ worker' = [worker EXCEPT ![t] = Running(q, Head(tasks[q]))]
            /\ tasks' = [tasks EXCEPT ![q] = Tail(@)]
            /\ UNCHANGED drain_scheduled
    /\ UNCHANGED <<pool, threads, stopped, call, posted, done, shutdowns>>

\* The thunk returns or throws.
Finish(t) ==
    /\ worker[t].at = "thunk"
    /\ call[t] = Free
    /\ done' = done \cup {worker[t].task}
    /\ worker' = [worker EXCEPT ![t] = IF @.queue = Background
                                       THEN Waiting ELSE Draining(@.queue)]
    /\ UNCHANGED <<pool, threads, stopped, tasks, drain_scheduled, call,
                   posted, shutdowns>>
-----------------------------------------------------------------------------
(***************************************************************************)
(* Shutdown: clear the tasks, ask the threads to stop, join them.          *)
(***************************************************************************)
Shutdown(p) ==
    /\ p \in Caller /\ CanCall(p)
    /\ shutdowns < MaxShutdowns
    /\ shutdowns' = shutdowns + 1
    /\ pool' = <<>>
    /\ stopped' = stopped \cup threads
    /\ threads' = {}
    /\ call' = [call EXCEPT ![p] = InJoin]
    /\ UNCHANGED <<tasks, drain_scheduled, worker, posted, done>>

Joined(p) ==
    /\ call[p] = InJoin
    /\ stopped = {}
    /\ call' = [call EXCEPT ![p] = Free]
    /\ UNCHANGED <<pool, threads, stopped, tasks, drain_scheduled, worker,
                   posted, done, shutdowns>>
-----------------------------------------------------------------------------
Init ==
    /\ pool = <<>>
    /\ threads = Started(Thread)
    /\ stopped = {}
    /\ tasks = [q \in Queue |-> <<>>]
    /\ drain_scheduled = [q \in Queue |-> FALSE]
    /\ worker = [t \in Thread |-> IF t \in threads THEN Waiting ELSE Ended]
    /\ call = [p \in Agent |-> Free]
    /\ posted = <<>>
    /\ done = {}
    /\ shutdowns = 0

\* Nothing is left to do until the next call.
Quiet ==
    /\ \A p \in Agent : call[p] = Free
    /\ \A t \in Thread : worker[t].at \in {"none", "wait"} /\ t \notin stopped
    /\ pool = <<>>
    /\ UNCHANGED vars

Return(p) == Schedule(p) \/ SyncReturn(p) \/ Joined(p)
Calls(p) == IF p \in Caller THEN CallerCalls
            ELSE {c \in ThunkCalls : c.from = worker[p].queue}
Post(p) == \E c \in Calls(p) : PostBackground(p, c) \/ PostSerial(p, c)

Next ==
    \/ \E p \in Agent : Post(p) \/ Return(p)
    \/ \E t \in Thread : Take(t) \/ Stop(t) \/ DrainStep(t) \/ Finish(t)
    \/ \E p \in Caller : Shutdown(p)
    \/ Quiet

Spec == Init /\ [][Next]_vars

\* Every thread that can run does, and a notified worker wakes up.
Fairness ==
    /\ \A p \in Agent : WF_vars(Return(p))
    /\ WF_vars(\E t \in Thread : Take(t))
    /\ \A t \in Thread : WF_vars(Stop(t) \/ DrainStep(t) \/ Finish(t))
FairSpec == Spec /\ Fairness
-----------------------------------------------------------------------------
(***************************************************************************)
(* Properties                                                              *)
(***************************************************************************)
\* Every variable has its type.
TypeOK ==
    /\ posted \in Seq(AnyQueue)
    /\ pool \in Seq(Tasks \cup Queue)
    /\ threads \subseteq Thread /\ stopped \subseteq Thread
    /\ tasks \in [Queue -> Seq(Tasks)]
    /\ drain_scheduled \in [Queue -> BOOLEAN]
    /\ worker \in [Thread -> [at : {"none", "wait", "drain", "thunk"},
                              queue : AnyQueue,
                              task : Tasks \cup {NoTask}]]
    /\ call \in [Agent -> [at : {"free", "schedule", "sync", "join"},
                           queue : AnyQueue,
                           task : Tasks \cup {NoTask}]]
    /\ done \subseteq Tasks
    /\ shutdowns \in 0 .. MaxShutdowns

Current(q) ==
    LET ts == {t \in Thread : worker[t].at = "thunk" /\ worker[t].queue = q}
    IN  IF ts = {} THEN NoTask ELSE worker[CHOOSE t \in ts : TRUE].task
Serial == INSTANCE SerialExecutor WITH
    Task <- 1 .. MaxPosts,
    waiting <- tasks,
    current <- [q \in Queue |-> Current(q)],
    finished <- {i \in done : posted[i] \in Queue}

\* Whatever the pool's threads do, shut down and restarted or not, each serial
\* queue runs its tasks one at a time in their order.
ImplementsSerial == Serial!Spec

\* Unless the pool is shut down, every task that is posted runs and every Sync
\* returns; the posts end at MaxPosts.
AllTasksRun ==
    <>[](shutdowns > 0
         \/ (Tasks \subseteq done /\ \A p \in Agent : call[p] = Free))
=============================================================================
