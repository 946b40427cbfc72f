---------------------------- MODULE DispatchProofs ----------------------------
(***************************************************************************)
(* Theorems about Dispatch, for any number of pool threads, callers and    *)
(* serial queues, any calls and any number of tasks and shutdowns: a       *)
(* serial queue has at most one Drain, and so implements SerialExecutor.   *)
(***************************************************************************)
EXTENDS Dispatch, FiniteSetTheorems, SequenceTheorems, TLAPS

USE CallAssumption, BackgroundAssumption, TaskAssumption DEF AnyQueue, Agent

(***************************************************************************)
(* The inductive invariant.  The Drain of a serial queue is on its way     *)
(* through three places: the call that is about to post it, the pool, and  *)
(* the thread that runs it.  It is in one of them at most, and             *)
(* drain_scheduled keeps a second one from being posted.  A Shutdown may   *)
(* drop it, which leaves drain_scheduled set.                              *)
(***************************************************************************)
Scheduling(p, q) == call[p].at = "schedule" /\ call[p].queue = q
Serving(t, q) == worker[t].at \in {"drain", "thunk"} /\ worker[t].queue = q
Pooled(i, q) == pool[i] = q

\* What a pool thread can be doing when the tasks are those of post; a task runs on the
\* queue it was posted to.
WorkerIs(w, post) ==
    \/ w = Ended \/ w = Waiting
    \/ \E q \in Queue : w = Draining(q)
    \/ \E i \in 1 .. Len(post) : w = Running(post[i], i)

CallIs(c, post) ==
    \/ c = Free \/ c = InJoin
    \/ \E i \in 1 .. Len(post) : c = InSync(i)
    \/ \E q \in Queue, i \in 1 .. Len(post) \cup {NoTask} : c = InSchedule(q, i)

\* A task waits where it was posted: in the pool, or in its serial queue.
PoolInv ==
    /\ pool \in Seq(Tasks \cup Queue)
    /\ \A i \in 1 .. Len(pool) : pool[i] \in Tasks => posted[pool[i]] = Background
TasksInv ==
    /\ tasks \in [Queue -> Seq(Tasks)]
    /\ \A q \in Queue : \A i \in 1 .. Len(tasks[q]) : posted[tasks[q][i]] = q
WorkerInv ==
    /\ worker = [t \in Thread |-> worker[t]]
    /\ \A t \in Thread : WorkerIs(worker[t], posted)
CallInv ==
    /\ call = [p \in Agent |-> call[p]]
    /\ \A p \in Agent : CallIs(call[p], posted)
PlainInv ==
    /\ posted \in Seq(AnyQueue)
    /\ threads \subseteq Thread /\ stopped \subseteq Thread
    /\ drain_scheduled \in [Queue -> BOOLEAN]
    /\ done \subseteq Tasks
    /\ shutdowns \in 0 .. MaxShutdowns
ShapeInv == PlainInv /\ PoolInv /\ TasksInv /\ WorkerInv /\ CallInv

\* At most one Drain of each queue, and only while it is scheduled.
Alone(q) ==
    /\ \A p, r \in Agent : Scheduling(p, q) /\ Scheduling(r, q) => p = r
    /\ \A i, j \in 1 .. Len(pool) : Pooled(i, q) /\ Pooled(j, q) => i = j
    /\ \A t, u \in Thread : Serving(t, q) /\ Serving(u, q) => t = u
Apart(q) ==
    /\ \A p \in Agent, i \in 1 .. Len(pool) : ~(Scheduling(p, q) /\ Pooled(i, q))
    /\ \A p \in Agent, t \in Thread : ~(Scheduling(p, q) /\ Serving(t, q))
    /\ \A i \in 1 .. Len(pool), t \in Thread : ~(Pooled(i, q) /\ Serving(t, q))
Scheduled(q) ==
    ~drain_scheduled[q] =>
        /\ \A p \in Agent : ~Scheduling(p, q)
        /\ \A i \in 1 .. Len(pool) : ~Pooled(i, q)
        /\ \A t \in Thread : ~Serving(t, q)
OneDrain == \A q \in Queue : Alone(q) /\ Apart(q) /\ Scheduled(q)

DispatchInv == ShapeInv /\ OneDrain
-----------------------------------------------------------------------------
(***************************************************************************)
(* What the operators of Dispatch do                                       *)
(***************************************************************************)
\* The fields of the records of a pool thread and of a call.
LEMMA Records ==
  /\ Ended.at = "none" /\ Waiting = [at |-> "wait", queue |-> Background, task |-> NoTask]
  /\ Waiting.at = "wait"
  /\ \A q : Draining(q).at = "drain" /\ Draining(q).queue = q /\ Draining(q).task = NoTask
  /\ \A q, i : Running(q, i).at = "thunk" /\ Running(q, i).queue = q /\ Running(q, i).task = i
  /\ Free.at = "free" /\ InJoin = [at |-> "join", queue |-> Background, task |-> NoTask]
  /\ InJoin.at = "join"
  /\ \A i : InSync(i).at = "sync" /\ InSync(i).task = i
  /\ \A q, i : /\ InSchedule(q, i).at = "schedule" /\ InSchedule(q, i).queue = q
               /\ InSchedule(q, i).task = i
  BY DEF Ended, Waiting, Draining, Running, Free, InJoin, InSync, InSchedule

\* There are enough threads to start: a finite set has subsets of every smaller size.
LEMMA StartedSubset ==
  ASSUME NEW E \in SUBSET Thread, Cardinality(E) >= WorkerCount
  PROVE  Started(E) \in SUBSET E
<1>1. IsFiniteSet(E)
  BY ThreadAssumption, FS_Subset
<1>2. Cardinality(E) \in Nat /\ ExistsBijection(1 .. Cardinality(E), E)
  BY <1>1, FS_CardinalityType
<1>3. PICK f : f \in Bijection(1 .. Cardinality(E), E)
  BY <1>2 DEF ExistsBijection
<1> DEFINE ts == {f[i] : i \in 1 .. WorkerCount}
<1>4. f \in [1 .. Cardinality(E) -> E] /\ IsInjective(f)
  BY <1>3 DEF Bijection, Injection
<1>5. WorkerCount \in Nat /\ 1 .. WorkerCount \subseteq 1 .. Cardinality(E)
  BY <1>2, ThreadAssumption
<1>6. ts \in SUBSET E
  BY <1>4, <1>5
<1>7. Cardinality(ts) = WorkerCount
  <2> DEFINE g == [i \in 1 .. WorkerCount |-> f[i]]
  <2>1. g \in Bijection(1 .. WorkerCount, ts)
    BY <1>4, <1>5 DEF Bijection, Injection, Surjection, IsInjective
  <2> QED
    BY <2>1, <1>5, FS_CountingElements DEF ExistsBijection
<1> QED
  BY <1>6, <1>7 DEF Started

\* One more task leaves what the threads are doing as it was.
LEMMA PostGrows ==
  ASSUME NEW post \in Seq(AnyQueue), NEW q \in AnyQueue
  PROVE  /\ Append(post, q) \in Seq(AnyQueue)
         /\ Len(Append(post, q)) = Len(post) + 1 /\ Len(post) \in Nat
         /\ 1 .. Len(post) \subseteq 1 .. Len(Append(post, q))
         /\ \A i \in 1 .. Len(post) : Append(post, q)[i] = post[i]
         /\ Append(post, q)[Len(post) + 1] = q
         /\ \A w : WorkerIs(w, post) => WorkerIs(w, Append(post, q))
         /\ \A c : CallIs(c, post) => CallIs(c, Append(post, q))
<1> DEFINE new == Append(post, q)
<1>1. /\ new \in Seq(AnyQueue)
      /\ Len(new) = Len(post) + 1 /\ Len(post) \in Nat
      /\ \A i \in 1 .. Len(post) : new[i] = post[i]
      /\ new[Len(post) + 1] = q
  BY AppendProperties, LenProperties
<1>2. 1 .. Len(post) \subseteq 1 .. Len(new)
  BY <1>1
<1> HIDE DEF new
<1>3. \A w : WorkerIs(w, post) => WorkerIs(w, new)
  BY <1>1, <1>2 DEF WorkerIs
<1>4. \A c : CallIs(c, post) => CallIs(c, new)
  BY <1>1, <1>2 DEF CallIs
<1> QED
  BY <1>1, <1>2, <1>3, <1>4 DEF new

\* A post to the pool appends, and starts threads only in place of ended ones.
LEMMA PoolPostFacts ==
  ASSUME ShapeInv, NEW item, PoolPost(item)
  PROVE  /\ pool' = Append(pool, item)
         /\ threads' \subseteq Thread
         /\ worker' = [t \in Thread |-> worker'[t]]
         /\ \A t \in Thread :
                worker'[t] = worker[t] \/ (worker[t] = Ended /\ worker'[t] = Waiting)
<1>1. pool' = Append(pool, item)
  BY DEF PoolPost
<1>2. CASE threads # {}
  BY <1>1, <1>2 DEF PoolPost, ShapeInv, PlainInv, WorkerInv
<1>3. CASE threads = {}
  <2> DEFINE ended == {t \in Thread : worker[t] = Ended}
  <2>1. /\ Cardinality(ended) >= WorkerCount
        /\ threads' = Started(ended)
        /\ worker' = [t \in Thread |-> IF t \in threads' THEN Waiting ELSE worker[t]]
    BY <1>3 DEF PoolPost
  <2>2. threads' \subseteq ended
    BY <2>1, StartedSubset
  <2> QED
    BY <1>1, <2>1, <2>2
<1> QED
  BY <1>2, <1>3
-----------------------------------------------------------------------------
(***************************************************************************)
(* The shape of the state: one lemma per action                            *)
(***************************************************************************)
\* The first state: no task, no drain, and WorkerCount threads that wait.
LEMMA InitShape == Init => ShapeInv
<1> SUFFICES ASSUME Init PROVE ShapeInv
  OBVIOUS
<1>1. Started(Thread) \subseteq Thread
  <2>1. WorkerCount * (MaxShutdowns + 1) >= WorkerCount
    BY ThreadAssumption
  <2>2. Cardinality(Thread) >= WorkerCount
    BY <2>1, ThreadAssumption, FS_CardinalityType
  <2> QED
    BY <2>2, StartedSubset
<1>2. PlainInv
  BY <1>1, ThreadAssumption, EmptySeq DEF Init, PlainInv
<1>3. PoolInv /\ TasksInv
  BY EmptySeq DEF Init, PoolInv, TasksInv
<1>4. WorkerInv
  BY DEF Init, WorkerInv, WorkerIs
<1>5. CallInv
  BY DEF Init, CallInv, CallIs
<1> QED
  BY <1>2, <1>3, <1>4, <1>5 DEF ShapeInv

\* A post to the pool of an item that belongs there keeps the shape of the pool and of the
\* threads, when the rest of the shape holds.
LEMMA PoolPostShape ==
  ASSUME ShapeInv, NEW item, PoolPost(item),
         PlainInv', TasksInv', CallInv', Len(posted) \in Nat,
         \A w : WorkerIs(w, posted) => WorkerIs(w, posted'),
         Tasks \subseteq Tasks', \A i \in Tasks : posted'[i] = posted[i],
         item \in Tasks' \cup Queue, item \in Tasks' => posted'[item] = Background
  PROVE  ShapeInv'
<1>1. /\ pool' = Append(pool, item)
      /\ worker' = [t \in Thread |-> worker'[t]]
      /\ \A t \in Thread :
             worker'[t] = worker[t] \/ (worker[t] = Ended /\ worker'[t] = Waiting)
  BY PoolPostFacts
<1>2. PoolInv'
  <2>1. pool \in Seq(Tasks' \cup Queue)
    BY SeqMonotonic DEF ShapeInv, PoolInv
  <2>2. /\ pool' \in Seq(Tasks' \cup Queue)
        /\ Len(pool') = Len(pool) + 1 /\ Len(pool) \in Nat
        /\ \A i \in 1 .. Len(pool) : pool'[i] = pool[i]
        /\ pool'[Len(pool) + 1] = item
    BY <1>1, <2>1, AppendProperties, LenProperties
  <2>3. ASSUME NEW i \in 1 .. Len(pool'), pool'[i] \in Tasks'
        PROVE  posted'[pool'[i]] = Background
    <3>1. CASE i = Len(pool) + 1
      BY <2>2, <2>3, <3>1
    <3>2. CASE i \in 1 .. Len(pool)
      <4>1. pool[i] \in Tasks \cup Queue /\ pool[i] \in Tasks'
        BY <2>2, <2>3, <3>2, ElementOfSeq DEF ShapeInv, PoolInv
      <4>2. pool[i] \in Tasks
        BY <4>1 DEF Tasks
      <4> QED
        BY <2>2, <3>2, <4>2 DEF ShapeInv, PoolInv
    <3> QED
      BY <2>2, <3>1, <3>2
  <2> QED
    BY <2>2, <2>3 DEF PoolInv
<1>3. WorkerInv'
  BY <1>1 DEF ShapeInv, WorkerInv, WorkerIs
<1> QED
  BY <1>2, <1>3 DEF ShapeInv

\* One more task, at the end of the tasks posted.
LEMMA PostedGrows ==
  ASSUME ShapeInv, NEW q \in AnyQueue, posted' = Append(posted, q)
  PROVE  /\ posted' \in Seq(AnyQueue)
         /\ Len(posted) \in Nat /\ Len(posted') = Len(posted) + 1
         /\ Tasks \subseteq Tasks' /\ \A i \in Tasks : posted'[i] = posted[i]
         /\ Len(posted') \in Tasks' /\ posted'[Len(posted')] = q
         /\ \A w : WorkerIs(w, posted) => WorkerIs(w, posted')
         /\ \A c : CallIs(c, posted) => CallIs(c, posted')
<1>1. posted \in Seq(AnyQueue)
  BY DEF ShapeInv, PlainInv
<1> QED
  BY <1>1, PostGrows DEF Tasks

\* The queues are not touched by a step that posts elsewhere.
LEMMA TasksKept ==
  ASSUME ShapeInv, UNCHANGED tasks, Tasks \subseteq Tasks',
         \A i \in Tasks : posted'[i] = posted[i]
  PROVE  TasksInv'
<1>1. ASSUME NEW q \in Queue
      PROVE  tasks[q] \in Seq(Tasks) /\ tasks[q] \in Seq(Tasks')
  <2>1. tasks[q] \in Seq(Tasks)
    BY DEF ShapeInv, TasksInv
  <2> QED
    BY <2>1, SeqMonotonic
<1>2. tasks' \in [Queue -> Seq(Tasks')]
  BY <1>1 DEF ShapeInv, TasksInv
<1>3. ASSUME NEW q \in Queue, NEW i \in 1 .. Len(tasks[q])
      PROVE  posted'[tasks[q][i]] = q
  <2>1. tasks[q][i] \in Tasks
    BY <1>1, ElementOfSeq
  <2> QED
    BY <2>1 DEF ShapeInv, TasksInv
<1> QED
  BY <1>2, <1>3 DEF TasksInv

\* A task of the Background queue goes to the pool.
LEMMA PostBackgroundShape ==
  ASSUME ShapeInv, NEW p \in Agent, NEW c, PostBackground(p, c)
  PROVE  ShapeInv'
<1>1. posted' = Append(posted, Background)
  BY DEF PostBackground
<1>2. /\ posted' \in Seq(AnyQueue)
      /\ Len(posted) \in Nat /\ Len(posted') = Len(posted) + 1
      /\ Tasks \subseteq Tasks' /\ \A i \in Tasks : posted'[i] = posted[i]
      /\ Len(posted') \in Tasks' /\ posted'[Len(posted')] = Background
      /\ \A w : WorkerIs(w, posted) => WorkerIs(w, posted')
      /\ \A d : CallIs(d, posted) => CallIs(d, posted')
  BY <1>1, PostedGrows
<1>3. PoolPost(Len(posted'))
  BY DEF PostBackground
<1>4. TasksInv'
  BY <1>2, TasksKept DEF PostBackground
<1>5. PlainInv'
  <2>1. threads' \subseteq Thread
    BY <1>3, PoolPostFacts
  <2> QED
    BY <1>2, <2>1 DEF PostBackground, ShapeInv, PlainInv
<1>6. CallInv'
  <2>1. call' = [call EXCEPT ![p] = IF c.sync THEN InSync(Len(posted')) ELSE Free]
    BY DEF PostBackground
  <2>2. CallIs(InSync(Len(posted')), posted') /\ CallIs(Free, posted')
    BY <1>2 DEF CallIs, Tasks
  <2> QED
    BY <1>2, <2>1, <2>2 DEF ShapeInv, CallInv
<1> QED
  BY <1>2, <1>3, <1>4, <1>5, <1>6, PoolPostShape

\* A task of a serial queue goes to the end of that queue.
LEMMA PostSerialShape ==
  ASSUME ShapeInv, NEW p \in Agent, NEW c, c.queue \in AnyQueue, PostSerial(p, c)
  PROVE  ShapeInv'
<1> DEFINE q == c.queue
<1>0. q \in Queue
  BY DEF PostSerial
<1>1. posted' = Append(posted, q)
  BY DEF PostSerial
<1>2. /\ posted' \in Seq(AnyQueue)
      /\ Len(posted) \in Nat /\ Len(posted') = Len(posted) + 1
      /\ Tasks \subseteq Tasks' /\ \A i \in Tasks : posted'[i] = posted[i]
      /\ Len(posted') \in Tasks' /\ posted'[Len(posted')] = q
      /\ \A w : WorkerIs(w, posted) => WorkerIs(w, posted')
      /\ \A d : CallIs(d, posted) => CallIs(d, posted')
  BY <1>0, <1>1, PostedGrows
<1>3. PlainInv'
  BY <1>0, <1>2 DEF PostSerial, ShapeInv, PlainInv
<1>4. PoolInv'
  <2>1. pool \in Seq(Tasks' \cup Queue)
    BY <1>2, SeqMonotonic DEF ShapeInv, PoolInv
  <2>2. ASSUME NEW i \in 1 .. Len(pool), pool[i] \in Tasks'
        PROVE  pool[i] \in Tasks
    <3>1. pool[i] \in Tasks \cup Queue
      BY ElementOfSeq DEF ShapeInv, PoolInv
    <3> QED
      BY <2>2, <3>1 DEF Tasks
  <2> QED
    BY <1>2, <2>1, <2>2 DEF PostSerial, ShapeInv, PoolInv
<1>5. TasksInv'
  <2>1. ASSUME NEW r \in Queue
        PROVE  tasks[r] \in Seq(Tasks) /\ tasks[r] \in Seq(Tasks')
    <3>1. tasks[r] \in Seq(Tasks)
      BY DEF ShapeInv, TasksInv
    <3> QED
      BY <1>2, <3>1, SeqMonotonic
  <2>2. DOMAIN tasks = Queue /\ tasks' = [tasks EXCEPT ![q] = Append(@, Len(posted'))]
    BY DEF PostSerial, ShapeInv, TasksInv
  <2>3. /\ tasks'[q] \in Seq(Tasks')
        /\ Len(tasks'[q]) = Len(tasks[q]) + 1 /\ Len(tasks[q]) \in Nat
        /\ \A i \in 1 .. Len(tasks[q]) : tasks'[q][i] = tasks[q][i]
        /\ tasks'[q][Len(tasks[q]) + 1] = Len(posted')
    BY <1>0, <1>2, <2>1, <2>2, AppendProperties, LenProperties
  <2>4. ASSUME NEW r \in Queue, NEW i \in 1 .. Len(tasks[r])
        PROVE  posted'[tasks[r][i]] = r
    <3>1. tasks[r][i] \in Tasks
      BY <2>1, ElementOfSeq
    <3> QED
      BY <1>2, <3>1 DEF ShapeInv, TasksInv
  <2>5. ASSUME NEW i \in 1 .. Len(tasks'[q])
        PROVE  posted'[tasks'[q][i]] = q
    <3>1. CASE i = Len(tasks[q]) + 1
      BY <1>2, <2>3, <3>1
    <3>2. CASE i \in 1 .. Len(tasks[q])
      BY <1>0, <2>3, <2>4, <3>2
    <3> QED
      BY <2>3, <3>1, <3>2
  <2> QED
    BY <1>0, <2>1, <2>2, <2>3, <2>4, <2>5 DEF TasksInv
<1>6. WorkerInv'
  BY <1>2 DEF PostSerial, ShapeInv, WorkerInv
<1>7. CallInv'
  <2>1. PICK waits \in {Len(posted'), NoTask} :
           call' = [call EXCEPT ![p] = IF drain_scheduled[q] THEN After(waits)
                                                             ELSE InSchedule(q, waits)]
    BY DEF PostSerial
  <2>2. CallIs(After(waits), posted') /\ CallIs(InSchedule(q, waits), posted')
    BY <1>0, <1>2 DEF After, CallIs, Tasks
  <2> QED
    BY <1>2, <2>1, <2>2 DEF ShapeInv, CallInv
<1> QED
  BY <1>3, <1>4, <1>5, <1>6, <1>7 DEF ShapeInv

\* A call that schedules a Drain does so for a queue, and for a task that waits or for none.
LEMMA AtSchedule ==
  ASSUME ShapeInv, NEW p \in Agent, call[p].at = "schedule"
  PROVE  \E q \in Queue, i \in Tasks \cup {NoTask} : call[p] = InSchedule(q, i)
<1>1. CallIs(call[p], posted)
  BY DEF ShapeInv, CallInv
<1>2. call[p] # Free /\ call[p] # InJoin /\ \A i : call[p] # InSync(i)
  BY Records
<1> QED
  BY <1>1, <1>2 DEF CallIs, Tasks

\* The Drain of a serial queue goes to the pool.
LEMMA ScheduleShape ==
  ASSUME ShapeInv, NEW p \in Agent, Schedule(p)
  PROVE  ShapeInv'
<1>1. PICK q \in Queue, i \in Tasks \cup {NoTask} : call[p] = InSchedule(q, i)
  BY AtSchedule DEF Schedule
<1>2. PoolPost(q) /\ call' = [call EXCEPT ![p] = After(i)]
  <2>1. call[p].queue = q /\ call[p].task = i
    BY <1>1, Records
  <2> QED
    BY <2>1 DEF Schedule, PoolPost
<1>3. UNCHANGED <<stopped, tasks, drain_scheduled, posted, done, shutdowns>>
  BY DEF Schedule
<1>4. PlainInv'
  BY <1>2, <1>3, PoolPostFacts DEF ShapeInv, PlainInv, Tasks
<1>5. Len(posted) \in Nat /\ Tasks' = Tasks
  BY <1>3, LenProperties DEF ShapeInv, PlainInv, Tasks
<1>6. TasksInv'
  BY <1>3, <1>5, TasksKept
<1>7. CallInv'
  <2>1. CallIs(After(i), posted)
    BY DEF After, CallIs, Tasks
  <2> QED
    BY <1>2, <1>3, <2>1 DEF ShapeInv, CallInv
<1>8. q \notin Tasks'
  BY <1>5 DEF Tasks
<1> QED
  BY <1>2, <1>3, <1>4, <1>5, <1>6, <1>7, <1>8, PoolPostShape

\* A thread takes the oldest item of the pool.
LEMMA TakeShape ==
  ASSUME ShapeInv, NEW t \in Thread, Take(t)
  PROVE  ShapeInv'
<1>1. /\ pool # <<>> /\ pool' = Tail(pool)
      /\ worker' = [worker EXCEPT ![t] =
                       IF Head(pool) \in Queue THEN Draining(Head(pool))
                                               ELSE Running(Background, Head(pool))]
      /\ UNCHANGED <<threads, stopped, tasks, drain_scheduled, call, posted, done, shutdowns>>
  BY DEF Take
<1>2. /\ pool' \in Seq(Tasks \cup Queue) /\ Head(pool) \in Tasks \cup Queue
      /\ Head(pool) = pool[1] /\ 1 \in 1 .. Len(pool)
      /\ Len(pool') = Len(pool) - 1 /\ Len(pool) \in Nat
      /\ \A i \in 1 .. Len(pool') : pool'[i] = pool[i + 1]
  <2>1. pool \in Seq(Tasks \cup Queue)
    BY DEF ShapeInv, PoolInv
  <2>2. Len(pool) \in Nat \ {0}
    BY <1>1, <2>1, EmptySeq
  <2> QED
    BY <1>1, <2>1, <2>2, HeadTailProperties
<1>3. PlainInv' /\ TasksInv' /\ CallInv'
  BY <1>1 DEF ShapeInv, PlainInv, TasksInv, CallInv, Tasks
<1>4. PoolInv'
  <2>1. Tasks' = Tasks
    BY <1>1 DEF Tasks
  <2>2. ASSUME NEW i \in 1 .. Len(pool'), pool'[i] \in Tasks
        PROVE  posted[pool'[i]] = Background
    <3>1. i + 1 \in 1 .. Len(pool) /\ pool'[i] = pool[i + 1]
      BY <1>2
    <3> QED
      BY <2>2, <3>1 DEF ShapeInv, PoolInv
  <2> QED
    BY <1>1, <1>2, <2>1, <2>2 DEF PoolInv
<1>5. WorkerInv'
  <2>1. WorkerIs(worker'[t], posted)
    <3>1. CASE Head(pool) \in Queue
      BY <1>1, <3>1 DEF ShapeInv, WorkerInv, WorkerIs
    <3>2. CASE Head(pool) \notin Queue
      <4>1. Head(pool) \in Tasks /\ posted[Head(pool)] = Background
        BY <1>2, <3>2 DEF ShapeInv, PoolInv
      <4>2. worker'[t] = Running(posted[Head(pool)], Head(pool))
        BY <1>1, <3>2, <4>1 DEF ShapeInv, WorkerInv
      <4> QED
        BY <4>1, <4>2 DEF WorkerIs, Tasks
    <3> QED
      BY <3>1, <3>2
  <2> QED
    BY <1>1, <2>1 DEF ShapeInv, WorkerInv
<1> QED
  BY <1>3, <1>4, <1>5 DEF ShapeInv

\* A step of a pool thread that touches neither the pool nor what is posted.
LEMMA ThreadShape ==
  ASSUME ShapeInv, NEW t \in Thread, NEW w, WorkerIs(w, posted),
         worker' = [worker EXCEPT ![t] = w],
         UNCHANGED <<pool, call, posted>>, PlainInv', TasksInv'
  PROVE  ShapeInv'
<1>1. PoolInv' /\ CallInv'
  BY DEF ShapeInv, PoolInv, CallInv, Tasks
<1>2. WorkerInv'
  BY DEF ShapeInv, WorkerInv
<1> QED
  BY <1>1, <1>2 DEF ShapeInv

\* A thread that was asked to stop ends.
LEMMA StopShape ==
  ASSUME ShapeInv, NEW t \in Thread, Stop(t)
  PROVE  ShapeInv'
<1>1. PlainInv' /\ TasksInv'
  BY DEF Stop, ShapeInv, PlainInv, TasksInv, Tasks
<1>2. WorkerIs(Ended, posted)
  BY DEF WorkerIs
<1> QED
  BY <1>1, <1>2, ThreadShape DEF Stop

\* A thread that drains drains a serial queue.
LEMMA DrainingQueue ==
  ASSUME ShapeInv, NEW t \in Thread, worker[t].at = "drain"
  PROVE  worker[t].queue \in Queue
  BY Records DEF ShapeInv, WorkerInv, WorkerIs

\* A Drain takes the oldest task of its queue, or ends.
LEMMA DrainStepShape ==
  ASSUME ShapeInv, NEW t \in Thread, DrainStep(t)
  PROVE  ShapeInv'
<1> DEFINE q == worker[t].queue
<1>1. q \in Queue
  BY DrainingQueue DEF DrainStep
<1>2. UNCHANGED <<pool, threads, stopped, call, posted, done, shutdowns>>
  BY DEF DrainStep
<1>3. tasks[q] \in Seq(Tasks)
  BY <1>1 DEF ShapeInv, TasksInv
<1>4. CASE tasks[q] = <<>>
  <2>1. /\ worker' = [worker EXCEPT ![t] = Waiting]
        /\ drain_scheduled' = [drain_scheduled EXCEPT ![q] = FALSE]
        /\ tasks' = tasks
    BY <1>4 DEF DrainStep
  <2>2. PlainInv' /\ TasksInv'
    BY <1>2, <2>1 DEF ShapeInv, PlainInv, TasksInv, Tasks
  <2>3. WorkerIs(Waiting, posted)
    BY DEF WorkerIs
  <2> QED
    BY <1>2, <2>1, <2>2, <2>3, ThreadShape
<1>5. CASE tasks[q] # <<>>
  <2>1. /\ worker' = [worker EXCEPT ![t] = Running(q, Head(tasks[q]))]
        /\ tasks' = [tasks EXCEPT ![q] = Tail(@)]
        /\ UNCHANGED drain_scheduled
    BY <1>5 DEF DrainStep
  <2>2. /\ Head(tasks[q]) \in Tasks /\ Tail(tasks[q]) \in Seq(Tasks)
        /\ Head(tasks[q]) = tasks[q][1] /\ 1 \in 1 .. Len(tasks[q])
        /\ Len(Tail(tasks[q])) = Len(tasks[q]) - 1 /\ Len(tasks[q]) \in Nat
        /\ \A i \in 1 .. Len(Tail(tasks[q])) : Tail(tasks[q])[i] = tasks[q][i + 1]
    <3>1. Len(tasks[q]) \in Nat \ {0}
      BY <1>3, <1>5, EmptySeq
    <3> QED
      BY <1>3, <1>5, <3>1, HeadTailProperties
  <2>3. PlainInv'
    BY <1>2, <2>1 DEF ShapeInv, PlainInv, Tasks
  <2>4. TasksInv'
    <3>1. Tasks' = Tasks /\ DOMAIN tasks = Queue
      BY <1>2 DEF ShapeInv, TasksInv, Tasks
    <3>2. tasks' \in [Queue -> Seq(Tasks')]
      BY <1>1, <2>1, <2>2, <3>1 DEF ShapeInv, TasksInv
    <3>3. ASSUME NEW i \in 1 .. Len(tasks'[q])
          PROVE  posted[tasks'[q][i]] = q
      <4>1. i + 1 \in 1 .. Len(tasks[q]) /\ tasks'[q][i] = tasks[q][i + 1]
        BY <1>1, <2>1, <2>2, <3>1
      <4> QED
        BY <1>1, <4>1 DEF ShapeInv, TasksInv
    <3>4. \A r \in Queue : \A i \in 1 .. Len(tasks'[r]) : posted[tasks'[r][i]] = r
      BY <1>1, <2>1, <3>1, <3>3 DEF ShapeInv, TasksInv
    <3> QED
      BY <1>2, <3>2, <3>4 DEF TasksInv
  <2>5. WorkerIs(Running(q, Head(tasks[q])), posted)
    <3>1. posted[Head(tasks[q])] = q
      BY <1>1, <2>2 DEF ShapeInv, TasksInv
    <3> QED
      BY <2>2, <3>1 DEF WorkerIs, Tasks
  <2> QED
    BY <1>2, <2>1, <2>3, <2>4, <2>5, ThreadShape
<1> QED
  BY <1>4, <1>5

\* A thunk ends; it was a task of the queue its thread serves.
LEMMA FinishShape ==
  ASSUME ShapeInv, NEW t \in Thread, Finish(t)
  PROVE  ShapeInv'
<1>1. /\ done' = done \cup {worker[t].task}
      /\ UNCHANGED <<pool, threads, stopped, tasks, drain_scheduled, call, posted, shutdowns>>
  BY DEF Finish
<1>2. PICK i \in Tasks : worker[t] = Running(posted[i], i)
  BY Records DEF Finish, ShapeInv, WorkerInv, WorkerIs, Tasks
<1>3. PlainInv' /\ TasksInv'
  <2>1. worker[t].task \in Tasks
    BY <1>2, Records
  <2> QED
    BY <1>1, <2>1 DEF ShapeInv, PlainInv, TasksInv, Tasks
<1>4. posted[i] \in AnyQueue
  BY ElementOfSeq DEF ShapeInv, PlainInv, Tasks
<1>5. PICK w : worker' = [worker EXCEPT ![t] = w] /\ WorkerIs(w, posted)
  <2>1. worker' = [worker EXCEPT ![t] = IF worker[t].queue = Background
                                        THEN Waiting ELSE Draining(worker[t].queue)]
    BY DEF Finish, ShapeInv, WorkerInv
  <2>2. worker[t].queue \in AnyQueue
    BY <1>2, <1>4, Records
  <2> QED
    BY <2>1, <2>2 DEF WorkerIs
<1> QED
  BY <1>1, <1>3, <1>5, ThreadShape

\* A call that moves on without posting.
LEMMA CallShape ==
  ASSUME ShapeInv, NEW p \in Agent, NEW c, CallIs(c, posted),
         call' = [call EXCEPT ![p] = c],
         UNCHANGED <<tasks, worker, posted>>, PlainInv', PoolInv'
  PROVE  ShapeInv'
<1>1. TasksInv' /\ WorkerInv'
  BY DEF ShapeInv, TasksInv, WorkerInv, Tasks
<1>2. CallInv'
  BY DEF ShapeInv, CallInv
<1> QED
  BY <1>1, <1>2 DEF ShapeInv

\* A Sync or a Shutdown that returns.
LEMMA FreedShape ==
  ASSUME ShapeInv, NEW p \in Agent, SyncReturn(p) \/ Joined(p)
  PROVE  ShapeInv'
<1>1. CallIs(Free, posted)
  BY DEF CallIs
<1>2. PlainInv' /\ PoolInv'
  BY DEF SyncReturn, Joined, ShapeInv, PlainInv, PoolInv, Tasks
<1> QED
  BY <1>1, <1>2, CallShape DEF SyncReturn, Joined

\* Shutdown drops what the pool holds and stops its threads.
LEMMA ShutdownShape ==
  ASSUME ShapeInv, NEW p \in Agent, Shutdown(p)
  PROVE  ShapeInv'
<1>1. CallIs(InJoin, posted)
  BY DEF CallIs
<1>2. PlainInv'
  BY ThreadAssumption DEF Shutdown, ShapeInv, PlainInv, Tasks
<1>3. PoolInv'
  BY EmptySeq DEF Shutdown, PoolInv
<1> QED
  BY <1>1, <1>2, <1>3, CallShape DEF Shutdown

\* What a call asks for is a queue.
LEMMA CallsQueue ==
  ASSUME NEW p \in Agent, NEW c \in Calls(p)
  PROVE  c.queue \in AnyQueue
<1>1. c \in CallerCalls \/ c \in ThunkCalls
  BY DEF Calls
<1>2. CASE c \in CallerCalls
  BY <1>2 DEF CallAssumption
<1>3. CASE c \in ThunkCalls
  BY <1>3 DEF CallAssumption
<1> QED
  BY <1>1, <1>2, <1>3

\* Every step keeps the shape of the state.
LEMMA NextShape == ShapeInv /\ [Next]_vars => ShapeInv'
<1> SUFFICES ASSUME ShapeInv, [Next]_vars PROVE ShapeInv'
  OBVIOUS
<1>1. CASE UNCHANGED vars
  BY <1>1 DEF vars, ShapeInv, PlainInv, PoolInv, TasksInv, WorkerInv, CallInv, Tasks
<1>2. CASE \E p \in Agent : Post(p) \/ Return(p)
  <2>1. PICK p \in Agent : Post(p) \/ Return(p)
    BY <1>2
  <2>2. CASE Post(p)
    <3>1. PICK c \in Calls(p) : PostBackground(p, c) \/ PostSerial(p, c)
      BY <2>2 DEF Post
    <3> QED
      BY <3>1, CallsQueue, PostBackgroundShape, PostSerialShape
  <2>3. CASE Return(p)
    BY <2>3, ScheduleShape, FreedShape DEF Return
  <2> QED
    BY <2>1, <2>2, <2>3
<1>3. CASE \E t \in Thread : Take(t) \/ Stop(t) \/ DrainStep(t) \/ Finish(t)
  BY <1>3, TakeShape, StopShape, DrainStepShape, FinishShape
<1>4. CASE \E p \in Caller : Shutdown(p)
  BY <1>4, ShutdownShape
<1>5. CASE Quiet
  BY <1>1, <1>5 DEF Quiet
<1> QED
  BY <1>1, <1>2, <1>3, <1>4, <1>5 DEF Next

\* Every variable has its type: a pool thread's task is one that was posted, to the queue the
\* thread serves.
THEOREM TypeCorrect == Spec => []TypeOK
<1>1. ShapeInv => TypeOK
  <2> SUFFICES ASSUME ShapeInv PROVE TypeOK
    OBVIOUS
  <2>1. ASSUME NEW w, WorkerIs(w, posted)
        PROVE  w \in [at : {"none", "wait", "drain", "thunk"}, queue : AnyQueue,
                      task : Tasks \cup {NoTask}]
    <3>1. \A i \in Tasks : posted[i] \in AnyQueue
      BY ElementOfSeq DEF ShapeInv, PlainInv, Tasks
    <3> QED
      BY <2>1, <3>1, Records DEF WorkerIs, Ended, Draining, Running, Tasks
  <2>2. ASSUME NEW c, CallIs(c, posted)
        PROVE  c \in [at : {"free", "schedule", "sync", "join"}, queue : AnyQueue,
                      task : Tasks \cup {NoTask}]
    BY <2>2, Records DEF CallIs, Free, InSync, InSchedule, Tasks
  <2>3. PlainInv /\ pool \in Seq(Tasks \cup Queue) /\ tasks \in [Queue -> Seq(Tasks)]
    BY DEF ShapeInv, PoolInv, TasksInv
  <2>4. worker \in [Thread -> [at : {"none", "wait", "drain", "thunk"}, queue : AnyQueue,
                               task : Tasks \cup {NoTask}]]
    <3> DEFINE R == [at : {"none", "wait", "drain", "thunk"}, queue : AnyQueue,
                     task : Tasks \cup {NoTask}]
    <3> HIDE DEF R
    <3>1. worker = [t \in Thread |-> worker[t]] /\ \A t \in Thread : worker[t] \in R
      BY <2>1 DEF ShapeInv, WorkerInv, R
    <3> QED
      BY <3>1 DEF R
  <2>5. call \in [Agent -> [at : {"free", "schedule", "sync", "join"}, queue : AnyQueue,
                            task : Tasks \cup {NoTask}]]
    <3> DEFINE R == [at : {"free", "schedule", "sync", "join"}, queue : AnyQueue,
                     task : Tasks \cup {NoTask}]
    <3> HIDE DEF R
    <3>1. call = [p \in Agent |-> call[p]] /\ \A p \in Agent : call[p] \in R
      BY <2>2 DEF ShapeInv, CallInv, R
    <3> QED
      BY <3>1 DEF R
  <2> QED
    BY <2>3, <2>4, <2>5 DEF ShapeInv, PlainInv, TypeOK
<1> QED
  BY <1>1, InitShape, NextShape, PTL DEF Spec
-----------------------------------------------------------------------------
(***************************************************************************)
(* At most one Drain per queue: one lemma per action                       *)
(***************************************************************************)
\* The first state has no Drain.
LEMMA InitDrain == Init => OneDrain
  BY Records DEF Init, OneDrain, Alone, Apart, Scheduled, Scheduling, Pooled, Serving

\* A step that adds no Drain anywhere keeps what there is.
LEMMA NoNewDrain ==
  ASSUME OneDrain, pool' = pool \/ pool' = <<>>, UNCHANGED drain_scheduled,
         \A p \in Agent, q \in Queue : Scheduling(p, q)' => Scheduling(p, q),
         \A t \in Thread, q \in Queue : Serving(t, q)' => Serving(t, q)
  PROVE  OneDrain'
<1> SUFFICES ASSUME NEW q \in Queue PROVE (Alone(q) /\ Apart(q) /\ Scheduled(q))'
  BY DEF OneDrain
<1>1. Alone(q) /\ Apart(q) /\ Scheduled(q)
  BY DEF OneDrain
<1>2. \A i \in 1 .. Len(pool') : Pooled(i, q)' => i \in 1 .. Len(pool) /\ Pooled(i, q)
  BY DEF Pooled
<1>3. Alone(q)'
  BY <1>1, <1>2 DEF Alone
<1>4. Apart(q)'
  BY <1>1, <1>2 DEF Apart
<1>5. Scheduled(q)'
  BY <1>1, <1>2 DEF Scheduled
<1> QED
  BY <1>3, <1>4, <1>5

\* The threads a post to the pool starts serve nothing yet.
LEMMA PoolPostServing ==
  ASSUME ShapeInv, NEW item, PoolPost(item), NEW t \in Thread, NEW q \in Queue
  PROVE  Serving(t, q)' => Serving(t, q)
<1>1. worker'[t] = worker[t] \/ worker'[t] = Waiting
  BY PoolPostFacts
<1> QED
  BY <1>1, Records DEF Serving

\* A task number in the pool is no Drain.
LEMMA PostBackgroundDrain ==
  ASSUME ShapeInv, OneDrain, NEW p \in Agent, NEW c, PostBackground(p, c)
  PROVE  OneDrain'
<1> SUFFICES ASSUME NEW q \in Queue PROVE (Alone(q) /\ Apart(q) /\ Scheduled(q))'
  BY DEF OneDrain
<1>1. Alone(q) /\ Apart(q) /\ Scheduled(q)
  BY DEF OneDrain
<1>2. PoolPost(Len(posted')) /\ UNCHANGED drain_scheduled
  BY DEF PostBackground
<1>3. \A t \in Thread : Serving(t, q)' => Serving(t, q)
  BY <1>2, PoolPostServing
<1>4. \A r \in Agent : Scheduling(r, q)' => Scheduling(r, q)
  BY Records DEF PostBackground, ShapeInv, CallInv, Scheduling
<1>5. \A i \in 1 .. Len(pool') : Pooled(i, q)' => i \in 1 .. Len(pool) /\ Pooled(i, q)
  <2>1. posted' \in Seq(AnyQueue)
    BY PostedGrows DEF PostBackground
  <2>2. Len(posted') \in Nat
    BY <2>1, LenProperties
  <2>3. Len(posted') \notin Queue
    BY <2>2
  <2>4. pool' = Append(pool, Len(posted')) /\ pool \in Seq(Nat \cup Queue)
    <3>1. pool' = Append(pool, Len(posted')) /\ pool \in Seq(Tasks \cup Queue)
      BY <1>2, PoolPostFacts DEF ShapeInv, PoolInv
    <3>2. Tasks \subseteq Nat
      BY DEF Tasks
    <3> QED
      BY <3>1, <3>2, SeqMonotonic
  <2>5. /\ Len(pool') = Len(pool) + 1 /\ Len(pool) \in Nat
        /\ \A i \in 1 .. Len(pool) : pool'[i] = pool[i]
        /\ pool'[Len(pool) + 1] = Len(posted')
    BY <2>2, <2>4, AppendProperties, LenProperties
  <2> QED
    BY <2>3, <2>5 DEF Pooled
<1>6. Alone(q)'
  BY <1>1, <1>3, <1>4, <1>5 DEF Alone
<1>7. Apart(q)'
  BY <1>1, <1>3, <1>4, <1>5 DEF Apart
<1>8. Scheduled(q)'
  BY <1>1, <1>2, <1>3, <1>4, <1>5 DEF Scheduled
<1> QED
  BY <1>6, <1>7, <1>8

\* A Drain is scheduled only where there is none.
LEMMA PostSerialDrain ==
  ASSUME ShapeInv, OneDrain, NEW p \in Agent, NEW c, c.queue \in AnyQueue, PostSerial(p, c)
  PROVE  OneDrain'
<1>1. /\ CanCall(p) /\ c.queue \in Queue /\ call[p] = Free
      /\ UNCHANGED <<pool, worker>>
  BY DEF PostSerial, CanCall
<1>2. PICK waits \in {Len(posted'), NoTask} :
         call' = [call EXCEPT ![p] = IF drain_scheduled[c.queue] THEN After(waits)
                                                     ELSE InSchedule(c.queue, waits)]
  BY DEF PostSerial
<1>3. drain_scheduled' = [drain_scheduled EXCEPT ![c.queue] = TRUE]
  BY DEF PostSerial
<1>4. call = [r \in Agent |-> call[r]] /\ drain_scheduled \in [Queue -> BOOLEAN]
  BY DEF ShapeInv, CallInv, PlainInv
<1>5. \A r \in Agent, q \in Queue :
          Scheduling(r, q)' => \/ Scheduling(r, q)
                               \/ r = p /\ q = c.queue /\ ~drain_scheduled[q]
  BY <1>1, <1>2, <1>4, Records DEF Scheduling, After
<1>6. \A r \in Agent, q \in Queue : q = c.queue /\ ~drain_scheduled[q] => ~Scheduling(r, q)
  BY <1>1 DEF OneDrain, Scheduled
<1>7. \A t \in Thread, q \in Queue : Serving(t, q)' = Serving(t, q)
  BY <1>1 DEF Serving
<1>8. \A i, q : Pooled(i, q)' = Pooled(i, q)
  BY <1>1 DEF Pooled
<1> SUFFICES ASSUME NEW q \in Queue PROVE (Alone(q) /\ Apart(q) /\ Scheduled(q))'
  BY DEF OneDrain
<1>9. Alone(q) /\ Apart(q) /\ Scheduled(q)
  BY DEF OneDrain
<1>10. Alone(q)'
  BY <1>1, <1>5, <1>6, <1>7, <1>8, <1>9 DEF Alone
<1>11. Apart(q)'
  BY <1>1, <1>5, <1>7, <1>8, <1>9 DEF Apart, Scheduled
<1>12. Scheduled(q)'
  BY <1>1, <1>3, <1>4, <1>5, <1>7, <1>8, <1>9 DEF Scheduled
<1> QED
  BY <1>10, <1>11, <1>12

\* A Drain goes from the call that schedules it to the pool.
LEMMA ScheduleDrain ==
  ASSUME ShapeInv, OneDrain, NEW p \in Agent, Schedule(p)
  PROVE  OneDrain'
<1> DEFINE d == call[p].queue
<1>1. PICK n : call' = [call EXCEPT ![p] = After(n)]
  BY DEF Schedule
<1>2. PoolPost(d) /\ UNCHANGED drain_scheduled /\ Scheduling(p, d) /\ d \in Queue
  <2>1. d \in Queue
    <3>1. PICK q \in Queue, i \in Tasks \cup {NoTask} : call[p] = InSchedule(q, i)
      BY AtSchedule DEF Schedule
    <3> QED
      BY <3>1, Records
  <2> QED
    BY <2>1 DEF Schedule, Scheduling
<1>3. \A t \in Thread, q \in Queue : Serving(t, q)' => Serving(t, q)
  BY <1>2, PoolPostServing
<1>4. \A r \in Agent, q \in Queue : Scheduling(r, q)' => Scheduling(r, q) /\ r # p
  BY <1>1, Records DEF ShapeInv, CallInv, Scheduling, After
<1>5. /\ Len(pool') = Len(pool) + 1 /\ Len(pool) \in Nat
      /\ \A i \in 1 .. Len(pool) : pool'[i] = pool[i]
      /\ pool'[Len(pool) + 1] = d
  <2>1. pool' = Append(pool, d) /\ pool \in Seq(Tasks \cup Queue)
    BY <1>2, PoolPostFacts DEF ShapeInv, PoolInv
  <2> QED
    BY <1>2, <2>1, AppendProperties, LenProperties
<1> HIDE DEF d
<1> SUFFICES ASSUME NEW q \in Queue PROVE (Alone(q) /\ Apart(q) /\ Scheduled(q))'
  BY DEF OneDrain
<1>6. Alone(q) /\ Apart(q) /\ Scheduled(q)
  BY DEF OneDrain
<1>7. \A i \in 1 .. Len(pool') :
          Pooled(i, q)' => \/ i \in 1 .. Len(pool) /\ Pooled(i, q)
                           \/ i = Len(pool) + 1 /\ q = d
  BY <1>5 DEF Pooled
<1>8. CASE q # d
  <2>1. \A i \in 1 .. Len(pool') : Pooled(i, q)' => i \in 1 .. Len(pool) /\ Pooled(i, q)
    BY <1>7, <1>8
  <2>2. Alone(q)'
    BY <1>3, <1>4, <1>6, <2>1 DEF Alone
  <2>3. Apart(q)'
    BY <1>3, <1>4, <1>6, <2>1 DEF Apart
  <2>4. Scheduled(q)'
    BY <1>2, <1>3, <1>4, <1>6, <2>1 DEF Scheduled
  <2> QED
    BY <2>2, <2>3, <2>4
<1>9. CASE q = d
  <2>1. /\ \A r \in Agent : ~Scheduling(r, q)'
        /\ \A t \in Thread : ~Serving(t, q)'
        /\ \A i \in 1 .. Len(pool) : ~Pooled(i, q)
        /\ drain_scheduled'[q]
    BY <1>2, <1>3, <1>4, <1>6, <1>9 DEF Alone, Apart, Scheduled
  <2> QED
    BY <1>7, <1>9, <2>1 DEF Alone, Apart, Scheduled
<1> QED
  BY <1>8, <1>9

\* A Drain goes from the pool to the thread that takes it.
LEMMA TakeDrain ==
  ASSUME ShapeInv, OneDrain, NEW t \in Thread, Take(t)
  PROVE  OneDrain'
<1>1. /\ worker[t] = Waiting /\ pool # <<>> /\ pool' = Tail(pool)
      /\ worker' = [worker EXCEPT ![t] =
                       IF Head(pool) \in Queue THEN Draining(Head(pool))
                                               ELSE Running(Background, Head(pool))]
      /\ UNCHANGED <<drain_scheduled, call>>
  BY DEF Take
<1>2. /\ Head(pool) = pool[1] /\ 1 \in 1 .. Len(pool)
      /\ Len(pool') = Len(pool) - 1 /\ Len(pool) \in Nat
      /\ \A i \in 1 .. Len(pool') : pool'[i] = pool[i + 1]
  <2>1. pool \in Seq(Tasks \cup Queue)
    BY DEF ShapeInv, PoolInv
  <2>2. Len(pool) \in Nat \ {0}
    BY <1>1, <2>1, EmptySeq
  <2> QED
    BY <1>1, <2>1, <2>2, HeadTailProperties
<1> SUFFICES ASSUME NEW q \in Queue PROVE (Alone(q) /\ Apart(q) /\ Scheduled(q))'
  BY DEF OneDrain
<1>3. Alone(q) /\ Apart(q) /\ Scheduled(q)
  BY DEF OneDrain
<1>4. \A r \in Agent : Scheduling(r, q)' => Scheduling(r, q)
  BY <1>1 DEF Scheduling
<1>5. \A i \in 1 .. Len(pool') : Pooled(i, q)' => i + 1 \in 1 .. Len(pool) /\ Pooled(i + 1, q)
  BY <1>2 DEF Pooled
<1>6. \A u \in Thread : Serving(u, q)' => Serving(u, q) \/ (u = t /\ Pooled(1, q))
  <2>1. worker'[t] = Draining(Head(pool)) \/ worker'[t] = Running(Background, Head(pool))
    BY <1>1 DEF ShapeInv, WorkerInv
  <2>2. Serving(t, q)' => Head(pool) = q
    BY <1>1, <2>1, Records DEF Serving, ShapeInv, WorkerInv
  <2>3. \A u \in Thread : u # t => worker'[u] = worker[u]
    BY <1>1 DEF ShapeInv, WorkerInv
  <2> QED
    BY <1>2, <2>2, <2>3 DEF Serving, Pooled
<1>7. CASE Pooled(1, q)
  <2>1. /\ \A r \in Agent : ~Scheduling(r, q)'
        /\ \A u \in Thread : Serving(u, q)' => u = t
        /\ drain_scheduled'[q]
    BY <1>1, <1>2, <1>3, <1>4, <1>6, <1>7 DEF Apart, Scheduled
  <2>2. \A i \in 1 .. Len(pool') : ~Pooled(i, q)'
    <3>1. ASSUME NEW i \in 1 .. Len(pool'), Pooled(i, q)'
          PROVE  FALSE
      <4>1. i + 1 \in 1 .. Len(pool) /\ Pooled(i + 1, q)
        BY <1>5, <3>1
      <4>2. i + 1 = 1
        BY <1>2, <1>3, <1>7, <4>1 DEF Alone
      <4> QED
        BY <1>2, <4>2
    <3> QED
      BY <3>1
  <2> QED
    BY <2>1, <2>2 DEF Alone, Apart, Scheduled
<1>8. CASE ~Pooled(1, q)
  <2>1. \A u \in Thread : Serving(u, q)' => Serving(u, q)
    BY <1>6, <1>8
  <2>2. \A i, j \in 1 .. Len(pool') : Pooled(i, q)' /\ Pooled(j, q)' => i = j
    <3>1. ASSUME NEW i \in 1 .. Len(pool'), NEW j \in 1 .. Len(pool'),
                 Pooled(i, q)', Pooled(j, q)'
          PROVE  i = j
      <4>1. i + 1 = j + 1
        BY <1>3, <1>5, <3>1 DEF Alone
      <4> QED
        BY <1>2, <4>1
    <3> QED
      BY <3>1
  <2>3. Alone(q)'
    BY <1>3, <1>4, <2>1, <2>2 DEF Alone
  <2>4. Apart(q)'
    BY <1>3, <1>4, <1>5, <2>1 DEF Apart
  <2>5. Scheduled(q)'
    BY <1>1, <1>3, <1>4, <1>5, <2>1 DEF Scheduled
  <2> QED
    BY <2>3, <2>4, <2>5
<1> QED
  BY <1>7, <1>8

\* A Drain that ends was the only one of its queue, which may have another from then on.
LEMMA DrainStepDrain ==
  ASSUME ShapeInv, OneDrain, NEW t \in Thread, DrainStep(t)
  PROVE  OneDrain'
<1> DEFINE d == worker[t].queue
<1>1. d \in Queue /\ Serving(t, d) /\ UNCHANGED <<pool, call>>
  BY DrainingQueue DEF DrainStep, Serving
<1>2. CASE tasks[d] = <<>>
  <2>1. /\ worker' = [worker EXCEPT ![t] = Waiting]
        /\ drain_scheduled' = [drain_scheduled EXCEPT ![d] = FALSE]
    BY <1>2 DEF DrainStep
  <2> HIDE DEF d
  <2> SUFFICES ASSUME NEW q \in Queue PROVE (Alone(q) /\ Apart(q) /\ Scheduled(q))'
    BY DEF OneDrain
  <2>2. Alone(q) /\ Apart(q) /\ Scheduled(q)
    BY DEF OneDrain
  <2>3. \A r \in Agent : Scheduling(r, q)' = Scheduling(r, q)
    BY <1>1 DEF Scheduling
  <2>4. \A i : Pooled(i, q)' = Pooled(i, q)
    BY <1>1 DEF Pooled
  <2>5. \A u \in Thread : Serving(u, q)' => Serving(u, q) /\ u # t
    BY <2>1, Records DEF ShapeInv, WorkerInv, Serving
  <2>6. Alone(q)'
    BY <1>1, <2>2, <2>3, <2>4, <2>5 DEF Alone
  <2>7. Apart(q)'
    BY <1>1, <2>2, <2>3, <2>4, <2>5 DEF Apart
  <2>8. Scheduled(q)'
    <3>1. CASE q = d
      BY <1>1, <2>2, <2>3, <2>4, <2>5, <3>1 DEF Alone, Apart, Scheduled
    <3>2. CASE q # d
      <4>1. drain_scheduled'[q] = drain_scheduled[q]
        BY <2>1, <3>2 DEF ShapeInv, PlainInv
      <4> QED
        BY <1>1, <2>2, <2>3, <2>4, <2>5, <4>1 DEF Scheduled
    <3> QED
      BY <3>1, <3>2
  <2> QED
    BY <2>6, <2>7, <2>8
<1>3. CASE tasks[d] # <<>>
  <2>1. /\ worker' = [worker EXCEPT ![t] = Running(d, Head(tasks[d]))]
        /\ UNCHANGED drain_scheduled
    BY <1>3 DEF DrainStep
  <2>2. \A p \in Agent, q \in Queue : Scheduling(p, q)' => Scheduling(p, q)
    BY <1>1 DEF Scheduling
  <2>3. \A u \in Thread, q \in Queue : Serving(u, q)' => Serving(u, q)
    BY <1>1, <2>1, Records DEF ShapeInv, WorkerInv, Serving
  <2> QED
    BY <1>1, <2>1, <2>2, <2>3, NoNewDrain
<1> QED
  BY <1>2, <1>3

\* A thunk that ends leaves its thread where it was: with the Drain it runs for, or with none.
LEMMA FinishDrain ==
  ASSUME ShapeInv, OneDrain, NEW t \in Thread, Finish(t)
  PROVE  OneDrain'
<1>1. UNCHANGED <<pool, drain_scheduled, call>>
  BY DEF Finish
<1>2. worker' = [worker EXCEPT ![t] = IF worker[t].queue = Background
                                      THEN Waiting ELSE Draining(worker[t].queue)]
  BY DEF Finish, ShapeInv, WorkerInv
<1>3. \A u \in Thread, q \in Queue : Serving(u, q)' => Serving(u, q)
  BY <1>2, Records DEF Finish, ShapeInv, WorkerInv, Serving
<1>4. \A p \in Agent, q \in Queue : Scheduling(p, q)' => Scheduling(p, q)
  BY <1>1 DEF Scheduling
<1> QED
  BY <1>1, <1>3, <1>4, NoNewDrain

\* Ended threads and returning calls drain nothing; neither does a pool that is shut down.
LEMMA OtherDrain ==
  ASSUME ShapeInv, OneDrain,
         \/ \E p \in Agent : SyncReturn(p) \/ Joined(p) \/ Shutdown(p)
         \/ \E t \in Thread : Stop(t)
  PROVE  OneDrain'
<1>1. (pool' = pool \/ pool' = <<>>) /\ UNCHANGED drain_scheduled
  BY DEF SyncReturn, Joined, Shutdown, Stop
<1>2. \A p \in Agent, q \in Queue : Scheduling(p, q)' => Scheduling(p, q)
  BY Records DEF SyncReturn, Joined, Shutdown, Stop, ShapeInv, CallInv, Scheduling
<1>3. \A t \in Thread, q \in Queue : Serving(t, q)' => Serving(t, q)
  BY Records DEF SyncReturn, Joined, Shutdown, Stop, ShapeInv, WorkerInv, Serving
<1> QED
  BY <1>1, <1>2, <1>3, NoNewDrain

\* Every step keeps one Drain per queue.
LEMMA NextDrain == ShapeInv /\ OneDrain /\ [Next]_vars => OneDrain'
<1> SUFFICES ASSUME ShapeInv, OneDrain, [Next]_vars PROVE OneDrain'
  OBVIOUS
<1>1. CASE UNCHANGED vars
  BY <1>1, NoNewDrain DEF vars, Scheduling, Serving
<1>2. CASE \E p \in Agent : Post(p) \/ Return(p)
  <2>1. PICK p \in Agent : Post(p) \/ Return(p)
    BY <1>2
  <2>2. CASE Post(p)
    <3>1. PICK c \in Calls(p) : PostBackground(p, c) \/ PostSerial(p, c)
      BY <2>2 DEF Post
    <3> QED
      BY <3>1, CallsQueue, PostBackgroundDrain, PostSerialDrain
  <2>3. CASE Return(p)
    BY <2>3, ScheduleDrain, OtherDrain DEF Return
  <2> QED
    BY <2>1, <2>2, <2>3
<1>3. CASE \E t \in Thread : Take(t) \/ Stop(t) \/ DrainStep(t) \/ Finish(t)
  BY <1>3, TakeDrain, OtherDrain, DrainStepDrain, FinishDrain
<1>4. CASE \E p \in Caller : Shutdown(p)
  BY <1>4, OtherDrain
<1>5. CASE Quiet
  BY <1>1, <1>5 DEF Quiet
<1> QED
  BY <1>1, <1>2, <1>3, <1>4, <1>5 DEF Next

\* A serial queue never has two Drains, whoever posts to it and however often the pool is
\* shut down and started again: drain_scheduled is set under the lock that posts, and
\* cleared only by the Drain that finds the queue empty.
THEOREM OneDrainPerQueue == Spec => []OneDrain
  BY InitShape, NextShape, InitDrain, NextDrain, PTL DEF Spec
-----------------------------------------------------------------------------
(***************************************************************************)
(* Dispatch implements SerialExecutor                                      *)
(***************************************************************************)
\* Current, of any threads.
CurrentIn(w, q) ==
    LET ts == {t \in Thread : w[t].at = "thunk" /\ w[t].queue = q}
    IN  IF ts = {} THEN NoTask ELSE w[CHOOSE t \in ts : TRUE].task

\* The task a queue is running, as a function of the threads.
LEMMA CurrentIsIn == \A q : Current(q) = CurrentIn(worker, q)
  BY DEF Current, CurrentIn

\* The task of the only thread that runs one of the queue.
LEMMA CurrentTask ==
  ASSUME NEW w, NEW q, NEW t \in Thread, w[t].at = "thunk" /\ w[t].queue = q,
         \A u \in Thread : w[u].at = "thunk" /\ w[u].queue = q => u = t
  PROVE  CurrentIn(w, q) = w[t].task
  BY DEF CurrentIn

\* No thread runs a task of the queue.
LEMMA CurrentNone ==
  ASSUME NEW w, NEW q, \A t \in Thread : ~(w[t].at = "thunk" /\ w[t].queue = q)
  PROVE  CurrentIn(w, q) = NoTask
  BY DEF CurrentIn

\* The same threads run the same tasks.
LEMMA CurrentSame ==
  ASSUME NEW w, NEW v, NEW q,
         \A t \in Thread : w[t] = v[t] \/ ~( \/ w[t].at = "thunk" /\ w[t].queue = q
                                             \/ v[t].at = "thunk" /\ v[t].queue = q)
  PROVE  CurrentIn(v, q) = CurrentIn(w, q)
<1> DEFINE ts(x) == {t \in Thread : x[t].at = "thunk" /\ x[t].queue = q}
<1>1. ts(v) = ts(w)
  OBVIOUS
<1>2. \A t \in ts(w) : v[t] = w[t]
  OBVIOUS
<1>3. ts(w) # {} => (CHOOSE t \in ts(w) : TRUE) \in ts(w)
  OBVIOUS
<1>4. CurrentIn(w, q) = IF ts(w) = {} THEN NoTask ELSE w[CHOOSE t \in ts(w) : TRUE].task
  BY DEF CurrentIn
<1>5. CurrentIn(v, q) = IF ts(v) = {} THEN NoTask ELSE v[CHOOSE t \in ts(v) : TRUE].task
  BY DEF CurrentIn
<1> HIDE DEF ts
<1> QED
  BY <1>1, <1>2, <1>3, <1>4, <1>5

\* The refinement mapping.
running == [q \in Queue |-> Current(q)]
finished == {i \in done : posted[i] \in Queue}

\* The running tasks are the same when no thread begins or ends one of a serial queue.
LEMMA RunningKept ==
  ASSUME ShapeInv,
         \A t \in Thread, q \in Queue :
             worker'[t] = worker[t] \/ ~( \/ worker[t].at = "thunk" /\ worker[t].queue = q
                                          \/ worker'[t].at = "thunk" /\ worker'[t].queue = q)
  PROVE  running' = running
<1>1. \A q \in Queue : CurrentIn(worker', q) = CurrentIn(worker, q)
  BY CurrentSame
<1>2. running = [q \in Queue |-> CurrentIn(worker, q)]
  BY DEF running, Current, CurrentIn
<1>3. running' = [q \in Queue |-> CurrentIn(worker', q)]
  BY DEF running, Current, CurrentIn
<1> QED
  BY <1>1, <1>2, <1>3

\* What has run is the same while no task ends, even as tasks are posted.
LEMMA FinishedKept ==
  ASSUME ShapeInv, UNCHANGED done,
         UNCHANGED posted \/ \E q \in AnyQueue : posted' = Append(posted, q)
  PROVE  finished' = finished
<1>1. \A i \in Tasks : posted'[i] = posted[i]
  BY PostedGrows
<1> QED
  BY <1>1 DEF ShapeInv, PlainInv, finished

\* The pool's own steps, and those of its callers, do not show on a serial queue.
LEMMA HiddenSteps ==
  ASSUME ShapeInv,
         \/ \E p \in Agent : Schedule(p) \/ SyncReturn(p) \/ Joined(p) \/ Shutdown(p)
         \/ \E p \in Agent : \E c : PostBackground(p, c)
         \/ \E t \in Thread : Take(t) \/ Stop(t)
  PROVE  UNCHANGED <<tasks, running, finished>>
<1>1. UNCHANGED <<tasks, done>>
  BY DEF Schedule, SyncReturn, Joined, Shutdown, PostBackground, Take, Stop
<1>2. UNCHANGED posted \/ \E q \in AnyQueue : posted' = Append(posted, q)
  BY DEF Schedule, SyncReturn, Joined, Shutdown, PostBackground, Take, Stop
<1>3. ASSUME NEW t \in Thread, NEW q \in Queue
      PROVE  worker'[t] = worker[t] \/ ~( \/ worker[t].at = "thunk" /\ worker[t].queue = q
                                          \/ worker'[t].at = "thunk" /\ worker'[t].queue = q)
  <2>1. CASE \E item : PoolPost(item)
    <3>1. worker'[t] = worker[t] \/ (worker[t] = Ended /\ worker'[t] = Waiting)
      BY <2>1, PoolPostFacts
    <3> QED
      BY <3>1, Records
  <2>2. CASE UNCHANGED worker
    BY <2>2
  <2>3. CASE \E u \in Thread : Take(u) \/ Stop(u)
    <3>1. PICK u \in Thread : Take(u) \/ Stop(u)
      BY <2>3
    <3>2. CASE Take(u)
      <4>1. /\ worker[u] = Waiting
            /\ worker' = [worker EXCEPT ![u] =
                             IF Head(pool) \in Queue THEN Draining(Head(pool))
                                                     ELSE Running(Background, Head(pool))]
        BY <3>2 DEF Take
      <4>2. worker'[u].at = "thunk" => worker'[u].queue = Background
        BY <4>1, Records DEF ShapeInv, WorkerInv
      <4>3. worker[u].at # "thunk"
        BY <4>1, Records
      <4>4. t # u => worker'[t] = worker[t]
        BY <4>1 DEF ShapeInv, WorkerInv
      <4> QED
        BY <4>2, <4>3, <4>4
    <3>3. CASE Stop(u)
      BY <3>3, Records DEF Stop, ShapeInv, WorkerInv
    <3> QED
      BY <3>1, <3>2, <3>3
  <2> QED
    BY <2>1, <2>2, <2>3 DEF Schedule, SyncReturn, Joined, Shutdown, PostBackground
<1>4. running' = running
  BY <1>3, RunningKept
<1>5. finished' = finished
  BY <1>1, <1>2, FinishedKept
<1> QED
  BY <1>1, <1>4, <1>5

\* A post to a serial queue is one of SerialExecutor.
LEMMA PostImplements ==
  ASSUME ShapeInv, NEW p \in Agent, NEW c, c.queue \in AnyQueue, PostSerial(p, c)
  PROVE  Serial!Next
<1>1. /\ c.queue \in Queue /\ posted' = Append(posted, c.queue) /\ Len(posted) < MaxPosts
      /\ tasks' = [tasks EXCEPT ![c.queue] = Append(@, Len(posted'))]
      /\ UNCHANGED <<worker, done>>
  BY DEF PostSerial
<1>2. Len(posted') \in 1 .. MaxPosts
  <2>1. Len(posted) \in Nat /\ Len(posted') = Len(posted) + 1
    BY <1>1, PostedGrows
  <2> QED
    BY <1>1, <2>1, ThreadAssumption
<1>3. running' = running
  BY <1>1, RunningKept
<1>4. finished' = finished
  BY <1>1, FinishedKept
<1>5. Serial!Post(c.queue, Len(posted'))
  BY <1>1, <1>3, <1>4 DEF Serial!Post, running, finished
<1> QED
  BY <1>1, <1>2, <1>5 DEF Serial!Next

\* A Drain that takes a task begins it, and there was none under way; one that ends does not
\* show.
LEMMA DrainImplements ==
  ASSUME ShapeInv, OneDrain, NEW t \in Thread, DrainStep(t)
  PROVE  Serial!Next \/ UNCHANGED <<tasks, running, finished>>
<1> DEFINE q == worker[t].queue
<1>1. /\ q \in Queue /\ Serving(t, q) /\ worker[t].at = "drain"
      /\ UNCHANGED <<done, posted>>
  BY DrainingQueue DEF DrainStep, Serving
<1>2. finished' = finished
  BY <1>1, FinishedKept
<1>3. CASE tasks[q] = <<>>
  <2>1. worker' = [worker EXCEPT ![t] = Waiting] /\ tasks' = tasks
    BY <1>3 DEF DrainStep
  <2>2. \A u \in Thread : worker'[u] = worker[u] \/ (u = t /\ worker'[u].at = "wait")
    BY <2>1, Records DEF ShapeInv, WorkerInv
  <2>3. running' = running
    BY <1>1, <2>2, RunningKept
  <2> QED
    BY <1>2, <2>1, <2>3
<1>4. CASE tasks[q] # <<>>
  <2>1. /\ worker' = [worker EXCEPT ![t] = Running(q, Head(tasks[q]))]
        /\ tasks' = [tasks EXCEPT ![q] = Tail(@)]
    BY <1>4 DEF DrainStep
  <2>2. \A u \in Thread : Serving(u, q) => u = t
    BY <1>1 DEF OneDrain, Alone
  <2>3. CurrentIn(worker, q) = NoTask
    <3>1. \A u \in Thread : ~(worker[u].at = "thunk" /\ worker[u].queue = q)
      BY <1>1, <2>2 DEF Serving
    <3> QED
      BY <3>1, CurrentNone
  <2>4. worker'[t] = Running(q, Head(tasks[q])) /\ \A u \in Thread : u # t => worker'[u] = worker[u]
    BY <2>1 DEF ShapeInv, WorkerInv
  <2>5. CurrentIn(worker', q) = Head(tasks[q])
    <3>1. worker'[t].at = "thunk" /\ worker'[t].queue = q /\ worker'[t].task = Head(tasks[q])
      BY <2>4, Records
    <3>2. \A u \in Thread : worker'[u].at = "thunk" /\ worker'[u].queue = q => u = t
      BY <2>2, <2>4 DEF Serving
    <3> QED
      BY <3>1, <3>2, CurrentTask
  <2>6. \A o \in Queue : o # q => CurrentIn(worker', o) = CurrentIn(worker, o)
    <3>1. ASSUME NEW o \in Queue, o # q
          PROVE  CurrentIn(worker', o) = CurrentIn(worker, o)
      <4>1. \A u \in Thread :
                worker'[u] = worker[u] \/ ~( \/ worker[u].at = "thunk" /\ worker[u].queue = o
                                             \/ worker'[u].at = "thunk" /\ worker'[u].queue = o)
        BY <1>1, <2>4, <3>1, Records
      <4> QED
        BY <4>1, CurrentSame
    <3> QED
      BY <3>1
  <2>7. running = [o \in Queue |-> CurrentIn(worker, o)]
    BY DEF running, Current, CurrentIn
  <2>8. running' = [o \in Queue |-> CurrentIn(worker', o)]
    BY DEF running, Current, CurrentIn
  <2> HIDE DEF q
  <2>9. running[q] = NoTask /\ running' = [running EXCEPT ![q] = Head(tasks[q])]
    BY <1>1, <2>3, <2>5, <2>6, <2>7, <2>8
  <2>10. Serial!Begin(q)
    BY <1>2, <1>4, <2>1, <2>9 DEF Serial!Begin, running, finished
  <2> QED
    BY <1>1, <2>10 DEF Serial!Next
<1> QED
  BY <1>3, <1>4

\* A thunk of a serial queue ends the task under way there; one of the Background queue does
\* not show.
LEMMA FinishImplements ==
  ASSUME ShapeInv, OneDrain, NEW t \in Thread, Finish(t)
  PROVE  Serial!Next \/ UNCHANGED <<tasks, running, finished>>
<1> DEFINE q == worker[t].queue
<1>1. /\ worker[t].at = "thunk"
      /\ done' = done \cup {worker[t].task}
      /\ UNCHANGED <<tasks, posted>>
  BY DEF Finish
<1>2. worker' = [worker EXCEPT ![t] = IF q = Background THEN Waiting ELSE Draining(q)]
  BY DEF Finish, ShapeInv, WorkerInv
<1>3. /\ worker'[t].at # "thunk"
      /\ \A u \in Thread : u # t => worker'[u] = worker[u]
  BY <1>2, Records DEF ShapeInv, WorkerInv
<1>4. worker[t].task \in Tasks /\ posted[worker[t].task] = q /\ q \in AnyQueue
  <2>1. PICK i \in Tasks : worker[t] = Running(posted[i], i)
    BY <1>1, Records DEF ShapeInv, WorkerInv, WorkerIs, Tasks
  <2>2. posted[i] \in AnyQueue
    BY ElementOfSeq DEF ShapeInv, PlainInv, Tasks
  <2> QED
    BY <2>1, <2>2, Records
<1>5. CASE q = Background
  <2>1. finished' = finished
    BY <1>1, <1>4, <1>5 DEF finished
  <2>2. running' = running
    <3>1. \A u \in Thread, o \in Queue :
              worker'[u] = worker[u] \/ ~( \/ worker[u].at = "thunk" /\ worker[u].queue = o
                                           \/ worker'[u].at = "thunk" /\ worker'[u].queue = o)
      BY <1>3, <1>5
    <3> QED
      BY <3>1, RunningKept
  <2> QED
    BY <1>1, <2>1, <2>2
<1>6. CASE q \in Queue
  <2>1. \A u \in Thread : Serving(u, q) => u = t
    BY <1>1, <1>6 DEF OneDrain, Alone, Serving
  <2>2. CurrentIn(worker, q) = worker[t].task
    <3>1. \A u \in Thread : worker[u].at = "thunk" /\ worker[u].queue = q => u = t
      BY <2>1 DEF Serving
    <3> QED
      BY <1>1, <3>1, CurrentTask
  <2>3. CurrentIn(worker', q) = NoTask
    <3>1. \A u \in Thread : ~(worker'[u].at = "thunk" /\ worker'[u].queue = q)
      BY <1>3, <2>1 DEF Serving
    <3> QED
      BY <3>1, CurrentNone
  <2>4. \A o \in Queue : o # q => CurrentIn(worker', o) = CurrentIn(worker, o)
    <3>1. ASSUME NEW o \in Queue, o # q
          PROVE  CurrentIn(worker', o) = CurrentIn(worker, o)
      <4>1. \A u \in Thread :
                worker'[u] = worker[u] \/ ~( \/ worker[u].at = "thunk" /\ worker[u].queue = o
                                             \/ worker'[u].at = "thunk" /\ worker'[u].queue = o)
        BY <1>3, <3>1
      <4> QED
        BY <4>1, CurrentSame
    <3> QED
      BY <3>1
  <2>5. running = [o \in Queue |-> CurrentIn(worker, o)]
    BY DEF running, Current, CurrentIn
  <2>6. running' = [o \in Queue |-> CurrentIn(worker', o)]
    BY DEF running, Current, CurrentIn
  <2>7. finished' = finished \cup {worker[t].task}
    BY <1>1, <1>4, <1>6 DEF finished
  <2>8. running[q] # NoTask
    BY <1>4, <1>6, <2>2, <2>5 DEF Tasks
  <2> HIDE DEF q
  <2>9. running' = [running EXCEPT ![q] = NoTask] /\ finished' = finished \cup {running[q]}
    BY <1>6, <2>2, <2>3, <2>4, <2>5, <2>6, <2>7
  <2>10. Serial!End(q)
    BY <1>1, <2>8, <2>9 DEF Serial!End, running, finished
  <2> QED
    BY <1>6, <2>10 DEF Serial!Next, Serial!End
<1> QED
  BY <1>4, <1>5, <1>6

\* Every step of the executors is a step of the serial queues, or does not show on them.
LEMMA NextImplements ==
  ShapeInv /\ OneDrain /\ [Next]_vars => Serial!Next \/ UNCHANGED <<tasks, running, finished>>
<1> SUFFICES ASSUME ShapeInv, OneDrain, [Next]_vars
             PROVE  Serial!Next \/ UNCHANGED <<tasks, running, finished>>
  OBVIOUS
<1>1. CASE UNCHANGED vars
  BY <1>1 DEF vars, running, finished, Current
<1>2. CASE \E p \in Agent : Post(p) \/ Return(p)
  <2>1. PICK p \in Agent : Post(p) \/ Return(p)
    BY <1>2
  <2>2. CASE Post(p)
    <3>1. PICK c \in Calls(p) : PostBackground(p, c) \/ PostSerial(p, c)
      BY <2>2 DEF Post
    <3>2. CASE PostBackground(p, c)
      BY <3>2, HiddenSteps
    <3>3. CASE PostSerial(p, c)
      BY <3>3, CallsQueue, PostImplements
    <3> QED
      BY <3>1, <3>2, <3>3
  <2>3. CASE Return(p)
    BY <2>3, HiddenSteps DEF Return
  <2> QED
    BY <2>1, <2>2, <2>3
<1>3. CASE \E t \in Thread : Take(t) \/ Stop(t) \/ DrainStep(t) \/ Finish(t)
  BY <1>3, HiddenSteps, DrainImplements, FinishImplements
<1>4. CASE \E p \in Caller : Shutdown(p)
  BY <1>4, HiddenSteps
<1>5. CASE Quiet
  BY <1>1, <1>5 DEF Quiet
<1> QED
  BY <1>1, <1>2, <1>3, <1>4, <1>5 DEF Next

\* Whatever the pool's threads do, shut down and restarted or not, each serial queue runs its
\* tasks one at a time, in the order of the posts.
THEOREM SerialOrder == Spec => ImplementsSerial
<1>1. Init => Serial!Init
  <2> SUFFICES ASSUME Init PROVE Serial!Init
    OBVIOUS
  <2>1. \A q \in Queue : CurrentIn(worker, q) = NoTask
    BY Records, CurrentNone DEF Init
  <2>2. running = [q \in Queue |-> NoTask]
    <3>1. running = [q \in Queue |-> CurrentIn(worker, q)]
      BY DEF running, Current, CurrentIn
    <3> QED
      BY <2>1, <3>1
  <2> QED
    BY <2>2 DEF Init, Serial!Init, running
<1>2. ShapeInv /\ OneDrain /\ [Next]_vars => [Serial!Next]_(Serial!vars)
  BY NextImplements DEF Serial!vars, running, finished
<1> QED
  BY <1>1, <1>2, InitShape, NextShape, InitDrain, NextDrain, PTL
     DEF Spec, ImplementsSerial, Serial!Spec
=============================================================================
