----------------------- MODULE AudioBlockCacheProofs -----------------------
(***************************************************************************)
(* What the audio block caches promise for every source, resolution,       *)
(* budget and number of calls: the blocks they hold are exact, a range     *)
(* that counts as active has somebody to build it, and the cache keeps to  *)
(* its budget.                                                             *)
(***************************************************************************)
EXTENDS AudioBlockCache, FiniteSetTheorems, FunctionTheorems, SequenceTheorems, TLAPS

\* The fields of the worker, which the steps update in part.
WorkerShape == DOMAIN worker = {"at", "stop", "generation", "range", "todo", "built"}

\* A window that may be moved on holds the samples of its own block.
WindowIsExact == window.valid => window.holds = <<config, window.index>>

\* A block the worker has built and not stored yet is that of the settings of now.
BuiltIsExact ==
  worker.at \in {"publish", "store"} => worker.built = <<config, Head(worker.todo)>>

ExactInv == WorkerShape /\ BlocksAreExact /\ WindowIsExact /\ BuiltIsExact

\* A cache all of whose blocks are exact under the settings c.
Exact(k, c) == \A i \in DOMAIN k.blocks : k.blocks[i] = <<c, i>>

------------------------------------------------------------------------------
(* The operations on a cache keep it exact. *)

\* A touch changes the heap alone.
LEMMA TouchExact ==
  ASSUME NEW k, NEW i, Exact(k, config)
  PROVE  Exact(Touch(k, i), config)
  BY DEF Touch, CompactTouchHeap, Exact

\* An exact block may be added.
LEMMA InsertExact ==
  ASSUME NEW k, NEW i, Exact(k, config)
  PROVE  Exact(Insert(k, i, <<config, i>>), config)
  BY DEF Insert, Exact

\* Eviction takes blocks away.
LEMMA TrimExact ==
  ASSUME NEW k, NEW budget, Exact(k, config)
  PROVE  Exact(Trim(k, budget), config)
<1>1. \E gone, s, n :
        Trim(k, budget) = [blocks |-> [i \in DOMAIN k.blocks \ gone |-> k.blocks[i]],
                           touches |-> s, bytes |-> n]
  BY DEF Trim
<1> QED
  BY <1>1 DEF Exact

\* Storing a block of the configuration of now under its own place keeps the cache exact.
LEMMA StoreExact ==
  ASSUME NEW i, Exact(cache, config), StoreBlock(i, <<config, i>>)
  PROVE  Exact(cache', config)
<1>1. Exact(Insert(cache, i, <<config, i>>), config)
  BY InsertExact
<1>2. Exact(Touch(Insert(cache, i, <<config, i>>), i), config)
  BY <1>1, TouchExact
<1> QED
  BY <1>2, TrimExact DEF StoreBlock

------------------------------------------------------------------------------
(* Every step keeps the blocks exact. *)

\* An empty cache is exact.
LEMMA ExactInit == Init => ExactInv
  BY DEF Init, ExactInv, WorkerShape, BlocksAreExact, WindowIsExact, BuiltIsExact,
         EmptyCache, NoWorker

\* A finished read gives the samples of the block that was asked for.
LEMMA BuildExact ==
  ASSUME WindowIsExact, NEW i, NEW content, BuildBlock(i, content), UNCHANGED config
  PROVE  content = <<config, i>> /\ WindowIsExact'
  BY DEF WindowIsExact, BuildBlock, WindowFor

\* A read that fails keeps what is known of the window.
LEMMA FailExact ==
  ASSUME WindowIsExact, BuildFails, UNCHANGED config
  PROVE  WindowIsExact'
  BY DEF WindowIsExact, BuildFails

\* The end of a range or of a block leaves the worker with nothing built.
LEMMA RestExact ==
  ASSUME WorkerShape, EndRange \/ NextBlock
  PROVE  WorkerShape' /\ BuiltIsExact'
<1>1. CASE EndRange
  <2>1. worker'.at = "finish"
    BY <1>1 DEF EndRange, WorkerShape
  <2>2. WorkerShape'
    BY <1>1 DEF EndRange, WorkerShape
  <2> QED
    BY <2>1, <2>2 DEF BuiltIsExact
<1>2. CASE NextBlock
  <2>1. worker'.at = "block"
    BY <1>2 DEF NextBlock, WorkerShape
  <2>2. WorkerShape'
    BY <1>2 DEF NextBlock, WorkerShape
  <2> QED
    BY <2>1, <2>2 DEF BuiltIsExact
<1> QED
  BY <1>1, <1>2

\* The calls leave the settings alone and store nothing.
LEMMA CallExact ==
  ASSUME ExactInv, Call
  PROVE  ExactInv'
<1> USE DEF ExactInv, BlocksAreExact, Exact
<1>1. ASSUME NEW i \in Indexes, Get(i) PROVE ExactInv'
  <2>1. Exact(cache', config)
    BY <1>1, TouchExact DEF Get
  <2> QED
    BY <1>1, <2>1 DEF Get, settings, WindowIsExact, BuiltIsExact, WorkerShape
<1>2. ASSUME NEW first \in Indexes, NEW last \in Indexes, Prefetch(first, last)
      PROVE  ExactInv'
  <2>1. worker' = worker \/ worker' = [NoWorker EXCEPT !.at = "wait"]
    BY <1>2 DEF Prefetch
  <2>2. WorkerShape' /\ BuiltIsExact'
    <3>1. CASE worker' = worker
      BY <3>1, <1>2 DEF Prefetch, settings, BuiltIsExact, WorkerShape
    <3>2. CASE worker' = [NoWorker EXCEPT !.at = "wait"]
      BY <3>2 DEF NoWorker, BuiltIsExact, WorkerShape
    <3> QED
      BY <2>1, <3>1, <3>2
  <2> QED
    BY <1>2, <2>2 DEF Prefetch, settings, WindowIsExact
<1>3. ASSUME NEW then, NEW c, StopScheduler(then, c),
             UNCHANGED <<config, cache, window>>
      PROVE  ExactInv'
  <2>1. WorkerShape' /\ worker'.at = worker.at /\ worker'.built = worker.built
        /\ worker'.todo = worker.todo
    BY <1>3 DEF StopScheduler, WorkerShape
  <2> QED
    BY <1>3, <2>1 DEF WindowIsExact, BuiltIsExact
<1>4. ASSUME NEW n \in Budgets, Age(n) PROVE ExactInv'
  <2>1. Exact(cache', config)
    BY <1>4, TrimExact DEF Age
  <2> QED
    BY <1>4, <2>1 DEF Age, WindowIsExact, BuiltIsExact, WorkerShape
<1>5. CASE EnablePrefetch
  BY <1>5 DEF EnablePrefetch, WindowIsExact, BuiltIsExact, WorkerShape
<1> QED
  BY <1>1, <1>2, <1>3, <1>4, <1>5
  DEF Call, Reconfigure, Drop, DisablePrefetch, settings

\* Inside a call the owner stores what it built, or changes what a block is when no
\* worker is left and nothing is cached any more.
LEMMA OwnerExact ==
  ASSUME ExactInv, OwnerStep
  PROVE  ExactInv'
<1> USE DEF ExactInv, BlocksAreExact, Exact
<1>1. CASE GetTriesLock \/ GetAnnouncesWait \/ GetAcquires
  BY <1>1 DEF GetTriesLock, GetAnnouncesWait, GetAcquires, settings, WindowIsExact,
              BuiltIsExact, WorkerShape
<1>2. CASE GetBuilds
  <2>1. UNCHANGED <<config, worker>>
    BY <1>2 DEF GetBuilds, settings
  <2>2. Exact(cache', config) /\ WindowIsExact'
    <3>1. CASE cache' = Touch(cache, owner.block) /\ UNCHANGED window
      BY <2>1, <3>1, TouchExact DEF WindowIsExact
    <3>2. ASSUME NEW content, BuildBlock(owner.block, content),
                 StoreBlock(owner.block, content)
          PROVE  Exact(cache', config) /\ WindowIsExact'
      <4>1. content = <<config, owner.block>> /\ WindowIsExact'
        BY <2>1, <3>2, BuildExact
      <4> QED
        BY <3>2, <4>1, StoreExact
    <3>3. CASE BuildFails /\ UNCHANGED cache
      BY <2>1, <3>3, FailExact
    <3> QED
      BY <1>2, <3>1, <3>2, <3>3 DEF GetBuilds
  <2> QED
    BY <2>1, <2>2 DEF BuiltIsExact, WorkerShape
<1>3. CASE AfterJoin
  <2>1. worker.at = "none" /\ worker' = worker
    BY <1>3 DEF AfterJoin
  <2>2. WorkerShape' /\ BuiltIsExact'
    BY <2>1 DEF WorkerShape, BuiltIsExact
  <2>3. CASE ClearLocked
    BY <2>2, <2>3 DEF ClearLocked, EmptyCache, WindowIsExact
  <2>4. CASE UNCHANGED <<config, cache, window>>
    BY <2>2, <2>4 DEF WindowIsExact
  <2> QED
    BY <1>3, <2>3, <2>4 DEF AfterJoin, RecreateCache
<1> QED
  BY <1>1, <1>2, <1>3 DEF OwnerStep

\* Every step of the worker keeps the blocks exact.
LEMMA WorkerExact ==
  ASSUME ExactInv, WorkerStep
  PROVE  ExactInv'
<1> USE DEF ExactInv, BlocksAreExact, Exact
<1>0. UNCHANGED config
  BY DEF WorkerStep, WorkerStops, WorkerTakes, WorkerChecks, WorkerTriesLock,
         WorkerChecksAgain, WorkerBuilds, WorkerDecides, WorkerStores, WorkerFinishes,
         settings
<1>1. CASE WorkerStops \/ WorkerFinishes
  <2>1. UNCHANGED <<cache, window>>
    BY <1>1 DEF WorkerStops, WorkerFinishes
  <2>2. WorkerShape' /\ worker'.at \in {"none", "wait"}
    <3>1. CASE WorkerStops
      BY <3>1 DEF WorkerStops, NoWorker, WorkerShape
    <3>2. CASE WorkerFinishes
      <4>1. DOMAIN NoWorker = DOMAIN worker
        BY DEF NoWorker, WorkerShape
      <4>2. worker' = [NoWorker EXCEPT !.at = "wait", !.stop = worker.stop]
        BY <3>2 DEF WorkerFinishes
      <4> HIDE DEF NoWorker
      <4> QED
        BY <4>1, <4>2 DEF WorkerShape
    <3> QED
      BY <1>1, <3>1, <3>2
  <2> QED
    BY <1>0, <2>1, <2>2 DEF WindowIsExact, BuiltIsExact
<1>2. CASE WorkerTakes
  <2>1. WorkerShape' /\ worker'.at = "block"
    BY <1>2 DEF WorkerTakes, WorkerShape
  <2> QED
    BY <1>0, <1>2, <2>1 DEF WorkerTakes, WindowIsExact, BuiltIsExact
<1>3. CASE WorkerChecks \/ WorkerTriesLock \/ WorkerChecksAgain
  <2>1. UNCHANGED <<cache, window>>
    BY <1>3 DEF WorkerChecks, WorkerTriesLock, WorkerChecksAgain
  <2>2. \/ EndRange \/ NextBlock
        \/ \E at \in {"lock", "locked", "build"} : worker' = [worker EXCEPT !.at = at]
    BY <1>3 DEF WorkerChecks, WorkerTriesLock, WorkerChecksAgain
  <2>3. WorkerShape' /\ BuiltIsExact'
    <3>1. CASE EndRange \/ NextBlock
      BY <3>1, RestExact
    <3>2. ASSUME NEW at \in {"lock", "locked", "build"}, worker' = [worker EXCEPT !.at = at]
          PROVE  WorkerShape' /\ BuiltIsExact'
      <4>1. WorkerShape' /\ worker'.at = at
        BY <3>2 DEF WorkerShape
      <4> QED
        BY <3>2, <4>1 DEF BuiltIsExact
    <3> QED
      BY <2>2, <3>1, <3>2
  <2> QED
    BY <1>0, <2>1, <2>3 DEF WindowIsExact
<1>4. CASE WorkerBuilds
  <2>1. UNCHANGED cache
    BY <1>4 DEF WorkerBuilds
  <2>2. ASSUME NEW content, BuildBlock(Head(worker.todo), content),
               worker' = [worker EXCEPT !.at = "publish", !.built = content]
        PROVE  ExactInv'
    <3>1. content = <<config, Head(worker.todo)>> /\ WindowIsExact'
      BY <1>0, <2>2, BuildExact
    <3>2. WorkerShape' /\ worker'.built = content /\ worker'.todo = worker.todo
      BY <2>2 DEF WorkerShape
    <3> QED
      BY <1>0, <2>1, <3>1, <3>2 DEF BuiltIsExact
  <2>3. CASE EndRange /\ (BuildFails \/ UNCHANGED window)
    <3>1. WindowIsExact'
      BY <1>0, <2>3, FailExact DEF WindowIsExact
    <3> QED
      BY <1>0, <2>1, <2>3, <3>1, RestExact
  <2> QED
    BY <1>4, <2>2, <2>3 DEF WorkerBuilds
<1>5. CASE WorkerDecides \/ WorkerStores
  <2>1. UNCHANGED window
    BY <1>5 DEF WorkerDecides, WorkerStores
  <2>2. CASE worker' = [worker EXCEPT !.at = "store"] /\ worker.at = "publish"
             /\ UNCHANGED cache
    <3>1. WorkerShape' /\ worker'.built = worker.built /\ worker'.todo = worker.todo
      BY <2>2 DEF WorkerShape
    <3> QED
      BY <1>0, <2>1, <2>2, <3>1 DEF WindowIsExact, BuiltIsExact
  <2>3. CASE /\ worker.at \in {"publish", "store"}
             /\ EndRange \/ NextBlock
             /\ UNCHANGED cache \/ StoreBlock(Head(worker.todo), worker.built)
    <3>1. Exact(cache', config)
      BY <2>3, StoreExact DEF BuiltIsExact
    <3> QED
      BY <1>0, <2>1, <2>3, <3>1, RestExact DEF WindowIsExact
  <2> QED
    BY <1>5, <2>2, <2>3 DEF WorkerDecides, WorkerStores
<1> QED
  BY <1>1, <1>2, <1>3, <1>4, <1>5 DEF WorkerStep

\* Every block in the cache is that of its index under the settings of now, for every
\* source, resolution and budget, however calls, prefetches and failed reads interleave.
THEOREM ExactBlocks == Spec => []BlocksAreExact
<1>1. ExactInv /\ [Next]_vars => ExactInv'
  <2>1. CASE UNCHANGED vars
    BY <2>1 DEF vars, ExactInv, WorkerShape, BlocksAreExact, WindowIsExact, BuiltIsExact
  <2> QED
    BY <2>1, CallExact, OwnerExact, WorkerExact DEF Next
<1>2. ExactInv => BlocksAreExact
  BY DEF ExactInv
<1> QED
  BY ExactInit, <1>1, <1>2, PTL DEF Spec

------------------------------------------------------------------------------
(* Every active range has a taker. *)

\* The active generation tells whether there is a range, and the scheduler counts.
TakerInv ==
  /\ WorkerShape
  /\ DOMAIN scheduler = {"exists", "has_request", "range", "generation"}
  /\ scheduler.generation \in Nat
  /\ active_range # None => active_generation # 0
  /\ RangeHasTaker

\* The worker stays on the range it is on, if any.
SameRange ==
  /\ worker'.range = worker.range /\ worker'.generation = worker.generation
  /\ worker'.at \in {"none", "wait"} <=> worker.at \in {"none", "wait"}

\* At the start no range is active.
LEMMA TakerInit == Init => TakerInv
  BY DEF Init, TakerInv, WorkerShape, RangeHasTaker, NoWorker, NoScheduler

\* A step that leaves the prefetch state alone, and the worker on its range, keeps it.
LEMMA TakerKept ==
  ASSUME TakerInv, UNCHANGED prefetching, WorkerShape', SameRange
  PROVE  TakerInv'
  BY DEF TakerInv, RangeHasTaker, prefetching, SameRange

\* A step inside a range.
LEMMA TakerWithin ==
  ASSUME TakerInv, UNCHANGED prefetching, worker.at \notin {"none", "wait"},
         \/ EndRange \/ NextBlock
         \/ \E at \in {"lock", "locked", "build", "store"} :
              worker' = [worker EXCEPT !.at = at]
         \/ \E content : worker' = [worker EXCEPT !.at = "publish", !.built = content]
  PROVE  TakerInv'
<1>1. WorkerShape' /\ SameRange
  <2> USE DEF TakerInv, WorkerShape, SameRange
  <2>1. CASE EndRange
    <3>1. worker'.at = "finish"
      BY <2>1 DEF EndRange
    <3>2. worker'.range = worker.range
      BY <2>1 DEF EndRange
    <3>3. worker'.generation = worker.generation
      BY <2>1 DEF EndRange
    <3>4. WorkerShape'
      BY <2>1 DEF EndRange
    <3> QED
      BY <3>1, <3>2, <3>3, <3>4
  <2>2. CASE NextBlock
    <3>1. worker'.at = "block"
      BY <2>2 DEF NextBlock
    <3>2. worker'.range = worker.range
      BY <2>2 DEF NextBlock
    <3>3. worker'.generation = worker.generation
      BY <2>2 DEF NextBlock
    <3>4. WorkerShape'
      BY <2>2 DEF NextBlock
    <3> QED
      BY <3>1, <3>2, <3>3, <3>4
  <2>3. ASSUME NEW at \in {"lock", "locked", "build", "store"},
               worker' = [worker EXCEPT !.at = at]
        PROVE  WorkerShape' /\ SameRange
    <3>1. worker'.at = at /\ worker'.range = worker.range
          /\ worker'.generation = worker.generation /\ WorkerShape'
      BY <2>3
    <3> QED
      BY <3>1
  <2>4. ASSUME NEW content, worker' = [worker EXCEPT !.at = "publish", !.built = content]
        PROVE  WorkerShape' /\ SameRange
    <3>1. worker'.at = "publish" /\ worker'.range = worker.range
          /\ worker'.generation = worker.generation /\ WorkerShape'
      BY <2>4
    <3> QED
      BY <3>1
  <2> QED
    BY <2>1, <2>2, <2>3, <2>4
<1> QED
  BY <1>1, TakerKept

\* A call of the owner gives the range it activates to the scheduler, or deactivates it.
LEMMA TakerCall ==
  ASSUME TakerInv, Call
  PROVE  TakerInv'
<1>1. CASE UNCHANGED <<prefetching, worker>>
  BY <1>1, TakerKept DEF TakerInv, WorkerShape, SameRange
<1>2. ASSUME NEW then, NEW c, StopScheduler(then, c)
      PROVE  TakerInv'
  <2>1. WorkerShape'
    BY <1>2 DEF StopScheduler, TakerInv, WorkerShape
  <2> QED
    BY <1>2, <2>1 DEF StopScheduler, TakerInv, RangeHasTaker, NoScheduler
<1>3. ASSUME NEW first \in Indexes, NEW last \in Indexes, Prefetch(first, last),
             ~UNCHANGED <<prefetching, worker>>
      PROVE  TakerInv'
  <2> DEFINE end == Min({last, block_count - 1})
  <2>1. /\ scheduler' = [exists |-> TRUE, has_request |-> TRUE, range |-> <<first, end>>,
                         generation |-> scheduler.generation + 1]
        /\ active_generation' = scheduler.generation + 1
        /\ active_range' = <<first, end>>
        /\ worker' = worker \/ worker' = [NoWorker EXCEPT !.at = "wait"]
    BY <1>3 DEF Prefetch
  <2> HIDE DEF end
  <2>2. WorkerShape'
    BY <2>1 DEF TakerInv, WorkerShape, NoWorker
  <2> QED
    BY <2>1, <2>2 DEF TakerInv, RangeHasTaker
<1>4. ASSUME NEW i \in Indexes, Get(i) PROVE UNCHANGED <<prefetching, worker>>
  BY <1>4 DEF Get
<1>5. ASSUME NEW n \in Budgets, Age(n) PROVE UNCHANGED <<prefetching, worker>>
  BY <1>5 DEF Age
<1>6. CASE EnablePrefetch
  BY <1>1, <1>6 DEF EnablePrefetch
<1> QED
  BY <1>1, <1>2, <1>3, <1>4, <1>5, <1>6 DEF Call, Reconfigure, Drop, DisablePrefetch

\* Every step of the owner keeps a taker for the active range.
LEMMA TakerOwner ==
  ASSUME TakerInv, OwnerStep
  PROVE  TakerInv'
<1>1. UNCHANGED <<prefetching, worker>>
  BY DEF OwnerStep, GetTriesLock, GetAnnouncesWait, GetAcquires, GetBuilds, AfterJoin
<1> QED
  BY <1>1, TakerKept DEF TakerInv, WorkerShape, SameRange

\* Every step of the worker keeps a taker for the active range, or ends the range.
LEMMA TakerWorker ==
  ASSUME TakerInv, WorkerStep
  PROVE  TakerInv'
<1>1. CASE WorkerStops
  <2>1. WorkerShape'
    BY <1>1 DEF WorkerStops, WorkerShape, NoWorker
  <2> QED
    BY <1>1, <2>1 DEF WorkerStops, TakerInv, RangeHasTaker, prefetching, NoWorker
<1>2. CASE WorkerTakes
  <2>1. /\ WorkerShape' /\ worker'.at = "block"
        /\ worker'.generation = scheduler.generation /\ worker'.range = scheduler.range
    BY <1>2 DEF WorkerTakes, TakerInv, WorkerShape
  <2>2. /\ DOMAIN scheduler' = DOMAIN scheduler
        /\ scheduler'.generation = scheduler.generation
    BY <1>2 DEF WorkerTakes, TakerInv
  <2> QED
    BY <1>2, <2>1, <2>2 DEF WorkerTakes, TakerInv, RangeHasTaker
<1>3. CASE WorkerChecks
  BY <1>3, TakerWithin DEF WorkerChecks
<1>4. CASE WorkerTriesLock
  BY <1>4, TakerWithin DEF WorkerTriesLock
<1>5. CASE WorkerChecksAgain
  BY <1>5, TakerWithin DEF WorkerChecksAgain
<1>6. CASE WorkerBuilds
  BY <1>6, TakerWithin DEF WorkerBuilds
<1>7. CASE WorkerDecides \/ WorkerStores
  BY <1>7, TakerWithin DEF WorkerDecides, WorkerStores
<1>8. CASE WorkerFinishes
  <2>1. WorkerShape'
    <3>1. DOMAIN NoWorker = {"at", "stop", "generation", "range", "todo", "built"}
      BY DEF NoWorker
    <3>2. worker' = [NoWorker EXCEPT !.at = "wait", !.stop = worker.stop]
      BY <1>8 DEF WorkerFinishes
    <3> QED
      BY <3>1, <3>2 DEF WorkerShape
  <2>2. CASE IsCurrent(worker.generation)
    BY <1>8, <2>1, <2>2 DEF WorkerFinishes, TakerInv, RangeHasTaker
  <2>3. CASE ~IsCurrent(worker.generation)
    <3>1. UNCHANGED <<scheduler, active_generation, active_range>>
      BY <1>8, <2>3 DEF WorkerFinishes
    <3>2. active_range # None => worker.generation # active_generation
      BY <2>3 DEF IsCurrent, TakerInv
    <3> QED
      BY <2>1, <3>1, <3>2 DEF TakerInv, RangeHasTaker
  <2> QED
    BY <2>2, <2>3
<1> QED
  BY <1>1, <1>2, <1>3, <1>4, <1>5, <1>6, <1>7, <1>8 DEF WorkerStep

\* A prefetch that is dropped because its range is active already is never lost: that
\* range is with the scheduler or with the worker, whatever was stopped and restarted.
THEOREM ActiveRangesHaveTakers == Spec => []RangeHasTaker
<1>1. TakerInv /\ [Next]_vars => TakerInv'
  <2>1. CASE UNCHANGED vars
    BY <2>1 DEF vars, TakerInv, WorkerShape, RangeHasTaker
  <2> QED
    BY <2>1, TakerCall, TakerOwner, TakerWorker DEF Next
<1>2. TakerInv => RangeHasTaker
  BY DEF TakerInv
<1> QED
  BY TakerInit, <1>1, <1>2, PTL DEF Spec

------------------------------------------------------------------------------
(* Counting the members of a finite set of numbers. *)

\* How many members of S are below k.
Rank(S, k) == Cardinality({j \in S : j < k})

\* The rank grows with the member, from 0 to one less than the number of members.
LEMMA RankGrows ==
  ASSUME NEW S \in SUBSET Nat, IsFiniteSet(S)
  PROVE  /\ \A k \in S : Rank(S, k) \in 0..(Cardinality(S) - 1)
         /\ \A j, k \in S : j < k => Rank(S, j) < Rank(S, k)
<1>1. Cardinality(S) \in Nat
  BY FS_CardinalityType
<1>2. ASSUME NEW k \in S PROVE Rank(S, k) \in 0..(Cardinality(S) - 1)
  <2> DEFINE B == {j \in S : j < k}
  <2>1. B \in SUBSET S /\ k \notin B
    OBVIOUS
  <2> HIDE DEF B
  <2>2. IsFiniteSet(B) /\ Cardinality(B) <= Cardinality(S) /\ Cardinality(B) # Cardinality(S)
    BY <2>1, FS_Subset
  <2>3. Cardinality(B) \in Nat
    BY <2>2, FS_CardinalityType
  <2>4. Cardinality(B) \in 0..(Cardinality(S) - 1)
    BY <1>1, <2>2, <2>3
  <2> QED
    BY <2>4 DEF Rank, B
<1>3. ASSUME NEW j \in S, NEW k \in S, j < k PROVE Rank(S, j) < Rank(S, k)
  <2> DEFINE A == {i \in S : i < j}
             B == {i \in S : i < k}
  <2>1. A \in SUBSET B
    <3>1. \A i \in S : i < j => i < k
      BY <1>3
    <3> QED
      BY <3>1
  <2>2. B \in SUBSET S /\ j \in B /\ j \notin A
    BY <1>3
  <2> HIDE DEF A, B
  <2>3. IsFiniteSet(B)
    BY <2>2, FS_Subset
  <2>4. IsFiniteSet(A) /\ Cardinality(A) <= Cardinality(B) /\ Cardinality(A) # Cardinality(B)
    BY <2>1, <2>2, <2>3, FS_Subset
  <2>5. Cardinality(A) \in Nat /\ Cardinality(B) \in Nat
    BY <2>3, <2>4, FS_CardinalityType
  <2>6. Cardinality(A) < Cardinality(B)
    BY <2>4, <2>5
  <2> QED
    BY <2>6 DEF Rank, A, B
<1> QED
  BY <1>2, <1>3

\* Every number below that of the members is the rank of exactly one.
LEMMA RankIsBijection ==
  ASSUME NEW S \in SUBSET Nat, IsFiniteSet(S)
  PROVE  [k \in S |-> Rank(S, k)] \in Bijection(S, 0..(Cardinality(S) - 1))
<1> DEFINE n == Cardinality(S)
           f == [k \in S |-> Rank(S, k)]
           T == 0..(n - 1)
<1>1. n \in Nat
  BY FS_CardinalityType
<1>2. f \in [S -> T]
  BY RankGrows
<1>3. \A j, k \in S : f[j] = f[k] => j = k
  <2> SUFFICES ASSUME NEW j \in S, NEW k \in S, j # k PROVE Rank(S, j) # Rank(S, k)
    OBVIOUS
  <2>1. \A i \in S : Rank(S, i) \in Int
    BY RankGrows
  <2>2. j < k \/ k < j
    OBVIOUS
  <2> QED
    BY <2>1, <2>2, RankGrows
<1> HIDE DEF f, n
<1>4. IsFiniteSet(T) /\ Cardinality(T) = n
  <2>1. n - 1 \in Int /\ 0 \in Int
    BY <1>1
  <2>2. IsFiniteSet(T) /\ Cardinality(T) = IF 0 > n - 1 THEN 0 ELSE (n - 1) - 0 + 1
    BY <2>1, FS_Interval
  <2> QED
    BY <1>1, <2>2
<1> HIDE DEF T
<1>5. f \in Injection(S, T)
  BY <1>2, <1>3, Fun_IsInj
<1>6. f \in Surjection(S, T)
  BY <1>4, <1>5, FS_Injection DEF n
<1> QED
  BY <1>5, <1>6 DEF Bijection, f, T, n

\* Every number below that of the members is the rank of a member, and of one only.
LEMMA RankReaches ==
  ASSUME NEW S \in SUBSET Nat, IsFiniteSet(S)
  PROVE  /\ \A m \in 0..(Cardinality(S) - 1) : \E k \in S : Rank(S, k) = m
         /\ \A j, k \in S : Rank(S, j) = Rank(S, k) => j = k
<1> DEFINE n == Cardinality(S)
           f == [k \in S |-> Rank(S, k)]
<1>1. f \in Bijection(S, 0..(n - 1))
  BY RankIsBijection
<1>2. \A k \in S : f[k] = Rank(S, k)
  OBVIOUS
<1> HIDE DEF f, n
<1>3. \A m \in 0..(n - 1) : \E k \in S : f[k] = m
  BY <1>1 DEF Bijection, Surjection
<1>4. \A j, k \in S : f[j] = f[k] => j = k
  BY <1>1, Fun_BijectionProperties
<1>5. \A m \in 0..(n - 1) : \E k \in S : Rank(S, k) = m
  <2> SUFFICES ASSUME NEW m \in 0..(n - 1) PROVE \E k \in S : Rank(S, k) = m
    OBVIOUS
  <2>1. PICK k \in S : f[k] = m
    BY <1>3
  <2> QED
    BY <1>2, <2>1
<1>6. \A j, k \in S : Rank(S, j) = Rank(S, k) => j = k
  BY <1>2, <1>4
<1> QED
  BY <1>5, <1>6 DEF n

\* Of a set of numbers the w lowest are those of rank below w: w, or all there are.
LEMMA Lowest ==
  ASSUME NEW S \in SUBSET Nat, IsFiniteSet(S), NEW w \in Nat,
         NEW P, P = {k \in S : Rank(S, k) < w}
  PROVE  /\ IsFiniteSet(P)
         /\ Cardinality(P) = IF w <= Cardinality(S) THEN w ELSE Cardinality(S)
<1> DEFINE n == Cardinality(S)
           f == [k \in S |-> Rank(S, k)]
<1>1. n \in Nat
  BY FS_CardinalityType
<1>2. IsFiniteSet(P)
  BY FS_Subset
<1>3. \A k \in S : f[k] = Rank(S, k) /\ f[k] \in 0..(n - 1)
  BY RankGrows
<1>4. \A j, k \in S : f[j] = f[k] => j = k
  BY <1>3, RankReaches
<1>5. \A m \in 0..(n - 1) : \E k \in S : f[k] = m
  BY <1>3, RankReaches
<1> HIDE DEF f, n
<1>6. CASE w <= n
  <2> DEFINE g == [k \in P |-> f[k]]
             T == 0..(w - 1)
  <2>1. g \in [P -> T]
    <3>1. \A k \in P : f[k] \in 0..(n - 1) /\ f[k] < w
      BY <1>3
    <3>2. \A k \in P : f[k] \in T
      BY <1>1, <3>1
    <3> QED
      BY <3>2
  <2>2. \A j, k \in P : g[j] = g[k] => j = k
    BY <1>4
  <2>3. \A m \in T : \E k \in P : g[k] = m
    <3> SUFFICES ASSUME NEW m \in T PROVE \E k \in P : g[k] = m
      OBVIOUS
    <3>1. PICK k \in S : f[k] = m
      BY <1>1, <1>5, <1>6
    <3>2. k \in P
      BY <1>3, <3>1
    <3> QED
      BY <3>1, <3>2
  <2> HIDE DEF g
  <2>4. g \in Bijection(P, T)
    BY <2>1, <2>2, <2>3, Fun_IsBij
  <2>5. Cardinality(T) = Cardinality(P)
    <3>1. ExistsBijection(P, T)
      BY <2>4, Fun_ExistsBij
    <3> QED
      BY <1>2, <3>1, FS_Bijection
  <2>6. Cardinality(T) = w
    BY FS_Interval
  <2> QED
    BY <1>2, <1>6, <2>5, <2>6 DEF n
<1>7. CASE ~(w <= n)
  <2>1. \A k \in S : Rank(S, k) < w
    BY <1>1, <1>3, <1>7
  <2>2. P = S
    BY <2>1
  <2> QED
    BY <1>2, <1>7, <2>2 DEF n
<1> QED
  BY <1>6, <1>7

\* A finite set of numbers that is not empty has a greatest member.
LEMMA MaxIsGreatest ==
  ASSUME NEW S \in SUBSET Nat, IsFiniteSet(S), S # {}
  PROVE  Max(S) \in S /\ \A k \in S : Max(S) >= k
<1> DEFINE n == Cardinality(S)
<1>1. n \in Nat /\ n # 0
  BY FS_CardinalityType, FS_EmptySet
<1>2. PICK m \in S : Rank(S, m) = n - 1
  <2>1. n - 1 \in 0..(n - 1)
    BY <1>1
  <2> QED
    BY <2>1, RankReaches
<1>3. \A k \in S : m >= k
  <2> SUFFICES ASSUME NEW k \in S, m < k PROVE FALSE
    OBVIOUS
  <2>1. Rank(S, m) < Rank(S, k) /\ Rank(S, k) \in 0..(n - 1)
    BY RankGrows
  <2> HIDE DEF n
  <2> QED
    BY <1>1, <1>2, <2>1
<1>4. \E k \in S : \A j \in S : k >= j
  BY <1>3
<1> QED
  BY <1>4 DEF Max

\* The greater of two numbers.
LEMMA MaxOfTwo ==
  ASSUME NEW a \in Int, NEW b \in Int
  PROVE  Max({a, b}) \in {a, b} /\ Max({a, b}) >= a /\ Max({a, b}) >= b
<1>1. \E x \in {a, b} : \A y \in {a, b} : x >= y
  <2>1. CASE a >= b
    BY <2>1
  <2>2. CASE b >= a
    BY <2>2
  <2> QED
    BY <2>1, <2>2
<1> QED
  BY <1>1 DEF Max

\* The lesser of two numbers.
LEMMA MinOfTwo ==
  ASSUME NEW a \in Int, NEW b \in Int
  PROVE  Min({a, b}) \in {a, b} /\ Min({a, b}) <= a /\ Min({a, b}) <= b
<1>1. \E x \in {a, b} : \A y \in {a, b} : x <= y
  <2>1. CASE a <= b
    BY <2>1
  <2>2. CASE b <= a
    BY <2>2
  <2> QED
    BY <2>1, <2>2
<1> QED
  BY <1>1 DEF Min

\* Division rounded up covers what is divided.
LEMMA RoundedUp ==
  ASSUME NEW x \in Nat, NEW b \in Nat \ {0}
  PROVE  (x + b - 1) \div b \in Nat /\ ((x + b - 1) \div b) * b >= x
  OBVIOUS

\* The bytes of what is left.
LEMMA Distributes ==
  ASSUME NEW m \in Nat, NEW n \in Nat, NEW b \in Nat
  PROVE  m * b - n * b = (m - n) * b
  OBVIOUS

------------------------------------------------------------------------------
(* The operations on a cache keep its count of bytes, and its heap of touches good for
   finding what to evict. *)

\* A heap of touches, a finite set of blocks, and the bytes of these counted.
Counted(k, b) ==
  /\ k.touches \in Seq(Nat)
  /\ DOMAIN k.blocks \in SUBSET Nat /\ IsFiniteSet(DOMAIN k.blocks)
  /\ k.bytes = Cardinality(DOMAIN k.blocks) * b

\* The heap holds a live touch of block i.
Findable(k, i) == \E j \in LiveTouches(k) : k.touches[j] = i

NewestIsCached(k) == k.touches # <<>> => k.touches[Len(k.touches)] \in DOMAIN k.blocks

\* What every operation on a cache keeps, for blocks of b bytes.
Kept(k, b) ==
  /\ Counted(k, b)
  /\ \A i \in DOMAIN k.blocks : Findable(k, i)
  /\ NewestIsCached(k)

\* The live touches are a finite set of places, no two of the same block.
LEMMA LivePlaces ==
  ASSUME NEW k, k.touches \in Seq(Nat)
  PROVE  /\ LiveTouches(k) \in SUBSET (1..Len(k.touches))
         /\ LiveTouches(k) \in SUBSET Nat /\ IsFiniteSet(LiveTouches(k))
         /\ \A x, y \in LiveTouches(k) : k.touches[x] = k.touches[y] => x = y
<1> DEFINE n == Len(k.touches)
<1>1. n \in Nat /\ DOMAIN k.touches = 1..n
  BY LenProperties
<1> HIDE DEF n
<1>2. LiveTouches(k) \in SUBSET (1..n)
  BY <1>1 DEF LiveTouches
<1>3. LiveTouches(k) \in SUBSET Nat
  BY <1>1, <1>2
<1>4. IsFiniteSet(LiveTouches(k))
  <2>1. IsFiniteSet(1..n)
    BY <1>1, FS_Interval
  <2> QED
    BY <1>2, <2>1, FS_Subset
<1>5. ASSUME NEW x \in LiveTouches(k), NEW y \in LiveTouches(k), x < y
      PROVE  k.touches[x] # k.touches[y]
  BY <1>5 DEF LiveTouches
<1>6. \A x, y \in LiveTouches(k) : k.touches[x] = k.touches[y] => x = y
  <2> SUFFICES ASSUME NEW x \in LiveTouches(k), NEW y \in LiveTouches(k), x # y
               PROVE  k.touches[x] # k.touches[y]
    OBVIOUS
  <2>1. x < y \/ y < x
    BY <1>3
  <2> QED
    BY <2>1, <1>5
<1> QED
  BY <1>2, <1>3, <1>4, <1>6 DEF n

\* There are as many live touches as blocks.
LEMMA LiveCount ==
  ASSUME NEW k, NEW b, Kept(k, b)
  PROVE  Cardinality(LiveTouches(k)) = Cardinality(DOMAIN k.blocks)
<1> DEFINE L == LiveTouches(k)
           D == DOMAIN k.blocks
           f == [x \in L |-> k.touches[x]]
<1>1. IsFiniteSet(L) /\ \A x, y \in L : k.touches[x] = k.touches[y] => x = y
  BY LivePlaces DEF Kept, Counted
<1>2. f \in [L -> D]
  BY DEF LiveTouches
<1>3. \A x, y \in L : f[x] = f[y] => x = y
  BY <1>1
<1>4. \A i \in D : \E x \in L : f[x] = i
  BY DEF Kept, Findable
<1> HIDE DEF L, D, f
<1>5. f \in Bijection(L, D)
  BY <1>2, <1>3, <1>4, Fun_IsBij
<1>6. ExistsBijection(L, D)
  BY <1>5, Fun_ExistsBij
<1> QED
  BY <1>1, <1>6, FS_Bijection DEF L, D

\* Dropping the touches that are not live keeps the cache.
LEMMA CompactKeeps ==
  ASSUME NEW k, NEW b, Kept(k, b)
  PROVE  /\ Kept(CompactTouchHeap(k), b)
         /\ CompactTouchHeap(k).blocks = k.blocks /\ CompactTouchHeap(k).bytes = k.bytes
<1> DEFINE L == LiveTouches(k)
           m == Cardinality(L)
           Nth(n) == CHOOSE x \in L : Cardinality({j \in L : j < x}) = n - 1
           t == [n \in 1..m |-> k.touches[Nth(n)]]
           c == [blocks |-> k.blocks, bytes |-> k.bytes, touches |-> t]
<1>1. CompactTouchHeap(k) \in {k, c}
  BY DEF CompactTouchHeap
<1>2. /\ L \in SUBSET (1..Len(k.touches)) /\ L \in SUBSET Nat /\ IsFiniteSet(L)
      /\ \A x, y \in L : k.touches[x] = k.touches[y] => x = y
  BY LivePlaces DEF Kept, Counted
<1>3. \A x \in L : k.touches[x] \in DOMAIN k.blocks /\ k.touches[x] \in Nat
  BY DEF LiveTouches, Kept, Counted
<1> HIDE DEF L
<1>4. m \in Nat
  BY <1>2, FS_CardinalityType
<1>5. \A n \in 1..m : Nth(n) \in L /\ Rank(L, Nth(n)) = n - 1
  <2> SUFFICES ASSUME NEW n \in 1..m PROVE Nth(n) \in L /\ Rank(L, Nth(n)) = n - 1
    OBVIOUS
  <2>1. n - 1 \in 0..(m - 1)
    BY <1>4
  <2>2. \E x \in L : Rank(L, x) = n - 1
    BY <1>2, <2>1, RankReaches
  <2> QED
    BY <2>2 DEF Rank
<1> HIDE DEF Nth
<1>6. \A x \in L : \E n \in 1..m : Nth(n) = x
  <2> SUFFICES ASSUME NEW x \in L PROVE \E n \in 1..m : Nth(n) = x
    OBVIOUS
  <2>1. Rank(L, x) \in 0..(m - 1)
    BY <1>2, RankGrows
  <2>2. PICK n \in 1..m : n - 1 = Rank(L, x)
    BY <1>4, <2>1
  <2>3. Nth(n) \in L /\ Rank(L, Nth(n)) = Rank(L, x)
    BY <1>5, <2>2
  <2>4. \A i, j \in L : Rank(L, i) = Rank(L, j) => i = j
    BY <1>2, RankReaches
  <2>5. Nth(n) = x
    BY <2>3, <2>4
  <2> QED
    BY <2>5
<1> HIDE DEF m
<1>7. t \in Seq(Nat) /\ Len(t) = m /\ DOMAIN t = 1..m
  BY <1>3, <1>4, <1>5
<1>8. \A n \in 1..m : t[n] = k.touches[Nth(n)]
  OBVIOUS
<1> HIDE DEF t
<1>9. Counted(c, b)
  BY <1>7 DEF Counted, Kept
<1>10. \A n \in 1..m : n \in LiveTouches(c)
  <2> SUFFICES ASSUME NEW n \in 1..m PROVE n \in LiveTouches(c)
    OBVIOUS
  <2>1. t[n] \in DOMAIN k.blocks
    BY <1>3, <1>5, <1>8
  <2>2. ASSUME NEW j \in 1..m, j > n PROVE t[j] # t[n]
    <3>1. Rank(L, Nth(j)) # Rank(L, Nth(n))
      BY <1>4, <1>5, <2>2
    <3>2. Nth(j) # Nth(n)
      BY <3>1
    <3> QED
      BY <1>2, <1>5, <1>8, <3>2
  <2> QED
    BY <1>7, <2>1, <2>2 DEF LiveTouches
<1>11. \A i \in DOMAIN c.blocks : Findable(c, i)
  <2> SUFFICES ASSUME NEW i \in DOMAIN k.blocks PROVE Findable(c, i)
    OBVIOUS
  <2>1. PICK x \in L : k.touches[x] = i
    BY DEF Kept, Findable, L
  <2>2. PICK n \in 1..m : Nth(n) = x
    BY <1>6
  <2>3. t[n] = i /\ n \in LiveTouches(c)
    BY <1>8, <1>10, <2>1, <2>2
  <2> QED
    BY <2>3 DEF Findable
<1>12. NewestIsCached(c)
  <2> SUFFICES ASSUME t # <<>> PROVE t[Len(t)] \in DOMAIN k.blocks
    BY DEF NewestIsCached
  <2>1. Len(t) \in 1..m
    BY <1>4, <1>7, EmptySeq
  <2> QED
    BY <1>3, <1>5, <1>8, <2>1
<1>13. Kept(c, b)
  BY <1>9, <1>11, <1>12 DEF Kept
<1> QED
  BY <1>1, <1>13

\* A block that is cached may be touched, be it one the heap does not know yet.
LEMMA TouchKeeps ==
  ASSUME NEW k, NEW b, Counted(k, b), NEW i \in DOMAIN k.blocks,
         \A j \in DOMAIN k.blocks \ {i} : Findable(k, j)
  PROVE  /\ Kept(Touch(k, i), b)
         /\ Touch(k, i).blocks = k.blocks /\ Touch(k, i).bytes = k.bytes
<1> DEFINE n == Len(k.touches)
           t == Append(k.touches, i)
           c == [blocks |-> k.blocks, touches |-> t, bytes |-> k.bytes]
<1>1. k.touches \in Seq(Nat) /\ i \in Nat
  BY DEF Counted
<1>2. /\ t \in Seq(Nat) /\ Len(t) = n + 1 /\ t[n + 1] = i
      /\ \A j \in 1..n : t[j] = k.touches[j]
  BY <1>1, AppendProperties
<1>3. n \in Nat /\ DOMAIN k.touches = 1..n /\ DOMAIN t = 1..(n + 1)
  BY <1>1, <1>2, LenProperties
<1> HIDE DEF n, t
<1>4. Counted(c, b)
  BY <1>2 DEF Counted
<1>5. n + 1 \in LiveTouches(c)
  BY <1>2, <1>3 DEF LiveTouches
<1>6. \A j \in DOMAIN c.blocks : Findable(c, j)
  <2> SUFFICES ASSUME NEW j \in DOMAIN k.blocks PROVE Findable(c, j)
    OBVIOUS
  <2>1. CASE j = i
    BY <1>2, <1>5, <2>1 DEF Findable
  <2>2. CASE j # i
    <3>1. PICK x \in LiveTouches(k) : k.touches[x] = j
      BY <2>2 DEF Findable
    <3>2. x \in 1..n /\ \A y \in 1..n : y > x => k.touches[y] # j
      BY <1>3, <3>1 DEF LiveTouches
    <3>3. x \in 1..(n + 1) /\ t[x] = j
      BY <1>2, <1>3, <3>1, <3>2
    <3>4. \A y \in 1..(n + 1) : y > x => t[y] # j
      <4> SUFFICES ASSUME NEW y \in 1..(n + 1), y > x PROVE t[y] # j
        OBVIOUS
      <4>1. y \in 1..n \/ y = n + 1
        BY <1>3
      <4> QED
        BY <1>2, <2>2, <3>2, <4>1
    <3>5. x \in LiveTouches(c)
      BY <1>3, <3>3, <3>4 DEF LiveTouches
    <3> QED
      BY <3>3, <3>5 DEF Findable
  <2> QED
    BY <2>1, <2>2
<1>7. NewestIsCached(c)
  BY <1>2 DEF NewestIsCached
<1>8. Kept(c, b)
  BY <1>4, <1>6, <1>7 DEF Kept
<1>9. Touch(k, i) = CompactTouchHeap(c)
  BY DEF Touch, c, t
<1> HIDE DEF c
<1>10. c.blocks = k.blocks /\ c.bytes = k.bytes
  BY DEF c
<1> QED
  BY <1>8, <1>9, <1>10, CompactKeeps

\* A new block is counted.
LEMMA InsertCounts ==
  ASSUME NEW k, block_bytes \in Nat, Counted(k, block_bytes), NEW i \in Nat, NEW content
  PROVE  /\ Counted(Insert(k, i, content), block_bytes)
         /\ DOMAIN Insert(k, i, content).blocks = DOMAIN k.blocks \cup {i}
         /\ Insert(k, i, content).touches = k.touches
<1> DEFINE D == DOMAIN k.blocks
           c == Insert(k, i, content)
           b == block_bytes
<1>1. CASE i \in D
  BY <1>1 DEF Insert
<1>2. CASE i \notin D
  <2>1. /\ DOMAIN c.blocks = D \cup {i} /\ c.touches = k.touches
        /\ c.bytes = k.bytes + b
    BY <1>2 DEF Insert
  <2>2. k.bytes = Cardinality(D) * b /\ D \in SUBSET Nat /\ IsFiniteSet(D)
        /\ k.touches \in Seq(Nat)
    BY DEF Counted
  <2> HIDE DEF D, c, b
  <2>3. IsFiniteSet(D \cup {i}) /\ Cardinality(D \cup {i}) = Cardinality(D) + 1
    BY <1>2, <2>2, FS_AddElement
  <2>4. Cardinality(D) \in Nat
    BY <2>2, FS_CardinalityType
  <2>5. c.bytes = (Cardinality(D) + 1) * b
    BY <2>1, <2>2, <2>4 DEF b
  <2>6. Counted(c, b)
    BY <2>1, <2>2, <2>3, <2>5 DEF Counted
  <2> QED
    BY <2>1, <2>6 DEF c, D, b
<1> QED
  BY <1>1, <1>2

\* Trimming keeps the cache and brings it within the budget, whatever that is.
LEMMA TrimKeeps ==
  ASSUME NEW k, NEW budget \in Nat, block_bytes \in Nat \ {0}, Kept(k, block_bytes)
  PROVE  Kept(Trim(k, budget), block_bytes) /\ Trim(k, budget).bytes <= budget
<1> DEFINE b == block_bytes
           L == LiveTouches(k)
           D == DOMAIN k.blocks
           s == k.touches
           excess == Max({0, k.bytes - budget})
           wanted == (excess + b - 1) \div b
           P == {x \in L : Cardinality({j \in L : j < x}) < wanted}
           E == {s[x] : x \in P}
           last == IF Cardinality(P) < wanted THEN Len(s) ELSE Max(P \cup {0})
           t == SubSeq(s, last + 1, Len(s))
           c == [blocks |-> [i \in D \ E |-> k.blocks[i]], touches |-> t,
                 bytes |-> k.bytes - Cardinality(E) * b]
<1>1. Trim(k, budget) = c
  BY DEF Trim
<1>2. /\ s \in Seq(Nat) /\ D \in SUBSET Nat /\ IsFiniteSet(D)
      /\ k.bytes = Cardinality(D) * b
      /\ s # <<>> => s[Len(s)] \in D
      /\ \A i \in D : \E x \in L : s[x] = i
  BY DEF Kept, Counted, Findable, NewestIsCached
<1>3. /\ L \in SUBSET (1..Len(s)) /\ L \in SUBSET Nat /\ IsFiniteSet(L)
      /\ \A x, y \in L : s[x] = s[y] => x = y
  BY LivePlaces DEF Kept, Counted
<1>4. Cardinality(L) = Cardinality(D) /\ Cardinality(D) \in Nat
  BY <1>2, LiveCount, FS_CardinalityType
<1>5. \A x \in L : s[x] \in D /\ \A j \in 1..Len(s) : j > x => s[j] # s[x]
  BY <1>2, LenProperties DEF LiveTouches
<1>6. Len(s) \in Nat /\ DOMAIN s = 1..Len(s) /\ \A j \in 1..Len(s) : s[j] \in Nat
  BY <1>2, LenProperties
<1>8. b \in Nat \ {0}
  OBVIOUS
<1> HIDE DEF b, L, D, s
<1>9. excess \in Nat /\ excess >= k.bytes - budget
  <2> DEFINE d == k.bytes - budget
  <2>1. d \in Int
    BY <1>2, <1>4, <1>8
  <2> HIDE DEF d
  <2>2. Max({0, d}) \in {0, d} /\ Max({0, d}) >= 0 /\ Max({0, d}) >= d
    BY <2>1, MaxOfTwo
  <2>3. Max({0, d}) \in Nat
    BY <2>1, <2>2
  <2> QED
    BY <2>2, <2>3 DEF d
<1> HIDE DEF excess
<1>10. wanted \in Nat /\ wanted * b >= excess
  BY <1>8, <1>9, RoundedUp
<1> HIDE DEF wanted
<1>11. P = {x \in L : Rank(L, x) < wanted}
  BY DEF Rank
<1> HIDE DEF P
<1>12. /\ IsFiniteSet(P)
       /\ Cardinality(P) = IF wanted <= Cardinality(L) THEN wanted ELSE Cardinality(L)
  BY <1>3, <1>10, <1>11, Lowest
<1>13. P \subseteq L /\ \A x \in P, y \in L \ P : x < y
  <2>1. \A x \in P, y \in L \ P : Rank(L, x) < Rank(L, y)
    <3>1. \A x \in L : Rank(L, x) \in Int
      BY <1>3, RankGrows
    <3> QED
      BY <1>10, <1>11, <3>1
  <2> SUFFICES ASSUME NEW x \in P, NEW y \in L \ P, ~(x < y) PROVE FALSE
    BY <1>11
  <2>2. x \in L /\ y \in L /\ x \in Nat /\ y \in Nat /\ x # y
    BY <1>3, <1>11
  <2>3. y < x
    BY <2>2
  <2>4. Rank(L, y) < Rank(L, x) /\ Rank(L, x) \in Int /\ Rank(L, y) \in Int
    BY <1>3, <2>2, <2>3, RankGrows
  <2> QED
    BY <2>1, <2>4
<1>14. IsFiniteSet(E) /\ Cardinality(E) = Cardinality(P) /\ E \subseteq D
  <2> DEFINE f == [x \in P |-> s[x]]
  <2>1. f \in [P -> E] /\ \A i \in E : \E x \in P : f[x] = i
    OBVIOUS
  <2>2. \A x, y \in P : f[x] = f[y] => x = y
    BY <1>3, <1>13
  <2>3. E \subseteq D
    BY <1>5, <1>13
  <2> HIDE DEF f, E
  <2>4. f \in Bijection(P, E)
    BY <2>1, <2>2, Fun_IsBij
  <2>5. ExistsBijection(P, E)
    BY <2>4, Fun_ExistsBij
  <2> QED
    BY <1>12, <2>3, <2>5, FS_Bijection
<1>15. \A x \in L \ P : s[x] \notin E
  BY <1>3, <1>13
<1> HIDE DEF E
<1>16. IsFiniteSet(D \ E) /\ Cardinality(D \ E) = Cardinality(D) - Cardinality(E)
       /\ Cardinality(D \ E) \in Nat
  <2>1. D \cap E = E
    BY <1>14
  <2>2. IsFiniteSet(D \ E) /\ Cardinality(D \ E) = Cardinality(D) - Cardinality(D \cap E)
    BY <1>2, FS_Difference
  <2> QED
    BY <2>1, <2>2, FS_CardinalityType
<1>17. Cardinality(E) \in Nat
  BY <1>14, FS_CardinalityType
<1>18. k.bytes - Cardinality(E) * b = Cardinality(D \ E) * b
  BY <1>2, <1>4, <1>8, <1>16, <1>17, Distributes
<1>19. k.bytes - Cardinality(E) * b <= budget
  <2>1. CASE wanted <= Cardinality(L)
    <3>1. Cardinality(E) = wanted
      BY <1>12, <1>14, <2>1
    <3>2. wanted * b \in Int /\ k.bytes \in Int
      BY <1>2, <1>4, <1>8, <1>10
    <3> QED
      BY <1>9, <1>10, <3>1, <3>2
  <2>2. CASE ~(wanted <= Cardinality(L))
    <3>1. Cardinality(E) = Cardinality(D)
      BY <1>4, <1>12, <1>14, <2>2
    <3>2. Cardinality(D \ E) = 0
      BY <1>16, <1>17, <3>1
    <3> QED
      BY <1>8, <1>18, <3>2
  <2> QED
    BY <2>1, <2>2
<1>20. last \in 0..Len(s) /\ \A x \in P : x <= last
  <2>1. CASE Cardinality(P) < wanted
    BY <1>3, <1>6, <1>13, <2>1
  <2>2. CASE ~(Cardinality(P) < wanted)
    <3> DEFINE Q == P \cup {0}
    <3>1. IsFiniteSet(Q) /\ Q \in SUBSET Nat /\ Q # {}
      BY <1>3, <1>12, <1>13, FS_AddElement
    <3>2. Q \in SUBSET (0..Len(s))
      BY <1>3, <1>6, <1>13
    <3> HIDE DEF Q
    <3>3. Max(Q) \in Q /\ \A x \in Q : Max(Q) >= x
      BY <3>1, MaxIsGreatest
    <3>4. Max(Q) \in 0..Len(s) /\ \A x \in Q : x <= Max(Q)
      BY <3>1, <3>2, <3>3
    <3> QED
      BY <2>2, <3>4 DEF Q
  <2> QED
    BY <2>1, <2>2
<1>21. \A y \in L \ P : y > last
  <2> SUFFICES ASSUME NEW y \in L \ P PROVE y > last
    OBVIOUS
  <2>1. CASE Cardinality(P) < wanted
    <3>1. Cardinality(P) = Cardinality(L)
      BY <1>10, <1>12, <2>1
    <3>2. P \in SUBSET L
      BY <1>13
    <3>3. P = L
      BY <1>3, <3>1, <3>2, FS_Subset
    <3> QED
      BY <3>3
  <2>2. CASE ~(Cardinality(P) < wanted)
    <3> DEFINE Q == P \cup {0}
    <3>1. IsFiniteSet(Q) /\ Q \in SUBSET Nat /\ Q # {}
      BY <1>3, <1>12, <1>13, FS_AddElement
    <3>2. \A x \in Q : x < y
      BY <1>3, <1>6, <1>13
    <3> HIDE DEF Q
    <3>3. Max(Q) < y
      BY <3>1, <3>2, MaxIsGreatest
    <3>4. Max(Q) \in Nat /\ y \in Nat
      BY <1>3, <3>1, MaxIsGreatest
    <3> QED
      BY <2>2, <3>3, <3>4 DEF Q
  <2> QED
    BY <2>1, <2>2
<1> HIDE DEF last
<1>22. /\ t \in Seq(Nat) /\ Len(t) = Len(s) - last
       /\ \A j \in 1..(Len(s) - last) : t[j] = s[j + last]
  <2>1. last + 1 \in Int /\ Len(s) \in Int /\ \A j \in (last + 1)..Len(s) : s[j] \in Nat
    BY <1>6, <1>20
  <2>2. /\ t \in Seq(Nat)
        /\ Len(t) = IF last + 1 <= Len(s) THEN Len(s) - (last + 1) + 1 ELSE 0
        /\ \A j \in 1..(Len(s) - (last + 1) + 1) : t[j] = s[(last + 1) + j - 1]
    BY <2>1, SubSeqProperties
  <2>3. Len(s) - (last + 1) + 1 = Len(s) - last
    BY <1>6, <1>20
  <2> HIDE DEF t
  <2>4. Len(t) = Len(s) - last
    <3>1. CASE last + 1 <= Len(s)
      BY <2>2, <2>3, <3>1
    <3>2. CASE ~(last + 1 <= Len(s))
      <4>1. Len(t) = 0
        BY <2>2, <3>2
      <4>2. Len(s) \in Nat /\ last \in Nat /\ last <= Len(s)
        BY <1>6, <1>20
      <4>3. Len(s) - last = 0
        BY <3>2, <4>2
      <4> QED
        BY <4>1, <4>3
    <3> QED
      BY <3>1, <3>2
  <2>5. ASSUME NEW j \in 1..(Len(s) - last) PROVE t[j] = s[j + last]
    <3>1. t[j] = s[(last + 1) + j - 1]
      BY <2>2, <2>3
    <3>2. (last + 1) + j - 1 = j + last
      BY <1>20
    <3> QED
      BY <3>1, <3>2
  <2> QED
    BY <2>2, <2>4, <2>5
<1> HIDE DEF t
<1>23. DOMAIN t = 1..(Len(s) - last)
  BY <1>22, LenProperties
<1>24. Counted(c, b)
  BY <1>2, <1>16, <1>18, <1>22 DEF Counted
<1>25. ASSUME NEW i \in D \ E PROVE Findable(c, i)
  <2>1. PICK x \in L \ P : s[x] = i
    BY <1>2, <1>25 DEF E
  <2>2. x \in Nat /\ x <= Len(s) /\ x > last
    BY <1>3, <1>6, <1>21
  <2>3. PICK y \in 1..(Len(s) - last) : x = y + last
    BY <1>6, <1>20, <2>2
  <2>4. t[y] = i
    BY <1>22, <2>1, <2>3
  <2>5. ASSUME NEW j \in 1..(Len(s) - last), j > y PROVE t[j] # i
    <3>1. j + last \in 1..Len(s) /\ j + last > x
      BY <1>6, <1>20, <2>3, <2>5
    <3> QED
      BY <1>5, <1>22, <2>1, <3>1
  <2>6. y \in LiveTouches(c)
    BY <1>23, <1>25, <2>4, <2>5 DEF LiveTouches
  <2> QED
    BY <2>4, <2>6 DEF Findable
<1>26. NewestIsCached(c)
  <2> SUFFICES ASSUME t # <<>> PROVE t[Len(t)] \in D \ E
    BY DEF NewestIsCached
  <2>1. Len(s) - last \in 1..(Len(s) - last) /\ last < Len(s)
    BY <1>6, <1>20, <1>22, EmptySeq
  <2>2. t[Len(t)] = s[Len(s)]
    <3> DEFINE j == Len(s) - last
    <3>1. Len(t) = j /\ t[j] = s[j + last]
      BY <1>22, <2>1
    <3>2. j + last = Len(s)
      BY <1>6, <1>20
    <3> HIDE DEF j
    <3> QED
      BY <3>1, <3>2
  <2>3. s[Len(s)] \in D
    <3>1. Len(s) # 0
      BY <1>6, <1>20, <2>1
    <3>2. s # <<>>
      BY <3>1, EmptySeq
    <3> QED
      BY <1>2, <3>2
  <2>4. s[Len(s)] \notin E
    <3> SUFFICES ASSUME NEW x \in P, s[x] = s[Len(s)] PROVE FALSE
      BY DEF E
    <3>1. x \in L /\ x <= last
      BY <1>13, <1>20
    <3>2. x \in Nat
      BY <1>3, <3>1
    <3>3. last < Len(s) /\ last \in Nat /\ Len(s) \in Nat
      BY <1>6, <1>20, <2>1
    <3>4. Len(s) \in 1..Len(s) /\ Len(s) > x
      BY <3>1, <3>2, <3>3
    <3> QED
      BY <1>5, <3>1, <3>4
  <2> QED
    BY <2>2, <2>3, <2>4
<1>27. Kept(c, b)
  BY <1>24, <1>25, <1>26 DEF Kept
<1>28. c.bytes <= budget
  BY <1>19
<1> HIDE DEF c
<1> QED
  BY <1>1, <1>27, <1>28 DEF b

\* Storing a block that was built keeps the cache and its budget.
LEMMA StoreKeeps ==
  ASSUME block_bytes \in Nat \ {0}, max_cache_bytes \in Nat, Kept(cache, block_bytes),
         NEW i \in Nat, NEW content, StoreBlock(i, content)
  PROVE  Kept(cache', block_bytes) /\ cache'.bytes <= max_cache_bytes
<1> DEFINE b == block_bytes
           k == Insert(cache, i, content)
           c == Touch(k, i)
<1>1. Counted(k, b) /\ DOMAIN k.blocks = DOMAIN cache.blocks \cup {i}
      /\ k.touches = cache.touches
  BY InsertCounts DEF Kept
<1> HIDE DEF k
<1>2. \A j \in DOMAIN k.blocks \ {i} : Findable(k, j)
  BY <1>1 DEF Kept, Findable, LiveTouches
<1>3. Kept(c, b)
  BY <1>1, <1>2, TouchKeeps
<1>4. cache' = Trim(c, max_cache_bytes)
  BY DEF StoreBlock, k
<1> HIDE DEF c
<1> QED
  BY <1>3, <1>4, TrimKeeps

------------------------------------------------------------------------------
(* The cache keeps to its budget, and the variables to their types. *)

OwnerRecords ==
  [at : {"idle", "lock", "contend", "wait", "build", "join"}, block : Nat,
   then : {"none", "reconfigure", "drop"}, config : Configs]

WorkerRecords ==
  [at : {"none", "wait", "block", "lock", "locked", "build", "publish", "store", "finish"},
   stop : BOOLEAN, generation : Nat, range : Ranges \cup {None}, todo : Seq(Nat),
   built : Content]

SchedulerRecords ==
  [exists : BOOLEAN, has_request : BOOLEAN, range : Ranges \cup {None}, generation : Nat]

WindowRecords == [valid : BOOLEAN, index : Nat, holds : Content]

SettingsTyped ==
  /\ kind \in Kinds /\ config \in Configs /\ prefetch_enabled \in BOOLEAN
  /\ max_cache_bytes \in Nat \ {0} /\ calls \in 0..MaxCalls

\* The cache is kept and within its budget, which is that of a block at least when there is
\* something to cache, and for the waveform always.
WithinBudget ==
  /\ Kept(cache, block_bytes) /\ cache.bytes <= max_cache_bytes
  /\ block_count > 0 \/ kind = "waveform" => block_bytes <= max_cache_bytes

\* The scheduler has a range when it has a request.
SchedulerTyped ==
  /\ scheduler \in SchedulerRecords
  /\ scheduler.has_request => scheduler.range \in Ranges
  /\ active_generation \in Nat /\ active_range \in Ranges \cup {None}

HoldsLock(at) == at \in {"locked", "build", "publish", "store"}

\* A worker that is about to lock, or did, has a block to build.
WorkerTyped ==
  /\ worker \in WorkerRecords
  /\ worker.at = "lock" \/ HoldsLock(worker.at) => worker.todo # <<>>

LocksTyped ==
  /\ visible_waiters = IF owner.at = "wait" THEN 1 ELSE 0
  /\ (build_mutex = "owner") = (owner.at = "build")
  /\ (build_mutex = "worker") = HoldsLock(worker.at)

\* A worker is told to stop by a call that joins it.
ThreadsTyped ==
  /\ scheduler.exists = (worker.at # "none" /\ ~worker.stop)
  /\ worker.stop => owner.at = "join" /\ worker.at # "none"

BoundInv ==
  /\ SettingsTyped /\ WithinBudget /\ window \in WindowRecords /\ owner \in OwnerRecords
  /\ SchedulerTyped /\ WorkerTyped /\ LocksTyped /\ ThreadsTyped

\* What a block costs and how many there are.
LEMMA Sizes ==
  ASSUME SettingsTyped
  PROVE  /\ block_bytes \in Nat \ {0} /\ block_count \in Nat
         /\ kind \in {"spectrum", "waveform"}
  BY KindsAssumption, ConfigsAssumption DEF SettingsTyped, block_bytes, block_count

\* The empty cache.
LEMMA EmptyKept == \A b \in Nat : Kept(EmptyCache, b) /\ EmptyCache.bytes = 0
<1> SUFFICES ASSUME NEW b \in Nat PROVE Kept(EmptyCache, b) /\ EmptyCache.bytes = 0
  OBVIOUS
<1>1. EmptyCache.blocks = <<>> /\ EmptyCache.touches = <<>> /\ EmptyCache.bytes = 0
  BY DEF EmptyCache
<1>2. DOMAIN EmptyCache.blocks = {}
  BY <1>1
<1>3. <<>> \in Seq(Nat)
  OBVIOUS
<1>4. IsFiniteSet({}) /\ Cardinality({}) = 0
  BY FS_EmptySet
<1>5. 0 = 0 * b
  OBVIOUS
<1>6. Counted(EmptyCache, b)
  BY <1>1, <1>2, <1>3, <1>4, <1>5 DEF Counted
<1> QED
  BY <1>1, <1>2, <1>6 DEF Kept, NewestIsCached

\* Every block of a range has an index.
LEMMA OrderedTyped ==
  ASSUME NEW r \in Ranges
  PROVE  Ordered(r) \in Seq(Nat)
<1>1. r[1] \in Nat /\ r[2] \in Nat /\ r[1] <= r[2]
  <2>1. Indexes \subseteq Nat
    BY ConfigsAssumption DEF Indexes
  <2> QED
    BY <2>1 DEF Ranges
<1>2. LowerCount \in Nat /\ UpperCount \in Nat /\ UpperCount <= MaxBlocks
  BY SizesAssumption DEF LowerCount, UpperCount
<1>3. CASE IsSplit(r)
  <2> DEFINE e(k) == IF k <= LowerCount THEN r[1] + k - 1
                     ELSE r[2] - UpperCount + (k - LowerCount)
  <2>1. r[2] - UpperCount \in Nat
    BY <1>1, <1>2, <1>3, SizesAssumption DEF IsSplit
  <2>2. MaxBlocks \in Nat
    BY SizesAssumption
  <2>3. \A k \in 1..MaxBlocks : e(k) \in Nat
    BY <1>1, <1>2, <2>1, <2>2
  <2>4. Ordered(r) = [k \in 1..MaxBlocks |-> e(k)]
    BY <1>3 DEF Ordered
  <2> HIDE DEF e
  <2> QED
    BY <2>2, <2>3, <2>4
<1>4. CASE ~IsSplit(r)
  <2> DEFINE n == r[2] - r[1] + 1
  <2>1. n \in Nat
    BY <1>1
  <2>2. \A k \in 1..n : r[1] + k - 1 \in Nat
    BY <1>1, <2>1
  <2>3. Ordered(r) = [k \in 1..n |-> r[1] + k - 1]
    BY <1>4 DEF Ordered
  <2> HIDE DEF n
  <2> QED
    BY <2>1, <2>2, <2>3
<1> QED
  BY <1>3, <1>4

\* The worker at rest.
LEMMA NoWorkerTyped ==
  /\ NoWorker \in WorkerRecords
  /\ \A s \in BOOLEAN : [NoWorker EXCEPT !.at = "wait", !.stop = s] \in WorkerRecords
<1>1. <<>> \in Seq(Nat) /\ Torn \in Content
  BY DEF Content
<1> QED
  BY <1>1 DEF NoWorker, WorkerRecords

\* Before the first call everything is empty and at rest.
LEMMA BoundInit == Init => BoundInv
<1> SUFFICES ASSUME Init PROVE BoundInv
  OBVIOUS
<1>1. kind \in {"spectrum", "waveform"} /\ BlockBytes[kind][InitConfig] \in Nat \ {0}
  BY KindsAssumption, ConfigsAssumption DEF Init
<1>2. max_cache_bytes \in Nat \ {0} /\ block_bytes <= max_cache_bytes
  <2> DEFINE m == BlockBytes[kind][InitConfig]
  <2>1. m \in Nat \ {0}
    BY <1>1
  <2> HIDE DEF m
  <2>2. Max({InitBytes, m}) \in {InitBytes, m} /\ Max({InitBytes, m}) >= m
    BY <2>1, SizesAssumption, MaxOfTwo
  <2>3. max_cache_bytes = Max({InitBytes, m}) /\ block_bytes = m
    BY DEF Init, m, block_bytes
  <2> QED
    BY <2>1, <2>2, <2>3, SizesAssumption
<1>3. SettingsTyped
  BY <1>2, ConfigsAssumption, SizesAssumption DEF Init, SettingsTyped
<1>4. WithinBudget
  BY <1>2, <1>3, Sizes, EmptyKept DEF Init, WithinBudget
<1>5. window \in WindowRecords
  BY DEF Init, WindowRecords, Content
<1>6. owner \in OwnerRecords /\ owner.at = "idle"
  BY <1>3 DEF Init, AtRest, OwnerRecords, SettingsTyped
<1>7. SchedulerTyped /\ scheduler.exists = FALSE
  BY DEF Init, NoScheduler, SchedulerTyped, SchedulerRecords
<1>8. WorkerTyped /\ worker.at = "none" /\ worker.stop = FALSE
  BY NoWorkerTyped DEF Init, NoWorker, WorkerTyped, HoldsLock
<1>9. LocksTyped
  BY <1>6, <1>8, NoneAssumption DEF Init, LocksTyped, HoldsLock
<1>10. ThreadsTyped
  BY <1>7, <1>8 DEF ThreadsTyped
<1> QED
  BY <1>3, <1>4, <1>5, <1>6, <1>7, <1>8, <1>9, <1>10 DEF BoundInv

------------------------------------------------------------------------------
\* The ways the worker's record moves within a range.
LEMMA WorkerMoves ==
  ASSUME worker \in WorkerRecords
  PROVE  /\ EndRange => /\ worker' \in WorkerRecords /\ worker'.at = "finish"
                        /\ worker'.stop = worker.stop
         /\ NextBlock /\ worker.todo # <<>> =>
              /\ worker' \in WorkerRecords /\ worker'.at = "block"
              /\ worker'.stop = worker.stop
         /\ \A at \in {"lock", "locked", "build", "store"} :
              worker' = [worker EXCEPT !.at = at] =>
                /\ worker' \in WorkerRecords /\ worker'.at = at
                /\ worker'.stop = worker.stop /\ worker'.todo = worker.todo
         /\ \A content \in Content :
              worker' = [worker EXCEPT !.at = "publish", !.built = content] =>
                /\ worker' \in WorkerRecords /\ worker'.at = "publish"
                /\ worker'.stop = worker.stop /\ worker'.todo = worker.todo
<1>1. ASSUME EndRange
      PROVE  worker' \in WorkerRecords /\ worker'.at = "finish" /\ worker'.stop = worker.stop
  <2>1. <<>> \in Seq(Nat) /\ Torn \in Content
    BY DEF Content
  <2> QED
    BY <1>1, <2>1 DEF EndRange, WorkerRecords
<1>2. ASSUME NextBlock, worker.todo # <<>>
      PROVE  worker' \in WorkerRecords /\ worker'.at = "block" /\ worker'.stop = worker.stop
  <2>1. Torn \in Content
    BY DEF Content
  <2>2. worker.todo \in Seq(Nat)
    BY DEF WorkerRecords
  <2>3. Tail(worker.todo) \in Seq(Nat)
    BY <1>2, <2>2
  <2> QED
    BY <1>2, <2>1, <2>3 DEF NextBlock, WorkerRecords
<1>3. ASSUME NEW at \in {"lock", "locked", "build", "store"},
             worker' = [worker EXCEPT !.at = at]
      PROVE  /\ worker' \in WorkerRecords /\ worker'.at = at
             /\ worker'.stop = worker.stop /\ worker'.todo = worker.todo
  BY <1>3 DEF WorkerRecords
<1>4. ASSUME NEW content \in Content,
             worker' = [worker EXCEPT !.at = "publish", !.built = content]
      PROVE  /\ worker' \in WorkerRecords /\ worker'.at = "publish"
             /\ worker'.stop = worker.stop /\ worker'.todo = worker.todo
  BY <1>4 DEF WorkerRecords
<1> QED
  BY <1>1, <1>2, <1>3, <1>4

\* The owner at rest, and the block and the settings it may be given.
LEMMA OwnerMoves ==
  ASSUME owner \in OwnerRecords
  PROVE  /\ \A at \in {"lock", "contend", "wait", "build"} :
              owner' = [owner EXCEPT !.at = at] =>
                owner' \in OwnerRecords /\ owner'.at = at
         /\ \A i \in Nat :
              owner' = [owner EXCEPT !.at = "lock", !.block = i] =>
                owner' \in OwnerRecords /\ owner'.at = "lock"
         /\ \A then \in {"none", "reconfigure", "drop"}, c \in Configs :
              owner' = [owner EXCEPT !.at = "join", !.then = then, !.config = c] =>
                owner' \in OwnerRecords /\ owner'.at = "join"
         /\ config \in Configs => AtRest \in OwnerRecords /\ AtRest.at = "idle"
         /\ \A c \in Configs : config \in Configs =>
              /\ [AtRest EXCEPT !.config = c] \in OwnerRecords
              /\ [AtRest EXCEPT !.config = c].at = "idle"
  BY DEF OwnerRecords, AtRest

\* The indexes are numbers.
LEMMA IndexesAreNumbers == Indexes \subseteq Nat
  BY ConfigsAssumption DEF Indexes

\* Every step keeps the types of the settings, and no call is made past the bound.
LEMMA SettingsKept ==
  ASSUME BoundInv, Next
  PROVE  SettingsTyped' /\ kind' = kind
<1> USE DEF BoundInv
<1>1. CASE UNCHANGED <<settings, calls>>
  BY <1>1 DEF SettingsTyped, settings
<1>2. ASSUME UNCHANGED settings, Calls PROVE SettingsTyped' /\ kind' = kind
  BY <1>2, SizesAssumption DEF SettingsTyped, settings, Calls
<1>3. CASE DisablePrefetch \/ EnablePrefetch
  <2>1. UNCHANGED <<kind, config, max_cache_bytes>> /\ Calls /\ prefetch_enabled' \in BOOLEAN
    BY <1>3 DEF DisablePrefetch, EnablePrefetch
  <2> QED
    BY <2>1, SizesAssumption DEF Calls, SettingsTyped
<1>4. ASSUME NEW n \in Budgets, Age(n) PROVE SettingsTyped' /\ kind' = kind
  <2> DEFINE b == block_bytes
  <2>1. b \in Nat \ {0} /\ n \in Nat \ {0}
    BY Sizes, SizesAssumption
  <2>2. max_cache_bytes' = Max({b, n}) /\ Calls
        /\ UNCHANGED <<kind, config, prefetch_enabled>>
    BY <1>4 DEF Age
  <2> HIDE DEF b
  <2>3. Max({b, n}) \in {b, n}
    BY <2>1, MaxOfTwo
  <2> QED
    BY <2>1, <2>2, <2>3, SizesAssumption DEF SettingsTyped, Calls
<1>5. CASE AfterJoin
  <2>1. /\ UNCHANGED <<kind, prefetch_enabled, calls>>
        /\ config' \in {config, owner.config}
    BY <1>5 DEF AfterJoin
  <2>2. max_cache_bytes' \in Nat \ {0}
    <3>1. CASE RecreateCache(owner.config) /\ kind = "spectrum"
               /\ BlockCount[owner.config] > 0
      <4> DEFINE b == BlockBytes[kind][owner.config]
      <4>1. b \in Nat \ {0}
        BY <3>1, ConfigsAssumption DEF OwnerRecords
      <4>2. max_cache_bytes' = Max({max_cache_bytes, b})
        BY <3>1 DEF RecreateCache
      <4> HIDE DEF b
      <4>3. Max({max_cache_bytes, b}) \in {max_cache_bytes, b}
        <5> DEFINE m == max_cache_bytes
        <5>1. m \in Int
          BY DEF SettingsTyped
        <5> HIDE DEF m
        <5>2. Max({m, b}) \in {m, b}
          BY <4>1, <5>1, MaxOfTwo
        <5> QED
          BY <5>2 DEF m
      <4> QED
        BY <4>1, <4>2, <4>3 DEF SettingsTyped
    <3>2. CASE UNCHANGED max_cache_bytes
      BY <3>2 DEF SettingsTyped
    <3> QED
      BY <1>5, <3>1, <3>2 DEF AfterJoin, RecreateCache
  <2> QED
    BY <2>1, <2>2 DEF SettingsTyped, OwnerRecords
<1>6. ASSUME NEW i \in Indexes, Get(i) PROVE UNCHANGED settings /\ Calls
  BY <1>6 DEF Get
<1>7. ASSUME NEW first \in Indexes, NEW last \in Indexes, Prefetch(first, last)
      PROVE  UNCHANGED settings /\ Calls
  BY <1>7 DEF Prefetch
<1>8. ASSUME NEW c \in Configs, Reconfigure(c) \/ Drop PROVE UNCHANGED settings /\ Calls
  BY <1>8 DEF Reconfigure, Drop
<1>9. CASE GetTriesLock \/ GetAnnouncesWait \/ GetAcquires \/ GetBuilds
  BY <1>1, <1>9 DEF GetTriesLock, GetAnnouncesWait, GetAcquires, GetBuilds
<1>10. CASE WorkerStep
  BY <1>1, <1>10
  DEF WorkerStep, WorkerStops, WorkerTakes, WorkerChecks, WorkerTriesLock,
      WorkerChecksAgain, WorkerBuilds, WorkerDecides, WorkerStores, WorkerFinishes
<1> QED
  BY <1>2, <1>3, <1>4, <1>5, <1>6, <1>7, <1>8, <1>9, <1>10
  DEF Next, Call, OwnerStep, SettingsTyped

\* Every step keeps the cache within its budget.
LEMMA BudgetKept ==
  ASSUME BoundInv, Next
  PROVE  WithinBudget'
<1> USE DEF BoundInv
<1>0. /\ block_bytes \in Nat \ {0} /\ block_count \in Nat /\ max_cache_bytes \in Nat
      /\ kind \in {"spectrum", "waveform"}
  BY Sizes DEF SettingsTyped
<1>1. CASE UNCHANGED <<kind, config, max_cache_bytes, cache>>
  BY <1>1 DEF WithinBudget, block_bytes, block_count
<1>2. ASSUME NEW i \in DOMAIN cache.blocks, cache' = Touch(cache, i),
             UNCHANGED <<kind, config, max_cache_bytes>>
      PROVE  WithinBudget'
  <2>1. Kept(Touch(cache, i), block_bytes) /\ Touch(cache, i).bytes = cache.bytes
    BY TouchKeeps DEF WithinBudget, Kept
  <2> QED
    BY <1>2, <2>1 DEF WithinBudget, block_bytes, block_count
<1>3. ASSUME NEW i \in Nat, NEW content, StoreBlock(i, content),
             UNCHANGED <<kind, config, max_cache_bytes>>
      PROVE  WithinBudget'
  <2>1. Kept(cache', block_bytes) /\ cache'.bytes <= max_cache_bytes
    BY <1>0, <1>3, StoreKeeps DEF WithinBudget
  <2> QED
    BY <1>3, <2>1 DEF WithinBudget, block_bytes, block_count
<1>4. ASSUME NEW n \in Budgets, Age(n) PROVE WithinBudget'
  <2> DEFINE b == block_bytes
             m == Max({b, n})
  <2>1. n \in Nat /\ cache' = Trim(cache, m) /\ max_cache_bytes' = m
        /\ UNCHANGED <<kind, config>>
    BY <1>4, SizesAssumption DEF Age
  <2>2. b \in Nat \ {0} /\ Kept(cache, b)
    BY <1>0 DEF WithinBudget
  <2>3. b = block_bytes
    OBVIOUS
  <2> HIDE DEF b
  <2>4. m \in {b, n} /\ m >= b
    BY <2>1, <2>2, MaxOfTwo
  <2> HIDE DEF m
  <2>5. m \in Nat
    BY <2>1, <2>2, <2>4
  <2>6. Kept(Trim(cache, m), b) /\ Trim(cache, m).bytes <= m
    BY <2>2, <2>3, <2>5, TrimKeeps
  <2>7. b = block_bytes'
    BY <2>1, <2>3 DEF block_bytes
  <2> QED
    BY <2>1, <2>2, <2>4, <2>5, <2>6, <2>7 DEF WithinBudget
<1>5. CASE AfterJoin
  <2>0. block_bytes' \in Nat \ {0} /\ max_cache_bytes' \in Nat /\ kind' = kind
    BY SettingsKept, KindsAssumption, ConfigsAssumption DEF SettingsTyped, block_bytes
  <2>1. CASE ClearLocked
    <3>1. cache' = EmptyCache
      BY <2>1 DEF ClearLocked
    <3>2. Kept(cache', block_bytes') /\ cache'.bytes <= max_cache_bytes'
      BY <2>0, <3>1, EmptyKept
    <3>3. block_count' > 0 \/ kind' = "waveform" => block_bytes' <= max_cache_bytes'
      <4>1. CASE UNCHANGED <<config, max_cache_bytes>>
        BY <2>0, <4>1 DEF WithinBudget, block_count, block_bytes
      <4>2. CASE config' = owner.config /\ kind = "spectrum" /\ RecreateCache(owner.config)
        <5> DEFINE b == BlockBytes[kind][owner.config]
        <5>1. b \in Nat
          BY <4>2, ConfigsAssumption DEF OwnerRecords
        <5>2. block_bytes' = b /\ block_count' = BlockCount[owner.config]
          BY <2>0, <4>2 DEF block_bytes, block_count
        <5>3. block_count' > 0 => max_cache_bytes' = Max({max_cache_bytes, b})
          BY <4>2, <5>2 DEF RecreateCache
        <5> HIDE DEF b
        <5>4. Max({max_cache_bytes, b}) >= b
          BY <1>0, <5>1, MaxOfTwo
        <5>5. block_count' > 0 => block_bytes' <= max_cache_bytes'
          BY <1>0, <2>0, <5>1, <5>2, <5>3, <5>4
        <5>6. kind' # "waveform"
          BY <2>0, <4>2
        <5> QED
          BY <5>5, <5>6
      <4>3. CASE config' = owner.config /\ kind = "waveform" /\ RecreateCache(owner.config)
        <5>1. owner.config \in Configs /\ config \in Configs
          BY DEF OwnerRecords, SettingsTyped
        <5>2. block_bytes' = block_bytes
          BY <2>0, <4>3, <5>1, ConfigsAssumption DEF block_bytes
        <5>3. max_cache_bytes' = max_cache_bytes
          BY <4>3 DEF RecreateCache
        <5>4. block_bytes <= max_cache_bytes
          BY <4>3 DEF WithinBudget
        <5> QED
          BY <5>2, <5>3, <5>4
      <4> QED
        BY <1>0, <1>5, <4>1, <4>2, <4>3 DEF AfterJoin
    <3> QED
      BY <3>2, <3>3 DEF WithinBudget
  <2>2. CASE UNCHANGED <<config, max_cache_bytes, cache>>
    BY <1>1, <2>0, <2>2
  <2> QED
    BY <1>5, <2>1, <2>2 DEF AfterJoin, RecreateCache
<1>6. ASSUME NEW i \in Indexes, Get(i) PROVE WithinBudget'
  <2> DEFINE j == IF kind = "spectrum" /\ i >= block_count THEN block_count - 1 ELSE i
  <2>1. UNCHANGED <<kind, config, max_cache_bytes>>
    BY <1>6 DEF Get, settings
  <2>2. (j \in DOMAIN cache.blocks /\ cache' = Touch(cache, j)) \/ UNCHANGED cache
    BY <1>6 DEF Get, IsCached
  <2> HIDE DEF j
  <2> QED
    BY <1>1, <1>2, <2>1, <2>2
<1>7. CASE GetBuilds
  <2>1. UNCHANGED <<kind, config, max_cache_bytes>> /\ owner.block \in Nat
    BY <1>7 DEF GetBuilds, settings, OwnerRecords
  <2>2. CASE owner.block \in DOMAIN cache.blocks /\ cache' = Touch(cache, owner.block)
    BY <1>2, <2>1, <2>2
  <2>3. ASSUME NEW content, StoreBlock(owner.block, content) PROVE WithinBudget'
    BY <1>3, <2>1, <2>3
  <2>4. CASE UNCHANGED cache
    BY <1>1, <2>1, <2>4
  <2> QED
    BY <1>7, <2>2, <2>3, <2>4 DEF GetBuilds, IsCached
<1>8. CASE WorkerDecides \/ WorkerStores
  <2>1. UNCHANGED <<kind, config, max_cache_bytes>>
    BY <1>8 DEF WorkerDecides, WorkerStores, settings
  <2>2. Head(worker.todo) \in Nat
    <3>1. worker.todo \in Seq(Nat) /\ worker.todo # <<>>
      BY <1>8 DEF WorkerDecides, WorkerStores, WorkerTyped, WorkerRecords, HoldsLock
    <3> QED
      BY <3>1
  <2>3. CASE StoreBlock(Head(worker.todo), worker.built)
    BY <1>3, <2>1, <2>2, <2>3
  <2>4. CASE UNCHANGED cache
    BY <1>1, <2>1, <2>4
  <2> QED
    BY <1>8, <2>3, <2>4 DEF WorkerDecides, WorkerStores
<1>9. ASSUME NEW first \in Indexes, NEW last \in Indexes, Prefetch(first, last)
      PROVE  UNCHANGED <<kind, config, max_cache_bytes, cache>>
  BY <1>9 DEF Prefetch, settings
<1>10. ASSUME NEW c \in Configs,
              Reconfigure(c) \/ Drop \/ DisablePrefetch \/ EnablePrefetch
       PROVE  UNCHANGED <<kind, config, max_cache_bytes, cache>>
  BY <1>10 DEF Reconfigure, Drop, DisablePrefetch, EnablePrefetch, settings
<1>11. CASE GetTriesLock \/ GetAnnouncesWait \/ GetAcquires
  BY <1>1, <1>11 DEF GetTriesLock, GetAnnouncesWait, GetAcquires, settings
<1>12. CASE WorkerStops \/ WorkerTakes \/ WorkerChecks \/ WorkerTriesLock
            \/ WorkerChecksAgain \/ WorkerBuilds \/ WorkerFinishes
  BY <1>1, <1>12
  DEF WorkerStops, WorkerTakes, WorkerChecks, WorkerTriesLock, WorkerChecksAgain,
      WorkerBuilds, WorkerFinishes, settings
<1> QED
  BY <1>1, <1>4, <1>5, <1>6, <1>7, <1>8, <1>9, <1>10, <1>11, <1>12
  DEF Next, Call, OwnerStep, WorkerStep, SettingsTyped

\* What a build of block i leaves in the window.
LEMMA BuildTyped ==
  ASSUME NEW i \in Nat, config \in Configs, window \in WindowRecords, NEW content
  PROVE  /\ BuildBlock(i, content) => window' \in WindowRecords /\ content \in Content
         /\ BuildFails => window' \in WindowRecords
<1>1. <<config, i>> \in Content /\ Torn \in Content
  BY DEF Content
<1>2. ASSUME BuildBlock(i, content)
      PROVE  window' \in WindowRecords /\ content \in Content
  <2>1. content \in Content
    BY <1>1, <1>2 DEF BuildBlock, WindowFor
  <2> QED
    BY <1>2, <2>1 DEF BuildBlock, WindowRecords
<1>3. ASSUME BuildFails PROVE window' \in WindowRecords
  BY <1>1, <1>3 DEF BuildFails, WindowRecords
<1> QED
  BY <1>2, <1>3

\* Every step keeps the type of the window.
LEMMA WindowKept ==
  ASSUME BoundInv, Next
  PROVE  window' \in WindowRecords
<1> USE DEF BoundInv
<1>0. window \in WindowRecords /\ config \in Configs
  BY DEF SettingsTyped
<1>1. CASE UNCHANGED window
  BY <1>0, <1>1
<1>2. CASE GetBuilds
  <2>1. owner.block \in Nat
    BY DEF OwnerRecords
  <2>2. ASSUME NEW content, BuildBlock(owner.block, content) PROVE window' \in WindowRecords
    BY <1>0, <2>1, <2>2, BuildTyped
  <2>3. CASE BuildFails
    BY <1>0, <2>1, <2>3, BuildTyped
  <2> QED
    BY <1>1, <1>2, <2>2, <2>3 DEF GetBuilds
<1>3. CASE WorkerBuilds
  <2>1. Head(worker.todo) \in Nat
    <3>1. worker.todo \in Seq(Nat) /\ worker.todo # <<>>
      BY <1>3 DEF WorkerBuilds, WorkerTyped, WorkerRecords, HoldsLock
    <3> QED
      BY <3>1
  <2>2. ASSUME NEW content, BuildBlock(Head(worker.todo), content)
        PROVE  window' \in WindowRecords
    BY <1>0, <2>1, <2>2, BuildTyped
  <2>3. CASE BuildFails
    BY <1>0, <2>1, <2>3, BuildTyped
  <2> QED
    BY <1>1, <1>3, <2>2, <2>3 DEF WorkerBuilds
<1>4. CASE AfterJoin
  <2>1. CASE ClearLocked
    BY <1>0, <2>1 DEF ClearLocked, WindowRecords
  <2> QED
    BY <1>1, <1>4, <2>1 DEF AfterJoin, RecreateCache
<1>5. CASE Call
  BY <1>1, <1>5
  DEF Call, Get, Prefetch, Reconfigure, Age, Drop, DisablePrefetch, EnablePrefetch
<1>6. CASE GetTriesLock \/ GetAnnouncesWait \/ GetAcquires
  BY <1>1, <1>6 DEF GetTriesLock, GetAnnouncesWait, GetAcquires
<1>7. CASE WorkerStops \/ WorkerTakes \/ WorkerChecks \/ WorkerTriesLock
           \/ WorkerChecksAgain \/ WorkerDecides \/ WorkerStores \/ WorkerFinishes
  BY <1>1, <1>7
  DEF WorkerStops, WorkerTakes, WorkerChecks, WorkerTriesLock, WorkerChecksAgain,
      WorkerDecides, WorkerStores, WorkerFinishes
<1> QED
  BY <1>2, <1>3, <1>4, <1>5, <1>6, <1>7 DEF Next, OwnerStep, WorkerStep

------------------------------------------------------------------------------
\* The threads' records, the lock and the prefetch state move together.
ThreadsInv ==
  /\ owner \in OwnerRecords /\ SchedulerTyped /\ WorkerTyped /\ LocksTyped /\ ThreadsTyped

\* A step of the owner that leaves the worker and the scheduler alone keeps them.
LEMMA OwnerAloneKeeps ==
  ASSUME ThreadsInv, UNCHANGED <<prefetching, worker>>, owner' \in OwnerRecords,
         LocksTyped', owner.at # "join" \/ ~worker.stop
  PROVE  ThreadsInv'
  BY DEF ThreadsInv, SchedulerTyped, WorkerTyped, ThreadsTyped, prefetching

\* A step of the worker that leaves the owner and the scheduler alone keeps them.
LEMMA WorkerAloneKeeps ==
  ASSUME ThreadsInv, UNCHANGED <<prefetching, owner, visible_waiters>>, WorkerTyped',
         worker.at # "none", worker'.at # "none", worker'.stop = worker.stop,
         \/ build_mutex' = build_mutex /\ HoldsLock(worker'.at) = HoldsLock(worker.at)
         \/ build_mutex' = None /\ HoldsLock(worker.at) /\ ~HoldsLock(worker'.at)
         \/ build_mutex = None /\ build_mutex' = "worker" /\ HoldsLock(worker'.at)
  PROVE  ThreadsInv'
<1>1. SchedulerTyped' /\ owner' \in OwnerRecords
  BY DEF ThreadsInv, SchedulerTyped, prefetching
<1>2. ThreadsTyped'
  BY DEF ThreadsInv, ThreadsTyped, prefetching
<1>3. LocksTyped'
  <2>1. (build_mutex' = "worker") <=> HoldsLock(worker'.at)
    <3>1. (build_mutex = "worker") <=> HoldsLock(worker.at)
      BY DEF ThreadsInv, LocksTyped, HoldsLock
    <3>2. None # "worker"
      BY NoneAssumption
    <3> QED
      BY <3>1, <3>2 DEF HoldsLock
  <2>2. (build_mutex' = "owner") <=> (owner'.at = "build")
    <3>1. (build_mutex = "owner") <=> (owner.at = "build")
      BY DEF ThreadsInv, LocksTyped
    <3>2. (build_mutex = "worker") <=> HoldsLock(worker.at)
      BY DEF ThreadsInv, LocksTyped, HoldsLock
    <3>3. None # "owner"
      BY NoneAssumption
    <3> QED
      BY <3>1, <3>2, <3>3
  <2> QED
    BY <2>1, <2>2 DEF ThreadsInv, LocksTyped, HoldsLock
<1> QED
  BY <1>1, <1>2, <1>3 DEF ThreadsInv

\* What a prefetch asks for is a range.
LEMMA PrefetchRange ==
  ASSUME NEW first \in Indexes, NEW last \in Indexes, block_count \in Nat,
         first <= last, first < block_count
  PROVE  <<first, Min({last, block_count - 1})>> \in Ranges
<1> DEFINE e == block_count - 1
<1>1. first \in Nat /\ last \in Nat /\ e \in Int
  BY IndexesAreNumbers
<1>2. first <= e
  BY <1>1
<1> HIDE DEF e
<1>3. Min({last, e}) \in {last, e} /\ Min({last, e}) <= last
  BY <1>1, MinOfTwo
<1>4. PICK c \in Configs : last \in 0..BlockCount[c]
  BY DEF Indexes
<1> DEFINE m == Min({last, e})
<1>5. m \in Nat /\ first <= m /\ m <= last
  BY <1>1, <1>2, <1>3
<1> HIDE DEF m
<1>6. m \in 0..BlockCount[c]
  BY <1>1, <1>4, <1>5, ConfigsAssumption
<1>7. m \in Indexes
  BY <1>6 DEF Indexes
<1>8. <<first, m>> \in Ranges
  BY <1>5, <1>7 DEF Ranges
<1> QED
  BY <1>8 DEF m, e

\* A call that stops the scheduler tells the worker to stop and goes on to join it.
LEMMA StopKeeps ==
  ASSUME ThreadsInv, owner.at = "idle", NEW then \in {"none", "reconfigure", "drop"},
         NEW c \in Configs, StopScheduler(then, c), UNCHANGED <<build_mutex, visible_waiters>>
  PROVE  ThreadsInv'
<1> USE DEF ThreadsInv
<1>1. owner' \in OwnerRecords /\ owner'.at = "join"
  BY OwnerMoves DEF StopScheduler
<1>2. SchedulerTyped' /\ scheduler'.exists = FALSE
  BY DEF StopScheduler, SchedulerTyped, SchedulerRecords, NoScheduler
<1>3. scheduler.exists \in BOOLEAN /\ worker \in WorkerRecords
  BY DEF SchedulerTyped, SchedulerRecords, WorkerTyped
<1>4. /\ worker' \in WorkerRecords /\ worker'.at = worker.at
      /\ worker'.todo = worker.todo /\ worker'.stop = scheduler.exists
  BY <1>3 DEF StopScheduler, WorkerRecords
<1>5. WorkerTyped'
  BY <1>4 DEF WorkerTyped, HoldsLock
<1>6. LocksTyped'
  BY <1>1, <1>4 DEF LocksTyped, HoldsLock
<1>7. ~worker.stop /\ scheduler.exists = (worker.at # "none" /\ ~worker.stop)
  BY DEF ThreadsTyped
<1>8. ThreadsTyped'
  BY <1>1, <1>2, <1>4, <1>7 DEF ThreadsTyped
<1> QED
  BY <1>1, <1>2, <1>5, <1>6, <1>8

\* A prefetch gives its range to the worker there is, or to a new one.
LEMMA PrefetchKeeps ==
  ASSUME ThreadsInv, SettingsTyped, NEW first \in Indexes, NEW last \in Indexes,
         Prefetch(first, last)
  PROVE  ThreadsInv'
<1> USE DEF ThreadsInv
<1> DEFINE r == <<first, Min({last, block_count - 1})>>
<1>1. UNCHANGED <<owner, build_mutex, visible_waiters>> /\ owner.at = "idle"
  BY DEF Prefetch, Calls
<1>2. CASE UNCHANGED <<prefetching, worker>>
  BY <1>1, <1>2, OwnerAloneKeeps DEF LocksTyped
<1>3. CASE ~UNCHANGED <<prefetching, worker>>
  <2>1. r \in Ranges
    BY Sizes, PrefetchRange DEF Prefetch
  <2>2. /\ scheduler' = [exists |-> TRUE, has_request |-> TRUE, range |-> r,
                         generation |-> scheduler.generation + 1]
        /\ active_generation' = scheduler.generation + 1 /\ active_range' = r
        /\ worker' = IF scheduler.exists THEN worker ELSE [NoWorker EXCEPT !.at = "wait"]
    BY <1>3 DEF Prefetch
  <2> HIDE DEF r
  <2>3. SchedulerTyped' /\ scheduler'.exists = TRUE
    BY <2>1, <2>2 DEF SchedulerTyped, SchedulerRecords
  <2>4. ~worker.stop /\ scheduler.exists = (worker.at # "none" /\ ~worker.stop)
    BY <1>1 DEF ThreadsTyped
  <2>5. /\ WorkerTyped' /\ worker'.at # "none" /\ ~worker'.stop
        /\ HoldsLock(worker'.at) <=> HoldsLock(worker.at)
    <3>1. CASE scheduler.exists
      BY <2>2, <2>4, <3>1 DEF WorkerTyped, HoldsLock
    <3>2. CASE ~scheduler.exists
      <4>1. worker.at = "none"
        BY <2>4, <3>2
      <4>2. worker' = [NoWorker EXCEPT !.at = "wait"]
        BY <2>2, <3>2
      <4>3. worker' \in WorkerRecords /\ worker'.at = "wait" /\ worker'.stop = FALSE
        BY <4>2, NoWorkerTyped DEF NoWorker, WorkerRecords
      <4> QED
        BY <4>1, <4>3 DEF WorkerTyped, HoldsLock
    <3> QED
      BY <3>1, <3>2
  <2>6. LocksTyped'
    BY <1>1, <2>5 DEF LocksTyped, HoldsLock
  <2>7. ThreadsTyped'
    BY <2>3, <2>5 DEF ThreadsTyped
  <2> QED
    BY <1>1, <2>3, <2>5, <2>6, <2>7
<1> QED
  BY <1>2, <1>3

\* Every call keeps the threads' state.
LEMMA ThreadsCall ==
  ASSUME ThreadsInv, SettingsTyped, Call
  PROVE  ThreadsInv'
<1>1. ASSUME NEW i \in Indexes, Get(i) PROVE ThreadsInv'
  <2> DEFINE j == IF kind = "spectrum" /\ i >= block_count THEN block_count - 1 ELSE i
  <2>1. /\ UNCHANGED <<prefetching, worker, build_mutex, visible_waiters>>
        /\ owner.at = "idle" /\ block_count > 0
        /\ owner' = owner \/ owner' = [owner EXCEPT !.at = "lock", !.block = j]
    BY <1>1 DEF Get, Calls
  <2>2. j \in Nat
    BY <2>1, Sizes, IndexesAreNumbers
  <2> HIDE DEF j
  <2>3. owner' \in OwnerRecords /\ owner'.at \in {"idle", "lock"}
    BY <2>1, <2>2, OwnerMoves DEF ThreadsInv
  <2>4. LocksTyped'
    BY <2>1, <2>3 DEF ThreadsInv, LocksTyped
  <2> QED
    BY <2>1, <2>3, <2>4, OwnerAloneKeeps
<1>2. ASSUME NEW first \in Indexes, NEW last \in Indexes, Prefetch(first, last)
      PROVE  ThreadsInv'
  BY <1>2, PrefetchKeeps
<1>3. ASSUME NEW c \in Configs, Reconfigure(c) PROVE ThreadsInv'
  BY <1>3, StopKeeps DEF Reconfigure, Calls
<1>4. CASE Drop
  BY <1>4, StopKeeps DEF Drop, Calls, SettingsTyped
<1>5. CASE DisablePrefetch
  BY <1>5, StopKeeps DEF DisablePrefetch, Calls, SettingsTyped
<1>6. ASSUME UNCHANGED <<prefetching, worker, owner, build_mutex, visible_waiters>>,
             owner.at = "idle"
      PROVE  ThreadsInv'
  BY <1>6, OwnerAloneKeeps DEF ThreadsInv, LocksTyped
<1>7. CASE EnablePrefetch
  BY <1>6, <1>7 DEF EnablePrefetch, Calls
<1>8. ASSUME NEW n \in Budgets, Age(n) PROVE ThreadsInv'
  BY <1>6, <1>8 DEF Age, Calls
<1> QED
  BY <1>1, <1>2, <1>3, <1>4, <1>5, <1>7, <1>8 DEF Call

\* Every step inside a call keeps the threads' state.
LEMMA ThreadsOwner ==
  ASSUME ThreadsInv, SettingsTyped, SettingsTyped', OwnerStep
  PROVE  ThreadsInv'
<1>0. None # "owner" /\ None # "worker"
  BY NoneAssumption
<1>1. CASE GetTriesLock
  <2>1. UNCHANGED <<prefetching, worker, visible_waiters>> /\ owner.at = "lock"
    BY <1>1 DEF GetTriesLock
  <2>2. owner' \in OwnerRecords
    BY <1>1, OwnerMoves DEF GetTriesLock, ThreadsInv
  <2>3. LocksTyped'
    <3>1. CASE build_mutex = None
      <4>1. build_mutex' = "owner" /\ owner'.at = "build"
        BY <1>1, <3>1, OwnerMoves DEF GetTriesLock, ThreadsInv
      <4> QED
        BY <1>0, <2>1, <3>1, <4>1 DEF ThreadsInv, LocksTyped
    <3>2. CASE build_mutex # None
      <4>1. build_mutex' = build_mutex /\ owner'.at = "contend"
        BY <1>1, <3>2, OwnerMoves DEF GetTriesLock, ThreadsInv
      <4> QED
        BY <2>1, <4>1 DEF ThreadsInv, LocksTyped
    <3> QED
      BY <3>1, <3>2
  <2> QED
    BY <2>1, <2>2, <2>3, OwnerAloneKeeps
<1>2. CASE GetAnnouncesWait
  <2>1. /\ UNCHANGED <<prefetching, worker, build_mutex>> /\ owner.at = "contend"
        /\ visible_waiters' = visible_waiters + 1
    BY <1>2 DEF GetAnnouncesWait
  <2>2. owner' \in OwnerRecords /\ owner'.at = "wait"
    BY <1>2, OwnerMoves DEF GetAnnouncesWait, ThreadsInv
  <2>3. LocksTyped'
    BY <2>1, <2>2 DEF ThreadsInv, LocksTyped
  <2> QED
    BY <2>1, <2>2, <2>3, OwnerAloneKeeps
<1>3. CASE GetAcquires
  <2>1. /\ UNCHANGED <<prefetching, worker>> /\ owner.at = "wait"
        /\ build_mutex = None /\ build_mutex' = "owner"
        /\ visible_waiters' = visible_waiters - 1
    BY <1>3 DEF GetAcquires
  <2>2. owner' \in OwnerRecords /\ owner'.at = "build"
    BY <1>3, OwnerMoves DEF GetAcquires, ThreadsInv
  <2>3. LocksTyped'
    BY <1>0, <2>1, <2>2 DEF ThreadsInv, LocksTyped
  <2> QED
    BY <2>1, <2>2, <2>3, OwnerAloneKeeps
<1>4. CASE GetBuilds
  <2>1. /\ UNCHANGED <<prefetching, worker, visible_waiters>> /\ owner.at = "build"
        /\ build_mutex' = None /\ owner' = AtRest
    BY <1>4 DEF GetBuilds
  <2>2. owner' \in OwnerRecords /\ owner'.at = "idle"
    BY <2>1, OwnerMoves DEF ThreadsInv, SettingsTyped
  <2>3. LocksTyped'
    BY <1>0, <2>1, <2>2 DEF ThreadsInv, LocksTyped
  <2> QED
    BY <2>1, <2>2, <2>3, OwnerAloneKeeps
<1>5. CASE AfterJoin
  <2>1. /\ UNCHANGED <<prefetching, worker, build_mutex, visible_waiters>>
        /\ owner.at = "join" /\ worker.at = "none"
        /\ owner' = [AtRest EXCEPT !.config = config']
    BY <1>5 DEF AfterJoin
  <2>2. owner' \in OwnerRecords /\ owner'.at = "idle"
    <3>1. config' \in Configs /\ config \in Configs
      BY DEF SettingsTyped
    <3> QED
      BY <2>1, <3>1, OwnerMoves DEF ThreadsInv
  <2>3. ~worker.stop
    BY <2>1 DEF ThreadsInv, ThreadsTyped
  <2>4. LocksTyped'
    BY <2>1, <2>2 DEF ThreadsInv, LocksTyped
  <2> QED
    BY <2>1, <2>2, <2>3, <2>4, OwnerAloneKeeps
<1> QED
  BY <1>1, <1>2, <1>3, <1>4, <1>5 DEF OwnerStep

\* Every step of the worker keeps the threads' state.
LEMMA ThreadsWorker ==
  ASSUME ThreadsInv, SettingsTyped, window \in WindowRecords, WorkerStep
  PROVE  ThreadsInv'
<1>0. worker \in WorkerRecords /\ UNCHANGED <<owner, visible_waiters>>
  BY DEF ThreadsInv, WorkerTyped, WorkerStep, WorkerStops, WorkerTakes, WorkerChecks,
         WorkerTriesLock, WorkerChecksAgain, WorkerBuilds, WorkerDecides, WorkerStores,
         WorkerFinishes
\* The ways a step within a range may end.
<1>1. ASSUME UNCHANGED prefetching, EndRange, worker.at # "none",
             \/ HoldsLock(worker.at) /\ build_mutex' = None
             \/ ~HoldsLock(worker.at) /\ UNCHANGED build_mutex
      PROVE  ThreadsInv'
  <2>1. /\ worker' \in WorkerRecords /\ worker'.at = "finish"
        /\ worker'.stop = worker.stop
    BY <1>0, <1>1, WorkerMoves
  <2>2. WorkerTyped' /\ ~HoldsLock(worker'.at) /\ worker'.at # "none"
    BY <2>1 DEF WorkerTyped, HoldsLock
  <2>3. \/ build_mutex' = build_mutex /\ HoldsLock(worker'.at) = HoldsLock(worker.at)
        \/ build_mutex' = None /\ HoldsLock(worker.at) /\ ~HoldsLock(worker'.at)
    BY <1>1, <2>2 DEF HoldsLock
  <2>4. UNCHANGED <<prefetching, owner, visible_waiters>>
    BY <1>0, <1>1
  <2> QED
    BY <1>1, <2>1, <2>2, <2>3, <2>4, WorkerAloneKeeps
<1>2. ASSUME UNCHANGED prefetching, NextBlock, worker.todo # <<>>, worker.at # "none",
             \/ HoldsLock(worker.at) /\ build_mutex' = None
             \/ ~HoldsLock(worker.at) /\ UNCHANGED build_mutex
      PROVE  ThreadsInv'
  <2>1. /\ worker' \in WorkerRecords /\ worker'.at = "block"
        /\ worker'.stop = worker.stop
    BY <1>0, <1>2, WorkerMoves
  <2>2. WorkerTyped' /\ ~HoldsLock(worker'.at) /\ worker'.at # "none"
    BY <2>1 DEF WorkerTyped, HoldsLock
  <2>3. \/ build_mutex' = build_mutex /\ HoldsLock(worker'.at) = HoldsLock(worker.at)
        \/ build_mutex' = None /\ HoldsLock(worker.at) /\ ~HoldsLock(worker'.at)
    BY <1>2, <2>2 DEF HoldsLock
  <2>4. UNCHANGED <<prefetching, owner, visible_waiters>>
    BY <1>0, <1>2
  <2> QED
    BY <1>2, <2>1, <2>2, <2>3, <2>4, WorkerAloneKeeps
<1>3. ASSUME UNCHANGED prefetching, worker.todo # <<>>, worker.at # "none",
             NEW at \in {"lock", "locked", "build", "store"},
             worker' = [worker EXCEPT !.at = at],
             \/ (HoldsLock(worker.at) <=> HoldsLock(at)) /\ UNCHANGED build_mutex
             \/ HoldsLock(at) /\ build_mutex = None /\ build_mutex' = "worker"
      PROVE  ThreadsInv'
  <2>1. /\ worker' \in WorkerRecords /\ worker'.at = at
        /\ worker'.stop = worker.stop /\ worker'.todo = worker.todo
    BY <1>0, <1>3, WorkerMoves
  <2>2. WorkerTyped' /\ worker'.at # "none"
    BY <1>3, <2>1 DEF WorkerTyped
  <2>3. \/ build_mutex' = build_mutex /\ HoldsLock(worker'.at) = HoldsLock(worker.at)
        \/ build_mutex = None /\ build_mutex' = "worker" /\ HoldsLock(worker'.at)
    <3>1. worker'.at = at
      BY <2>1
    <3> QED
      BY <1>3, <3>1 DEF HoldsLock
  <2>4. UNCHANGED <<prefetching, owner, visible_waiters>>
    BY <1>0, <1>3
  <2> QED
    BY <1>3, <2>1, <2>2, <2>3, <2>4, WorkerAloneKeeps
<1>4. CASE WorkerStops
  <2>1. worker.stop /\ worker.at = "wait" /\ worker' = NoWorker
        /\ UNCHANGED <<prefetching, build_mutex>>
    BY <1>4 DEF WorkerStops
  <2>2. worker' \in WorkerRecords /\ worker'.at = "none" /\ worker'.stop = FALSE
    BY <2>1, NoWorkerTyped DEF NoWorker
  <2>3. WorkerTyped' /\ SchedulerTyped'
    BY <2>1, <2>2 DEF WorkerTyped, HoldsLock, ThreadsInv, SchedulerTyped, prefetching
  <2>4. LocksTyped'
    BY <1>0, <2>1, <2>2 DEF ThreadsInv, LocksTyped, HoldsLock
  <2>5. ThreadsTyped'
    BY <2>1, <2>2 DEF ThreadsInv, ThreadsTyped, prefetching
  <2> QED
    BY <1>0, <2>3, <2>4, <2>5 DEF ThreadsInv
<1>5. CASE WorkerTakes
  <2>1. /\ worker.at = "wait" /\ scheduler.has_request
        /\ scheduler' = [scheduler EXCEPT !.has_request = FALSE]
        /\ worker' = [worker EXCEPT !.at = "block", !.generation = scheduler.generation,
                                    !.range = scheduler.range,
                                    !.todo = Ordered(scheduler.range)]
        /\ UNCHANGED <<active_generation, active_range, build_mutex>>
    BY <1>5 DEF WorkerTakes
  <2>2. scheduler \in SchedulerRecords /\ scheduler.range \in Ranges
        /\ scheduler.generation \in Nat
    BY <2>1 DEF ThreadsInv, SchedulerTyped, SchedulerRecords
  <2> DEFINE todo == Ordered(scheduler.range)
  <2>3. todo \in Seq(Nat)
    BY <2>2, OrderedTyped
  <2> HIDE DEF todo
  <2>4. /\ worker' \in WorkerRecords /\ worker'.at = "block"
        /\ worker'.stop = worker.stop
    <3>1. worker' = [worker EXCEPT !.at = "block", !.generation = scheduler.generation,
                                   !.range = scheduler.range, !.todo = todo]
      BY <2>1 DEF todo
    <3> QED
      BY <1>0, <2>2, <2>3, <3>1 DEF WorkerRecords
  <2>5. WorkerTyped'
    BY <2>4 DEF WorkerTyped, HoldsLock
  <2>6. SchedulerTyped' /\ scheduler'.exists = scheduler.exists
    BY <2>1, <2>2 DEF ThreadsInv, SchedulerTyped, SchedulerRecords
  <2>7. LocksTyped'
    BY <1>0, <2>1, <2>4 DEF ThreadsInv, LocksTyped, HoldsLock
  <2>8. ThreadsTyped'
    BY <1>0, <2>1, <2>4, <2>6 DEF ThreadsInv, ThreadsTyped
  <2> QED
    BY <1>0, <2>5, <2>6, <2>7, <2>8 DEF ThreadsInv
<1>6. CASE WorkerChecks
  <2>1. UNCHANGED <<prefetching, build_mutex>> /\ worker.at = "block"
    BY <1>6 DEF WorkerChecks
  <2>2. \/ EndRange
        \/ NextBlock /\ worker.todo # <<>>
        \/ worker' = [worker EXCEPT !.at = "lock"] /\ worker.todo # <<>>
    BY <1>6 DEF WorkerChecks
  <2> QED
    BY <1>1, <1>2, <1>3, <2>1, <2>2 DEF HoldsLock
<1>7. CASE WorkerTriesLock
  <2>1. /\ UNCHANGED prefetching /\ worker.at = "lock" /\ worker.todo # <<>>
    BY <1>7 DEF WorkerTriesLock, ThreadsInv, WorkerTyped
  <2>2. \/ EndRange /\ UNCHANGED build_mutex
        \/ /\ build_mutex = None /\ build_mutex' = "worker"
           /\ worker' = [worker EXCEPT !.at = "locked"]
    BY <1>7 DEF WorkerTriesLock
  <2> QED
    BY <1>1, <1>3, <2>1, <2>2 DEF HoldsLock
<1>8. CASE WorkerChecksAgain
  <2>1. /\ UNCHANGED prefetching /\ worker.at = "locked" /\ worker.todo # <<>>
    BY <1>8 DEF WorkerChecksAgain, ThreadsInv, WorkerTyped, HoldsLock
  <2>2. \/ EndRange /\ build_mutex' = None
        \/ NextBlock /\ build_mutex' = None
        \/ worker' = [worker EXCEPT !.at = "build"] /\ UNCHANGED build_mutex
    BY <1>8 DEF WorkerChecksAgain
  <2> QED
    BY <1>1, <1>2, <1>3, <2>1, <2>2 DEF HoldsLock
<1>9. CASE WorkerBuilds
  <2>1. /\ UNCHANGED prefetching /\ worker.at = "build" /\ worker.todo # <<>>
    BY <1>9 DEF WorkerBuilds, ThreadsInv, WorkerTyped, HoldsLock
  <2>2. CASE EndRange /\ build_mutex' = None
    BY <1>1, <2>1, <2>2 DEF HoldsLock
  <2>3. ASSUME NEW content, BuildBlock(Head(worker.todo), content), UNCHANGED build_mutex,
               worker' = [worker EXCEPT !.at = "publish", !.built = content]
        PROVE  ThreadsInv'
    <3>1. Head(worker.todo) \in Nat
      <4>1. worker.todo \in Seq(Nat)
        BY <1>0 DEF WorkerRecords
      <4> QED
        BY <2>1, <4>1
    <3>2. content \in Content
      BY <2>3, <3>1, BuildTyped DEF SettingsTyped
    <3>3. /\ worker' \in WorkerRecords /\ worker'.at = "publish"
          /\ worker'.stop = worker.stop /\ worker'.todo = worker.todo
      BY <1>0, <2>3, <3>2, WorkerMoves
    <3>4. WorkerTyped' /\ HoldsLock(worker'.at) /\ HoldsLock(worker.at)
      BY <2>1, <3>3 DEF WorkerTyped, HoldsLock
    <3>5. worker'.at # "none"
      BY <3>3
    <3> QED
      BY <1>0, <2>1, <2>3, <3>3, <3>4, <3>5, WorkerAloneKeeps
  <2> QED
    BY <1>9, <2>2, <2>3 DEF WorkerBuilds
<1>10. CASE WorkerDecides \/ WorkerStores
  <2>1. /\ UNCHANGED prefetching /\ worker.at \in {"publish", "store"}
        /\ worker.todo # <<>>
    BY <1>10 DEF WorkerDecides, WorkerStores, ThreadsInv, WorkerTyped, HoldsLock
  <2>2. \/ EndRange /\ build_mutex' = None
        \/ NextBlock /\ build_mutex' = None
        \/ worker' = [worker EXCEPT !.at = "store"] /\ UNCHANGED build_mutex
    BY <1>10 DEF WorkerDecides, WorkerStores
  <2> QED
    BY <1>1, <1>2, <1>3, <2>1, <2>2 DEF HoldsLock
<1>11. CASE WorkerFinishes
  <2>1. /\ worker.at = "finish"
        /\ worker' = [NoWorker EXCEPT !.at = "wait", !.stop = worker.stop]
        /\ UNCHANGED <<scheduler, build_mutex>>
        /\ active_generation' \in {active_generation, 0}
        /\ active_range' \in {active_range, None}
    BY <1>11 DEF WorkerFinishes
  <2>2. worker.stop \in BOOLEAN
    BY <1>0 DEF WorkerRecords
  <2>3. worker' \in WorkerRecords
    BY <2>1, <2>2, NoWorkerTyped
  <2>4. worker'.at = "wait" /\ worker'.stop = worker.stop
    BY <2>1 DEF NoWorker
  <2>5. WorkerTyped' /\ SchedulerTyped'
    BY <2>1, <2>3, <2>4 DEF WorkerTyped, HoldsLock, ThreadsInv, SchedulerTyped
  <2>6. LocksTyped'
    BY <1>0, <2>1, <2>4 DEF ThreadsInv, LocksTyped, HoldsLock
  <2>7. ThreadsTyped'
    BY <1>0, <2>1, <2>4 DEF ThreadsInv, ThreadsTyped
  <2> QED
    BY <1>0, <2>5, <2>6, <2>7 DEF ThreadsInv
<1> QED
  BY <1>4, <1>5, <1>6, <1>7, <1>8, <1>9, <1>10, <1>11 DEF WorkerStep

\* The invariant is inductive.
LEMMA BoundStep ==
  ASSUME BoundInv, [Next]_vars
  PROVE  BoundInv'
<1>1. CASE Next
  <2>1. SettingsTyped' /\ WithinBudget' /\ window' \in WindowRecords
    BY <1>1, SettingsKept, BudgetKept, WindowKept
  <2>2. SettingsTyped /\ window \in WindowRecords /\ ThreadsInv
    BY DEF BoundInv, ThreadsInv
  <2>3. ThreadsInv'
    BY <1>1, <2>1, <2>2, ThreadsCall, ThreadsOwner, ThreadsWorker DEF Next
  <2> QED
    BY <2>1, <2>3 DEF BoundInv, ThreadsInv
<1>2. CASE UNCHANGED vars
  BY <1>2
  DEF vars, BoundInv, SettingsTyped, WithinBudget, block_bytes, block_count,
      SchedulerTyped, WorkerTyped, LocksTyped, ThreadsTyped
<1> QED
  BY <1>1, <1>2

\* The invariant holds of every behaviour.
LEMMA Bounded == Spec => []BoundInv
  BY BoundInit, BoundStep, PTL DEF Spec

\* The cache keeps to its budget and can go on doing so for every source, block size, mix
\* of resolutions and budget: the bytes counted are those of its blocks and no more than
\* allowed, every block can be found again to be evicted, and the newest stays.
THEOREM StaysBounded == Spec => []CacheIsBounded
<1>1. BoundInv => CacheIsBounded
  BY DEF BoundInv, WithinBudget, Kept, Counted, Findable, NewestIsCached, CacheIsBounded,
         IsCached
<1> QED
  BY <1>1, Bounded, PTL

\* The variables keep their types, and the thread that has the lock is the one the lock
\* names.
THEOREM TypeCorrect == Spec => []TypeOK
<1>1. BoundInv /\ BlocksAreExact => TypeOK
  <2> SUFFICES ASSUME BoundInv, BlocksAreExact PROVE TypeOK
    OBVIOUS
  <2> USE DEF BoundInv
  <2>1. /\ cache.touches \in Seq(Nat) /\ DOMAIN cache.blocks \in SUBSET Nat
        /\ cache.bytes \in Nat
    <3>1. Counted(cache, block_bytes)
      BY DEF WithinBudget, Kept
    <3>2. Cardinality(DOMAIN cache.blocks) \in Nat
      BY <3>1, FS_CardinalityType DEF Counted
    <3>3. block_bytes \in Nat
      BY Sizes
    <3> QED
      BY <3>1, <3>2, <3>3 DEF Counted
  <2>2. \A i \in DOMAIN cache.blocks : i \in Nat /\ cache.blocks[i] \in Content
    <3> SUFFICES ASSUME NEW i \in DOMAIN cache.blocks
                 PROVE  i \in Nat /\ cache.blocks[i] \in Content
      OBVIOUS
    <3>1. i \in Nat /\ cache.blocks[i] = <<config, i>>
      BY <2>1 DEF BlocksAreExact
    <3>2. config \in Configs
      BY DEF SettingsTyped
    <3> QED
      BY <3>1, <3>2 DEF Content
  <2>3. /\ scheduler \in SchedulerRecords
        /\ active_generation \in Nat /\ active_range \in Ranges \cup {None}
    BY DEF SchedulerTyped
  <2>4. worker \in WorkerRecords
    BY DEF WorkerTyped
  <2>5. scheduler.exists = (worker.at # "none" /\ ~worker.stop)
    BY DEF ThreadsTyped
  <2>6. /\ visible_waiters = IF owner.at = "wait" THEN 1 ELSE 0
        /\ (build_mutex = "owner") = (owner.at = "build")
        /\ (build_mutex = "worker")
             = (worker.at \in {"locked", "build", "publish", "store"})
    BY DEF LocksTyped, HoldsLock
  <2> QED
    BY <2>1, <2>2, <2>3, <2>4, <2>5, <2>6
    DEF TypeOK, SettingsTyped, SchedulerRecords, WorkerRecords, OwnerRecords, WindowRecords
<1> QED
  BY <1>1, Bounded, ExactBlocks, PTL

==============================================================================
