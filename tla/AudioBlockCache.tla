-------------------------- MODULE AudioBlockCache --------------------------
(***************************************************************************)
(* The block caches behind the audio display: the spectrum's               *)
(* (AudioSpectrumAnalysisCache) and the waveform's                         *)
(* (AudioWaveformSummaryCache), with the thread that builds blocks ahead   *)
(* of the display (AudioLatestRangeScheduler).                             *)
(*                                                                         *)
(* One thread owns a cache and makes every call of it; a cache that was    *)
(* asked to prefetch also has a worker.  The two share the blocks (under   *)
(* cache_mutex, always for one step here), the right to read and analyse   *)
(* audio (build_mutex, held across steps) and the active range (under      *)
(* scheduler_mutex).  The two classes are the same protocol; where they    *)
(* differ the definitions ask for `kind'.  Metrics, and the ready callback *)
(* that no code of the program installs, are left out.                     *)
(***************************************************************************)
EXTENDS Integers, Sequences, FiniteSets, FiniteSetsExt

CONSTANTS
  Kinds,        \* the classes a behaviour may start with
  Configs,      \* source, mix policy and resolution of the blocks, together
  BlockCount,   \* blocks in the source under a configuration, 0 without one
  BlockBytes,   \* bytes of one block, by kind and configuration
  InitConfig, InitBytes,
  Budgets,      \* the sizes Age is called with
  MaxBlocks,    \* prefetch_build_max_blocks
  CompactAbove, \* touches the waveform cache keeps before it looks for dead ones,
  CompactShare, \* and how many per cached block
  None,         \* no range, no thread in the build section
  Torn,         \* samples of no block: a window moved and not filled again
  MaxCalls      \* bound: calls the owner makes

ASSUME KindsAssumption == Kinds \subseteq {"spectrum", "waveform"}
ASSUME ConfigsAssumption ==
  /\ InitConfig \in Configs
  /\ BlockCount \in [Configs -> Nat]
  /\ BlockBytes \in [{"spectrum", "waveform"} -> [Configs -> Nat \ {0}]]
  \* A block of the waveform is as many summaries whatever the resolution.
  /\ \A c, d \in Configs : BlockBytes["waveform"][c] = BlockBytes["waveform"][d]
ASSUME SizesAssumption ==
  /\ InitBytes \in Nat \ {0} /\ Budgets \subseteq Nat \ {0}
  /\ MaxBlocks \in Nat \ {0} /\ CompactAbove \in Nat /\ CompactShare \in Nat \ {0}
  /\ MaxCalls \in Nat
ASSUME TornAssumption == Torn \notin Configs \X Nat
ASSUME NoneAssumption ==
  None \notin {"owner", "worker"} \cup (Nat \X Nat)

VARIABLES
  kind, config,
  prefetch_enabled,
  max_cache_bytes,
  cache,             \* cache_blocks, touch_heap (oldest first), current_cache_bytes
  window,            \* rolling_window_valid, its block_index and mono_scratch
  build_mutex,       \* the thread that holds it
  visible_waiters,
  scheduler,         \* the scheduler's pending request and its generation
  active_generation, \* active_prefetch_generation, 0 when there is none
  active_range,      \* active_prefetch_first and _last
  owner,             \* the call the owner is in
  worker,            \* the scheduler's thread
  calls

vars == <<kind, config, prefetch_enabled, max_cache_bytes, cache, window, build_mutex,
          visible_waiters, scheduler, active_generation, active_range, owner, worker,
          calls>>

settings == <<kind, config, prefetch_enabled, max_cache_bytes>>
prefetching == <<scheduler, active_generation, active_range>>

block_count == BlockCount[config]
block_bytes == BlockBytes[kind][config]
AtRest == [at |-> "idle", block |-> 0, then |-> "none", config |-> config]
NoScheduler == [exists |-> FALSE, has_request |-> FALSE, range |-> None, generation |-> 0]
NoWorker == [at |-> "none", stop |-> FALSE, generation |-> 0, range |-> None,
             todo |-> <<>>, built |-> Torn]

------------------------------------------------------------------------------
(* The cache *)

EmptyCache == [blocks |-> <<>>, touches |-> <<>>, bytes |-> 0]

IsCached(i) == i \in DOMAIN cache.blocks

\* The entries of the heap that stand for a cached block: its latest touch.
LiveTouches(c) ==
  {k \in DOMAIN c.touches :
     /\ c.touches[k] \in DOMAIN c.blocks
     /\ \A j \in DOMAIN c.touches : j > k => c.touches[j] # c.touches[k]}

\* The waveform cache drops the entries that are not live when they are most of the heap.
CompactTouchHeap(c) ==
  LET kept == LiveTouches(c)
      Nth(n) == CHOOSE k \in kept : Cardinality({j \in kept : j < k}) = n - 1
  IN  IF /\ kind = "waveform"
         /\ Len(c.touches) > CompactAbove
         /\ Cardinality(DOMAIN c.blocks) < Len(c.touches) \div CompactShare
        THEN [blocks |-> c.blocks, bytes |-> c.bytes,
              touches |-> [n \in 1..Cardinality(kept) |-> c.touches[Nth(n)]]]
        ELSE c

Touch(c, i) ==
  CompactTouchHeap([blocks |-> c.blocks, touches |-> Append(c.touches, i), bytes |-> c.bytes])

Insert(c, i, content) ==
  IF i \in DOMAIN c.blocks
    THEN c
    ELSE [blocks |-> [j \in DOMAIN c.blocks \cup {i} |->
                        IF j = i THEN content ELSE c.blocks[j]],
          touches |-> c.touches,
          bytes |-> c.bytes + block_bytes]

\* Pops the heap and evicts what it names until the rest fits, or the heap is empty.
Trim(c, budget) ==
  LET live == LiveTouches(c)
      excess == Max({0, c.bytes - budget})
      wanted == (excess + block_bytes - 1) \div block_bytes
      popped == {k \in live : Cardinality({j \in live : j < k}) < wanted}
      evicted == {c.touches[k] : k \in popped}
      last == IF Cardinality(popped) < wanted THEN Len(c.touches)
              ELSE Max(popped \cup {0})
  IN  [blocks |-> [i \in DOMAIN c.blocks \ evicted |-> c.blocks[i]],
       touches |-> SubSeq(c.touches, last + 1, Len(c.touches)),
       bytes |-> c.bytes - Cardinality(evicted) * block_bytes]

StoreBlock(i, content) ==
  cache' = Trim(Touch(Insert(cache, i, content), i), max_cache_bytes)

\* The samples the window holds after a build of block i: read whole, or moved by one
\* hop and completed, when the window is the one before.
WindowFor(i) ==
  IF window.valid /\ i = window.index + 1
    THEN IF window.holds = <<config, window.index>> THEN <<config, i>> ELSE Torn
    ELSE <<config, i>>

\* A build of block i reads the source.  Only the spectrum has a rolling window.
BuildBlock(i, content) ==
  /\ content = IF kind = "spectrum" THEN WindowFor(i) ELSE <<config, i>>
  /\ window' = IF kind = "spectrum"
                 THEN [valid |-> TRUE, index |-> i, holds |-> content] ELSE window

\* Mutant: the window is given up only after a read that succeeded.
BuildFails_KeepsWindow ==
  window' = IF kind = "spectrum" THEN [window EXCEPT !.holds = Torn] ELSE window

\* The source throws while the block is read (a waveform may also give up on a number
\* that does not fit): what was moved in the window stays moved.
BuildFails ==
  window' = IF kind = "spectrum" THEN [valid |-> FALSE, index |-> window.index, holds |-> Torn]
            ELSE window

ClearLocked ==
  /\ cache' = EmptyCache
  /\ window' = [valid |-> FALSE, index |-> window.index, holds |-> window.holds]

\* Mutant: the budget of the old resolution stays, however large a block has become.
RecreateCache_KeepsBudget(c) == ClearLocked /\ UNCHANGED max_cache_bytes

\* The spectrum raises its budget to one block when there is something to cache.
RecreateCache(c) ==
  /\ ClearLocked
  /\ max_cache_bytes' = IF kind = "spectrum" /\ BlockCount[c] > 0
                          THEN Max({max_cache_bytes, BlockBytes[kind][c]})
                          ELSE max_cache_bytes

IsCurrent(generation) == generation # 0 /\ generation = active_generation

------------------------------------------------------------------------------
Init ==
  /\ kind \in Kinds
  /\ config = InitConfig /\ prefetch_enabled = TRUE
  /\ max_cache_bytes = Max({InitBytes, BlockBytes[kind][InitConfig]})
  /\ cache = EmptyCache
  /\ window = [valid |-> FALSE, index |-> 0, holds |-> Torn]
  /\ build_mutex = None /\ visible_waiters = 0
  /\ scheduler = NoScheduler /\ active_generation = 0 /\ active_range = None
  /\ owner = AtRest /\ worker = NoWorker
  /\ calls = 0

------------------------------------------------------------------------------
(* The owner's calls.  Each starts when the owner is in no other. *)

Calls ==
  /\ owner.at = "idle" /\ calls < MaxCalls
  /\ calls' = calls + 1

\* Get: a cached block is touched and handed out; a missing one is built here.
Get(block) ==
  LET i == IF kind = "spectrum" /\ block >= block_count THEN block_count - 1 ELSE block
  IN  /\ Calls
      /\ block_count > 0 /\ i < block_count
      /\ IF IsCached(i)
           THEN cache' = Touch(cache, i) /\ UNCHANGED owner
           ELSE owner' = [owner EXCEPT !.at = "lock", !.block = i] /\ UNCHANGED cache
      /\ UNCHANGED <<settings, prefetching, window, build_mutex, visible_waiters, worker>>

GetTriesLock ==
  /\ owner.at = "lock"
  /\ IF build_mutex = None
       THEN build_mutex' = "owner" /\ owner' = [owner EXCEPT !.at = "build"]
       ELSE owner' = [owner EXCEPT !.at = "contend"] /\ UNCHANGED build_mutex
  /\ UNCHANGED <<settings, prefetching, cache, window, visible_waiters, worker, calls>>

GetAnnouncesWait ==
  /\ owner.at = "contend"
  /\ visible_waiters' = visible_waiters + 1
  /\ owner' = [owner EXCEPT !.at = "wait"]
  /\ UNCHANGED <<settings, prefetching, cache, window, build_mutex, worker, calls>>

\* Mutant: the wait is announced and never taken back.
GetAcquires_KeepsWaiter ==
  /\ owner.at = "wait" /\ build_mutex = None
  /\ build_mutex' = "owner" /\ owner' = [owner EXCEPT !.at = "build"]
  /\ UNCHANGED <<settings, prefetching, cache, window, visible_waiters, worker, calls>>

GetAcquires ==
  /\ owner.at = "wait" /\ build_mutex = None
  /\ build_mutex' = "owner" /\ visible_waiters' = visible_waiters - 1
  /\ owner' = [owner EXCEPT !.at = "build"]
  /\ UNCHANGED <<settings, prefetching, cache, window, worker, calls>>

\* Under the lock the block is looked up again, since the worker may have built it.
GetBuilds ==
  /\ owner.at = "build"
  /\ \/ /\ IsCached(owner.block)
        /\ cache' = Touch(cache, owner.block) /\ UNCHANGED window
     \/ /\ ~IsCached(owner.block)
        /\ \E content \in {<<config, owner.block>>, Torn} :
             BuildBlock(owner.block, content) /\ StoreBlock(owner.block, content)
     \/ /\ ~IsCached(owner.block)
        /\ BuildFails /\ UNCHANGED cache
  /\ build_mutex' = None /\ owner' = AtRest
  /\ UNCHANGED <<settings, prefetching, visible_waiters, worker, calls>>

\* Prefetch: a range that is active already is not asked for again.
Prefetch(first, last) ==
  LET end == Min({last, block_count - 1})
  IN  /\ Calls
      /\ prefetch_enabled /\ first <= last /\ first < block_count
      /\ IF active_range = <<first, end>>
           THEN UNCHANGED <<prefetching, worker>>
           ELSE /\ scheduler' = [exists |-> TRUE, has_request |-> TRUE,
                                 range |-> <<first, end>>,
                                 generation |-> scheduler.generation + 1]
                /\ active_generation' = scheduler.generation + 1
                /\ active_range' = <<first, end>>
                /\ worker' = IF scheduler.exists THEN worker
                             ELSE [NoWorker EXCEPT !.at = "wait"]
      /\ UNCHANGED <<settings, cache, window, build_mutex, visible_waiters, owner>>

\* Mutant: the active range outlives the scheduler it was given to.
StopScheduler_KeepsRange(then, c) ==
  /\ active_generation' = 0 /\ UNCHANGED active_range
  /\ scheduler' = NoScheduler
  /\ worker' = [worker EXCEPT !.stop = scheduler.exists]
  /\ owner' = [owner EXCEPT !.at = "join", !.then = then, !.config = c]

\* StopScheduler, the start of every call that changes what a block is: the range is
\* given up, the scheduler is taken away and its thread told to stop; then it is joined.
StopScheduler(then, c) ==
  /\ active_generation' = 0 /\ active_range' = None
  /\ scheduler' = NoScheduler
  /\ worker' = [worker EXCEPT !.stop = scheduler.exists]
  /\ owner' = [owner EXCEPT !.at = "join", !.then = then, !.config = c]

\* SetSource, SetMixPolicy, SetResolution and SetMillisecondsPerPixel.
Reconfigure(c) ==
  /\ Calls /\ StopScheduler("reconfigure", c)
  /\ UNCHANGED <<settings, cache, window, build_mutex, visible_waiters>>

\* Age(0) empties the cache.
Drop ==
  /\ Calls /\ StopScheduler("drop", config)
  /\ UNCHANGED <<settings, cache, window, build_mutex, visible_waiters>>

DisablePrefetch ==
  /\ Calls /\ StopScheduler("none", config)
  /\ prefetch_enabled' = FALSE
  /\ UNCHANGED <<kind, config, max_cache_bytes, cache, window, build_mutex,
                 visible_waiters>>

EnablePrefetch ==
  /\ Calls /\ ~prefetch_enabled
  /\ prefetch_enabled' = TRUE
  /\ UNCHANGED <<kind, config, max_cache_bytes, prefetching, cache, window, build_mutex,
                 visible_waiters, owner, worker>>

\* What follows the join, under build_mutex and cache_mutex.
AfterJoin ==
  /\ owner.at = "join" /\ worker.at = "none" /\ build_mutex = None
  /\ \/ /\ owner.then = "reconfigure" /\ owner.config # config
        /\ RecreateCache(owner.config) /\ config' = owner.config
     \/ /\ owner.then = "drop"
        /\ ClearLocked /\ UNCHANGED <<config, max_cache_bytes>>
     \/ /\ owner.then = "none" \/ (owner.then = "reconfigure" /\ owner.config = config)
        /\ UNCHANGED <<config, max_cache_bytes, cache, window>>
  /\ owner' = [AtRest EXCEPT !.config = config']
  /\ UNCHANGED <<kind, prefetch_enabled, prefetching, build_mutex, visible_waiters,
                 worker, calls>>

\* Age(n): a new budget, never below one block, applied at once.
Age(n) ==
  LET budget == Max({block_bytes, n})
  IN  /\ Calls
      /\ max_cache_bytes' = budget
      /\ cache' = Trim(cache, budget)
      /\ UNCHANGED <<kind, config, prefetch_enabled, prefetching, window, build_mutex,
                     visible_waiters, owner, worker>>

------------------------------------------------------------------------------
(* The worker: AudioLatestRangeScheduler::WorkerLoop and ProcessPrefetch. *)

\* The blocks of a range in the order they are built: all of them, or the lower and the
\* upper part when there are more than one prefetch may build.
LowerCount == (MaxBlocks + 1) \div 2
UpperCount == MaxBlocks - LowerCount
IsSplit(range) == range[2] - range[1] >= MaxBlocks

Ordered(range) ==
  IF IsSplit(range)
    THEN [k \in 1..MaxBlocks |->
            IF k <= LowerCount THEN range[1] + k - 1
                               ELSE range[2] - UpperCount + (k - LowerCount)]
    ELSE [k \in 1..(range[2] - range[1] + 1) |-> range[1] + k - 1]

\* The worker is at the first block of a part, before which it hints the part to the source.
StartsPart ==
  \/ worker.todo = Ordered(worker.range)
  \/ IsSplit(worker.range) /\ Len(worker.todo) = UpperCount

EndRange == worker' = [worker EXCEPT !.at = "finish", !.todo = <<>>, !.built = Torn]
NextBlock == worker' = [worker EXCEPT !.at = "block", !.todo = Tail(@), !.built = Torn]

\* Mutant: only a request wakes the thread, not the wish to stop it.
WorkerStops_OnRequest ==
  /\ worker.at = "wait" /\ worker.stop
  /\ scheduler.has_request
  /\ worker' = NoWorker
  /\ UNCHANGED <<settings, prefetching, cache, window, build_mutex, visible_waiters,
                 owner, calls>>

WorkerStops ==
  /\ worker.at = "wait" /\ worker.stop
  /\ worker' = NoWorker
  /\ UNCHANGED <<settings, prefetching, cache, window, build_mutex, visible_waiters,
                 owner, calls>>

WorkerTakes ==
  /\ worker.at = "wait" /\ ~worker.stop
  /\ scheduler.has_request
  /\ scheduler' = [scheduler EXCEPT !.has_request = FALSE]
  /\ worker' = [worker EXCEPT !.at = "block", !.generation = scheduler.generation,
                              !.range = scheduler.range,
                              !.todo = Ordered(scheduler.range)]
  /\ UNCHANGED <<settings, active_generation, active_range, cache, window, build_mutex,
                 visible_waiters, owner, calls>>

\* Before it tries the lock the worker looks whether the range is still wanted, the block
\* still missing and nobody waiting.  The hint to the source may throw (the last disjunct).
WorkerChecks ==
  /\ worker.at = "block"
  /\ \/ worker.todo = <<>> /\ EndRange
     \/ /\ worker.todo # <<>>
        /\ LET i == Head(worker.todo)
               wanted == IsCurrent(worker.generation) /\ i < block_count
           IN  \/ wanted /\ IsCached(i) /\ NextBlock
               \/ /\ wanted /\ ~IsCached(i) /\ visible_waiters = 0
                  /\ worker' = [worker EXCEPT !.at = "lock"]
               \/ wanted /\ ~IsCached(i) /\ visible_waiters # 0 /\ EndRange
               \/ ~wanted /\ EndRange
               \/ wanted /\ StartsPart /\ EndRange
  /\ UNCHANGED <<settings, prefetching, cache, window, build_mutex, visible_waiters,
                 owner, calls>>

WorkerTriesLock ==
  /\ worker.at = "lock"
  /\ IF build_mutex = None
       THEN build_mutex' = "worker" /\ worker' = [worker EXCEPT !.at = "locked"]
       ELSE EndRange /\ UNCHANGED build_mutex
  /\ UNCHANGED <<settings, prefetching, cache, window, visible_waiters, owner, calls>>

WorkerChecksAgain ==
  /\ worker.at = "locked"
  /\ \/ /\ ~IsCurrent(worker.generation)
        /\ EndRange /\ build_mutex' = None
     \/ /\ IsCurrent(worker.generation) /\ IsCached(Head(worker.todo))
        /\ NextBlock /\ build_mutex' = None
     \/ /\ IsCurrent(worker.generation) /\ ~IsCached(Head(worker.todo))
        /\ worker' = [worker EXCEPT !.at = "build"] /\ UNCHANGED build_mutex
  /\ UNCHANGED <<settings, prefetching, cache, window, visible_waiters, owner, calls>>

\* The read may throw.  The waveform's looks again, from chunk to chunk, whether it is
\* still wanted, and gives the block up when it is not.
WorkerBuilds ==
  /\ worker.at = "build"
  /\ \/ \E content \in {<<config, Head(worker.todo)>>, Torn} :
          /\ BuildBlock(Head(worker.todo), content)
          /\ worker' = [worker EXCEPT !.at = "publish", !.built = content]
          /\ UNCHANGED build_mutex
     \/ BuildFails /\ EndRange /\ build_mutex' = None
     \/ /\ kind = "waveform" /\ (~IsCurrent(worker.generation) \/ visible_waiters # 0)
        /\ EndRange /\ build_mutex' = None /\ UNCHANGED window
  /\ UNCHANGED <<settings, prefetching, cache, visible_waiters, owner, calls>>

\* The waveform publishes under scheduler_mutex, so the range is current as it does; the
\* spectrum looks first and publishes after.
WorkerDecides ==
  /\ worker.at = "publish"
  /\ \/ /\ ~IsCurrent(worker.generation)
        /\ EndRange /\ build_mutex' = None /\ UNCHANGED cache
     \/ /\ IsCurrent(worker.generation) /\ kind = "spectrum"
        /\ worker' = [worker EXCEPT !.at = "store"] /\ UNCHANGED <<build_mutex, cache>>
     \/ /\ IsCurrent(worker.generation) /\ kind = "waveform"
        /\ StoreBlock(Head(worker.todo), worker.built)
        /\ NextBlock /\ build_mutex' = None
  /\ UNCHANGED <<settings, prefetching, window, visible_waiters, owner, calls>>

WorkerStores ==
  /\ worker.at = "store"
  /\ StoreBlock(Head(worker.todo), worker.built)
  /\ NextBlock /\ build_mutex' = None
  /\ UNCHANGED <<settings, prefetching, window, visible_waiters, owner, calls>>

\* The range is over; it stops being the active one unless another took its place.
WorkerFinishes ==
  /\ worker.at = "finish"
  /\ IF IsCurrent(worker.generation)
       THEN active_generation' = 0 /\ active_range' = None
       ELSE UNCHANGED <<active_generation, active_range>>
  /\ worker' = [NoWorker EXCEPT !.at = "wait", !.stop = worker.stop]
  /\ UNCHANGED <<settings, scheduler, cache, window, build_mutex, visible_waiters, owner,
                 calls>>

------------------------------------------------------------------------------
Indexes == UNION {0..BlockCount[c] : c \in Configs}

Call ==
  \/ \E i \in Indexes : Get(i)
  \/ \E first, last \in Indexes : Prefetch(first, last)
  \/ \E c \in Configs : Reconfigure(c)
  \/ \E n \in Budgets : Age(n)
  \/ Drop \/ DisablePrefetch \/ EnablePrefetch

OwnerStep == GetTriesLock \/ GetAnnouncesWait \/ GetAcquires \/ GetBuilds \/ AfterJoin

WorkerStep ==
  \/ WorkerStops \/ WorkerTakes \/ WorkerChecks \/ WorkerTriesLock \/ WorkerChecksAgain
  \/ WorkerBuilds \/ WorkerDecides \/ WorkerStores \/ WorkerFinishes

Next == Call \/ OwnerStep \/ WorkerStep

Spec == Init /\ [][Next]_vars

\* Both threads run: the owner goes on with a call it is in, the worker with its loop.
\* Nothing makes the owner call again.
FairSpec == Spec /\ WF_vars(OwnerStep) /\ WF_vars(WorkerStep)

------------------------------------------------------------------------------
(* Properties *)

Content == (Configs \X Nat) \cup {Torn}
Ranges == {r \in Indexes \X Indexes : r[1] <= r[2]}

\* The types.  The owner holds build_mutex exactly while it builds, the worker exactly
\* between its lock and the end of the block.
TypeOK ==
  /\ kind \in Kinds /\ config \in Configs /\ prefetch_enabled \in BOOLEAN
  /\ max_cache_bytes \in Nat \ {0}
  /\ \A i \in DOMAIN cache.blocks : i \in Nat /\ cache.blocks[i] \in Content
  /\ cache.touches \in Seq(Nat) /\ cache.bytes \in Nat
  /\ window \in [valid : BOOLEAN, index : Nat, holds : Content]
  /\ visible_waiters = IF owner.at = "wait" THEN 1 ELSE 0
  /\ scheduler \in [exists : BOOLEAN, has_request : BOOLEAN, range : Ranges \cup {None},
                    generation : Nat]
  /\ scheduler.exists = (worker.at # "none" /\ ~worker.stop)
  /\ active_generation \in Nat /\ active_range \in Ranges \cup {None}
  /\ owner \in [at : {"idle", "lock", "contend", "wait", "build", "join"}, block : Nat,
               then : {"none", "reconfigure", "drop"}, config : Configs]
  /\ worker \in [at : {"none", "wait", "block", "lock", "locked", "build", "publish",
                      "store", "finish"}, stop : BOOLEAN, generation : Nat,
                range : Ranges \cup {None}, todo : Seq(Nat), built : Content]
  /\ calls \in 0..MaxCalls
  /\ (build_mutex = "owner") = (owner.at = "build")
  /\ (build_mutex = "worker") = (worker.at \in {"locked", "build", "publish", "store"})

\* Every block handed to the display shows the audio of its own place under the settings
\* of now: none is left from another source or resolution, and none was computed from a
\* rolling window that a failed read had moved and not filled.
BlocksAreExact ==
  \A i \in DOMAIN cache.blocks : cache.blocks[i] = <<config, i>>

\* The cache keeps to its budget and can go on doing so: the bytes counted are those of
\* its blocks and no more than allowed, each block can be found again to be evicted, and
\* what is built last stays, since Get and the worker look at it after they trim: there is
\* room for one block, and the newest touch is of a block that is there.
CacheIsBounded ==
  /\ cache.bytes = Cardinality(DOMAIN cache.blocks) * block_bytes
  /\ cache.bytes <= max_cache_bytes
  /\ \A i \in DOMAIN cache.blocks : \E k \in LiveTouches(cache) : cache.touches[k] = i
  /\ block_count > 0 => block_bytes <= max_cache_bytes
  /\ cache.touches # <<>> => IsCached(cache.touches[Len(cache.touches)])

\* A range counts as active, so that asking for it again does nothing, only while the
\* scheduler still has it for the worker or the worker is on it.
RangeHasTaker ==
  active_range # None =>
    \/ /\ scheduler.has_request
       /\ scheduler.range = active_range /\ scheduler.generation = active_generation
    \/ /\ worker.at \notin {"none", "wait"}
       /\ worker.range = active_range /\ worker.generation = active_generation

\* Under fairness of the two threads every call returns and every prefetch comes to an
\* end: the owner is not left waiting for the lock, nor for the join of a worker that
\* sleeps, and no range stays active.
CallsReturn ==
  <>[](owner.at = "idle" /\ worker.at \in {"none", "wait"} /\ active_range = None)

============================================================================
