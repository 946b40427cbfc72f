# Aegisub: models, checks and proofs

TLA+ models of the parts of this Aegisub tree where order matters: the undo
history and what counts as saved, the saving of a document from two threads
while other programs may write the same file, what the video display shows while
the document changes under the renderer, the block caches of the audio display,
the transactional installation of Automation packages, the supervision of
headless runs in a process of their own, and the executors all background work
runs on.

Paths below are relative to the repository; the program is under `src/`,
its support library under `libaegisub/`.

| module | role |
| --- | --- |
| `UndoTimeline` | what an undo history promises: a line of versions and a cursor |
| `SubtitleHistory` | `subtitle_history.{h,cpp}`: two stacks, revisions, merging, the saved mark |
| `SubtitleHistoryProofs` | theorems about it |
| `SubsController` | `subs_controller.{h,cpp}`: the document's host, over an INSTANCE of `SubtitleHistory` |
| `SubsControllerProofs` | theorems about it |
| `VideoProvider` | `async_video_provider.cpp` with the part of `video_controller.cpp` and `project.cpp` that feeds and receives it |
| `VideoProviderProofs`, `VideoSettlesProofs` | theorems about it; the second about what is shown at rest |
| `AudioBlockCache` | `audio_spectrum_analysis_cache.cpp`, `audio_waveform_summary_cache.cpp` and their `audio_latest_range_scheduler.cpp` |
| `AudioBlockCacheProofs` | theorems about it |
| `AtomicInstall` | what package transactions promise |
| `PackageTransaction` | `coreclr/package_transaction.cpp`: journal, backups, rollback, recovery |
| `PackageTransactionProofs` | theorems about it |
| `AutomationSupervisor` | `automation_process_supervisor.cpp` with its worker and parent in `headless_runtime_bootstrap.cpp` |
| `AutomationSupervisorProofs` | theorems about it |
| `SerialExecutor` | what a serial queue promises |
| `Dispatch` | `libaegisub/common/dispatch.cpp`: thread pool, queues, `Sync`, `Shutdown` |
| `DispatchProofs` | theorems about it |
| `MC*` | small instances: symmetry and the sets of calls |

A run is a `.cfg` named `<module>_<question>.cfg`. `PROJECT.json` lists the
runs, the lines each definition stands for, the mutants each property was
tried on, the hazards, the findings and the theorems.

## 1. The system

Aegisub is one GUI process. A main thread owns the document and the widgets;
a fixed pool of threads runs background tasks, through serial queues where order
matters; further threads belong to players, renderers, child processes and
timers. The same core also runs headless.

| component | state | operations | talks to | hard |
| --- | --- | --- | --- | --- |
| undo history | two stacks of snapshots, current, next and saved revision | Record, Undo, Redo, MarkSaved, Clear | `AssFile::Commit` feeds it, clients hold amend ids | merging into an entry someone else refers to |
| subtitle controller | file name, marks, baseline snapshots, latest request, completions | OnCommit, Save, Load, Close, TryToClose, Undo, AutoSave, file watch | worker (serial queue), watcher, prompts | worker against main thread, external writers, failing writes |
| package transactions | staging directories, journal, backups | Begin, Commit, Abort, recovery at start | managed plugins through a C interface | crashes between any two file operations |
| dispatch | pool tasks, queues, `drain_scheduled` | Async, Sync, Shutdown | everything | lost wake-ups, order, waiting inside the pool |
| log sink | ring of messages, emitters | Log, Subscribe, destructor | a serial queue, Sync | see dispatch |
| video provider | pending work, content and request versions, what the renderer has loaded, prefetch chain | RequestFrame, LoadSubtitles, UpdateSubtitles, Set..., Prefetch, destructor | worker queue, main-thread sink, video controller | results of superseded requests, skipped renders, visual batches |
| audio caches and range scheduler | blocks, touch heap, budget, active range, pending request | Get, Prefetch, Age, SetSource, SetResolution, ... | its own worker, painting | blocks of an old configuration, half-read audio, locks across builds |
| motion tracking | leases on the video provider | Acquire, Begin, Drain, Complete | project, analysis tasks | replacing the provider in use |
| XAudio2 player | two banks of buffer slots | TryAcquire, Release, BeginPlayback | device callbacks | a seek while buffers are in flight |
| timers | generation, armed flag | Start, Stop, fire | timer thread, main thread | a stopped timer that still fires |
| core host context | pending main-thread calls | Invoke, Wait | other threads | exceptions, shutdown |
| plugin host | activated plugins, services, declared UI | activate, retire, call | .NET runtime | retirement with calls in flight |
| process supervisor | deadline, active step, markers seen | start, poll, look, kill, report | worker process, over marker files and `result.json` | the worker runs on between two looks, or stops anywhere |
| language server | child process, pipes | start, send, cancel | child | late answers |
| secondary subtitles | decoder state, demand | open, demand, reload | worker, packets | superseded reloads |
| selection history, MRU, options | lists | add, back, forward | main thread | sequential |
| project, playback, VFR, formats, perspective, GUI | | | | sequential, data or devices |

Correct means, for the seven that are modelled:

* history: the entry on top is the document; revisions identify contents where
  the saved mark compares them; undo and redo walk one line of versions.
* controller: nothing but the live document at its live revision is published;
  "unmodified" means equal to what is in the file; an external edit is
  noticed and not overwritten unasked; a requested save happens.
* video: what is shown is the document as it is now, whatever was in flight; when
  all is quiet, the frame asked for is on the display; a destroyed provider is
  not used; nothing waits forever.
* audio caches: a block holds the audio of its own place under the settings of
  now; the cache keeps to its budget; a range that counts as active is really
  being built; every call returns.
* transactions: the installed files are those before or those after, whatever
  fails and whenever the process dies; the store always comes to rest.
* headless runs: a worker is killed only when its phase is over, the blame falls on
  the step that ran, success is reported only for a scenario that passed, and
  every run ends.
* dispatch: one task at a time per queue, in order, each of them run, and a
  Sync returns.

## 2. The models

### SubtitleHistory

A document is a function from live lines to their texts. Everything else a
snapshot carries (styles, script info, extradata) changes with it through
`EditDocument`, which may change anything. `Record` has the three outcomes of
the code: amend the top snapshot in place, replace the top entry, push a new
one; `Trim` is the loop at its end. Commits come from clients
(`SubtitleCommandSession`), each with the revision its last commit returned:
it passes that back, to be merged, or nothing. `KeepsId` are the clients that
keep it over an Undo or Redo, as `visual_tool.cpp` does for nudges; the edit
box resets it as the active line changes. `Load`, `Save` and `FileDeleted` are
the calls of the controller. `saved` is a history variable: what was in the
document when it was last marked.

Bookmarks (selection, caret, video position) are left out.

### SubsController

The main thread (`main`) is in its event loop or in a handler, split where
the worker can act in between: at each barrier (`BeginRevision`, `Sync`), at the
write, the read, and the snapshot after it. The worker (`worker`) takes a
request, prepares (writes the staging file and compares the target with the
baseline), publishes under the lock, and notifies. `ExternalEdit` is the other
program. Writes and reads fail where `MayFail` says so. `UNCHANGED`
groups name the parts of the class.

Abstractions: one path, so `filename != target` is `has_file`; a generation is
only ever compared with the current one, so a request carries that answer; a
file's metadata is a stamp, its hash the document (hashes are taken to be
valid and free of collisions); the modal prompt of a save is answered at once,
while the reload prompt is a state in which the event loop goes on. The Lua
workspace flag, commits without a message and the status texts are left out.
`foreign` is a history variable: whether an external edit is there that
nobody has been asked about. Such an edit is `Silenced` once it is stamped as
one the user was asked about (`prompted`), so that the file event behind it
raises no prompt; a save still asks, since `known` is not touched.

### VideoProvider

A subtitle line is a text, and the timecodes say which lines are visible on a
frame; a picture (`RenderPacket`) is a frame, its colours and the lines drawn
on it. A handler of the GUI thread (`OnSubtitlesCommit`, `JumpToFrame`, ...) is
the sequence `todo` of provider calls it makes, in the order of the code. The
worker may act between any two of them; a message is handled only between
handlers. The provider's calls coalesce what they ask for in `pending` and
raise `content_version` and `request_version`; the worker takes it (`Take`),
decides whether there is anything to draw, draws (`Render`), and delivers only
what is still current (`Deliver`). Between two of these the GUI thread may
supersede it. Replacing the timecodes or the subtitles provider, a synchronous
frame and the destructor are jobs the GUI thread waits for (`StartJob`,
`Finish...`). The prefetch is a chain of jobs, each of which posts the next.
`messages` and `sink` are the main-thread sink: visual packets share the open
batch, any other packet closes it. The previews of a drag supersede nothing: while
`accept_late_preview_frames` is set, a packet of a frame that is no longer the target is
accepted once (`IsAwaited`, `Receive`) and makes it the target again.
`PreviewToFrameLatest` is, without playback, a `JumpToFrame`.

`single_frame` is the renderer's memory of which lines it loaded; a load that
throws leaves it set. That is in the code, and `ShownIsCurrent` and
`SingleFrameIsLoaded` except it by name ("unloaded"). Two history variables:
`outcome`, how the worker's last work with a frame ended, and `drawn`, the last
packet it posted. `Fails` may throw in decoding or in the subtitle renderer.
An error in drawing or in an overlay is not told apart from one of a load: all count as
"unloaded", and what is excepted for a load is excepted for them.
Left out: playback and its clock, keyframes, the subtitle lines' other fields,
styles, frame buffers and their reuse.

### AudioBlockCache

The spectrum's and the waveform's cache are the same protocol written twice;
one module models both, and `kind` selects where they differ (rolling window,
compaction of the touch heap, publication). The thread that owns the cache makes
all calls of it (`owner` is the call it is in); the scheduler's thread
(`worker`) builds the blocks of the newest range. Each section under
`cache_mutex` or `scheduler_mutex` is one step; `build_mutex` is a variable,
since audio is read and transformed under it. A call that changes what a block is
(`Reconfigure`, `Drop`, `DisablePrefetch`) first stops the scheduler and
joins its thread. The content of a block is the configuration and place it was
computed for, or `Torn`: the samples of a rolling window that a failing read
left moved but not filled. Left out: metrics, the ready callback, which nothing
in the program installs, and the palette and painting on top.

### PackageTransaction

Each file operation of `Commit`, of its rollback, of recovery and of
`RemoveTreeNoThrow` is a step, may fail in the phases of `FailIn`, and may be
followed by a crash in those of `CrashIn`. A crash forgets what is in memory.
A file's content is the transaction that wrote it. A journal is absent, torn or
complete; a torn one stops the next start, or is read as complete when it is
cut inside its last path. One idealisation: a torn journal that reads as
complete in a directory whose removal had begun is taken to restore
nothing. Checks of paths and links are refusals that change nothing and are
left out.

### AutomationSupervisor

Two processes that share a directory. The worker goes through its phases
(start, scenario, steps, teardown, result, exit) and writes a marker at each;
`Mark` may lose one, since the destructor of `agi::io::Save` swallows what
goes wrong, and `MarkFails` is the write that throws. It may hang, crash or exit in
any phase, or exit cleanly out of a script. The supervisor's loop is `Poll`, one
`Look` per marker in the order of the code, `Check` and `Sleep`; the worker
may act between any two. Time passes in `Sleep` alone, in ticks: `left` is
the deadline less now. `Report` is what the parent makes of it. The variables
`in_phase`, `heard` and `overtaken` are history: how long the worker has been
in the phase its markers tell, what a round of looks could know at its start, and
which markers it saw after which later ones (pairs: `SeenAfter`). Left out: markers of an earlier run that could
not be removed, exit codes other than none, clean and failed, and what a step
does. The last step done, or with no step the ready runtime, ends the scenario
(`EndsScenario`); `worker-scenario-complete` after that starts no phase.
`EnterTeardown` takes the step that is active when it is called, since `SeesDone`
resets `active_step` first, for the last step too; entered a second time, it leaves
what it was given.
`BlameIsRight` says that a timeout names the step whose start is the newest marker,
none that had ended, and none once the end of the scenario is told, as far as
the markers there were when the round of looks began. The exceptions are what the
code makes of a start it sees too late, and each is needed: after the step's own
end, it is active for good; after the end of the scenario, until its own end is
seen; after the start of a later step, it takes that one's place.

### Dispatch

Pool threads, callers outside the pool, and the thunks on pool threads make
calls: `Async` and `Sync` on the background queue or a serial one. `DoPost` of
a serial queue is two steps, since the Drain is posted after the lock is
released. A Drain holds its worker until its queue is empty. `Shutdown` clears
the pool and joins; the next post starts new threads. The main queue of the
toolkit, and what thunks throw, are left out; the worker goes on in both cases. All
threads are asked to stop in one step of `Shutdown`, where the code asks and joins them
one by one: a thread not asked yet may still take a task posted since the pool was
cleared, which the model leaves to the new threads.

## 3. The runs

| run | bounds | result |
| --- | --- | --- |
| `history_sound` | 2 lines, 2 texts, 1 client that resets, depth 3, 6 revisions | stacks, marks and document agree; refines `UndoTimeline` |
| `history_nudge` | a client that keeps its id, 7 revisions | violation |
| `save_files` | 1 line, 2 texts, 1 stamp, 4 revisions, 1 external edit, 1 automatic backup, failing reads and writes | requests, drains, closing; file against document; refines `SubtitleHistory` |
| `save_live` | 1 line, 2 texts, 1 stamp, 3 revisions, 2 external edits, detection toggled, 1 prompt in a row, fairness | a requested save lands; an external edit is reported, or silenced by the loop's limit and by nothing else |
| `video_current` | 2 lines, 2 texts, 2 frames, 2 timecodes, 2 colours, 3 handlers of the user (1 of them neither edit, seek nor prefetch), 2 providers, decoder and subtitle renderer failing, fairness | what is shown, in order, and that it settles |
| `video_skipped` | edits only, 2 handlers | violation |
| `audio_blocks` | both kinds; 3 configurations (no source, 3 blocks, 2 blocks of double size), budgets of 1 and 3, 2 blocks per prefetch, 3 calls, failing reads, fairness | blocks, budget, active range; every call returns |
| `install_atomic` | 2 paths, 2 transactions of up to 2 files, 2 crashes while idle, journaling or applying | refines `AtomicInstall` |
| `install_faults` | 1 transaction of up to 2 files, 2 crashes and any failures in every phase, fairness | journal before change; the store comes to rest |
| `install_recovery_crash` | as `install_atomic`, a crash while restoring | violation |
| `supervisor_budgets` | 1 step (more than one is refused headless), timeouts of 2 (start), 1 (step), 3 (teardown), 2 (exit) ticks, naps of up to 2, 2 runs in one directory, fairness | kills, blame, success; every run ends |
| `dispatch_order` | 2 workers and the 2 a restart brings, 2 callers, 2 serial queues, 3 tasks, 1 Shutdown, fairness | order: refines `SerialExecutor`; every task runs unless the pool is shut down |

Why the bounds are enough to be interesting. Two lines tell an exact
amendment from a whole snapshot; depth 3 trims within five commits, and an
entry can be saved, undone to, redone and amended. One line is enough for the
controller, which compares whole documents; its three or four revisions give a
load, a queued save, a newer commit while it is being written, and an undo.
With one stamp an external edit may leave the metadata as it was and change the
content alone, the harder case. Two external edits are more than the prompts in a
row that `save_live` allows (`kMaxPromptLoopCount` = 1 where the code has 5), so the
second one, made while the prompt about the first is open, reaches the limit of the
loop; its documents are not empty (`AddDefault`), which keeps the run small.
Two transactions over two shared paths give a commit over a recovered one, and
two crashes a crash after a recovery. Two workers let two Drains exist; three
tasks on two queues let one overtake another. Three handlers give an edit while
a frame is rendered and a seek before it is delivered; two frames share a line
under one of the timecodes and none under the other, so an update may be
skipped rightly or not; two providers let results of the first arrive under the
second. Three calls let the owner prefetch, change the resolution under the
worker, and prefetch again or ask for a block as it is being built; with three
blocks, two of which fit, one is evicted while another is built, a prefetch of
three is split, and the touch heap is compacted from two touches on. The
supervisor's timeouts are ordered as the real ones where it matters: a step has
less time than the teardown, so a deadline wrongly kept or moved kills too
early; naps of two ticks overshoot it. The supervisor is written for any number of steps;
what it does with more than one is a matter of the theorems (section 4).

Deadlock is checked except where the system may really stop: in
`dispatch_order` a Sync may be stranded by the Shutdown (below); in it
and in `audio_blocks` nothing is left to do once the
bound on calls is reached, and that nobody waits forever is what
`AllTasksRun` and `CallsReturn` say. Where a bound ends a run
otherwise, an explicit step (`Terminated`, `Quiet`, `Rest`) stands for the idle
system.

Fairness. `SubsController`: a handler of the main thread runs to its end, the
worker runs while it has work, the event loop delivers what is posted, prompts
are answered, and a change the watcher has seen is delivered once the event
loop keeps coming back to idle (strong, since other handlers come in between).
No fairness for the user or the other program. `PackageTransaction`: the thread
that holds the mutex goes on. `Dispatch`: threads that can run do, and a
notified condition variable wakes a worker; nobody has to call anything.
`VideoProvider`: one weak fairness for the worker, the rest of a handler, a
message in the queue and the end of an interaction together: the process goes
on, in an order nobody chose. `AudioBlockCache`: weak fairness of each of the
two threads, the owner's only inside a call; a call need never be made.
`AutomationSupervisor`: the supervisor's loop goes on; the worker may stop for
ever at any point.

Violations, each with its counterexample as a run:

1. `history_nudge`: a kept amend id amends the saved entry in place: unmodified,
   but not what is in the file.
2. `install_recovery_crash`: a crash during recovery makes the next recovery
   delete a restored file.
3. `video_skipped`: the frame of an edit is posted, an edit of a line not visible
   on it makes the GUI thread drop it as stale, and the worker skips the second
   edit, since the visible lines are those it posted last. The display keeps the
   picture of before the first.

Windows the passing runs leave open on purpose, named in the properties or
the constants:

* A crash or failure while the directory of a finished transaction is removed
  can leave its journal without backups and payloads; the next start then deletes
  the files it installed. `install_atomic` has no crash in the phase `remove`.
* `Shutdown` drops a Drain whose queue still counts it: nothing posted to that
  queue runs any more, and a Sync on it, such as that of the log sink's
  destructor, never returns (`AllTasksRun` speaks of a pool never shut down).
* `Sync` from pool threads: with one on every worker no worker is left for the
  Drain. Thunks in `dispatch_order` wait for nothing.
* An external edit between a write and the snapshot after it becomes the
  baseline (`swallowed`); one between a check and the write it guards is lost
  (`late`).
* The loop of `OnWatchedFileChanged` gives up after five prompts and stamps the file as
  it is then as prompted for (`subs_controller.cpp:826`). Six edits, five of them made
  while a prompt is open, end there: the user is not asked about the sixth until the
  file changes again or a save meets it. `ForeignIsReported` excepts it by name
  (`Silenced`), and `OnlyLimitSilences` says that nothing else stamps an edit so, in
  particular not the answer to a prompt about an earlier one.
* An automatic save published between the two steps of `OnWatchedFileChanged`
  is shown to the user as another program's.
* After a subtitle load that threw, frames are drawn without their lines until
  something reloads them (`outcome = "unloaded"`).
* A skipped update may also leave the colours of an older packet on the display
  (`SettlesOnDocument` speaks of lines there).
* In a drag over the frames 1, 2, 3 and back to 2, the late packets of the first three
  previews move the target to 1, 2 and 3 and use up what is accepted
  (`DeliverFrameReady`, `video_controller.cpp:1091`). The packet of the last preview is
  refused, and with it an edit made meanwhile, until the next seek, such as that of
  releasing the slider. `video_controller.h:262` calls delivering an in-flight frame
  better than dropping it. `SettlesOnDocument` excepts this by name: it takes three frames
  and five handlers, more than `video_current` has, and the proof found it (section 4).
* The spectrum never compacts its touch heap, so it grows with every `Get`; a
  prefetch that finds the cache busy gives its range up and is not retried until the
  display asks again. Neither breaks a property.
* The supervisor may notice that the runtime is ready after it noticed the end of
  the scenario, and then gives the teardown the time of a step, contrary to what a
  regression test asks (`KillIsDue` excepts it by `overtaken`). A step whose start is
  noticed a round after its end stays the active one, and a timeout in the teardown
  names it; so does one noticed after the end of the scenario, until its own end is
  (`BlameIsRight` excepts both by `SeenAfter`).
* A clean exit without a result is reported as the `result.json` of an earlier run
  in the same directory, where there is one (`SuccessIsEarned`).
* AutoSave skips a revision whose content was amended in place and undone to.

## 4. What is proved

`SubtitleHistoryProofs` proves, for any lines, texts, clients, undo limit and
bound, from the assumptions in `SubtitleHistory` alone:

* `Invariant`: `Spec => []IInv`, with `IInv` = `TypeOK`, `TopIsDocument`,
  `RevisionsOrdered` and `LiveRevision`. The last is what makes it inductive:
  the live revision may be ahead of the top entry's, because amending in place
  keeps the entry's, but not while something is undone.
* `TypeCorrect`, `Ordered`, `TopCurrent`: its parts. `Ordered` is not named by a run:
  what a revision that came back would spoil is `SavedEntryIsSaved`.
* `UnmodifiedSound` and `SavedEntrySound`, under `KeepsId = {}`: a document that
  does not count as modified is the saved one, and so is every entry at the
  saved revision. Their invariant `SavedInv` adds
  `AmendIsLive` (an amend id that is still the newest revision belongs to the
  live revision, so `Record`'s save barrier compares the right one) and
  `LaggingNotSaved` (an entry whose revision lags the live one is not the saved
  one). `history_nudge` shows that the condition is needed.
* `TimelineImplemented`: `Spec => ImplementsTimeline`. The undo stack and the
  reversed redo stack are one line of versions with a cursor; a merged commit
  replaces the version under the cursor. It needs `Bounded`: the two stacks together
  never hold more than the limit, so a commit that clears the redo stack and
  merges has nothing to trim.

The proof has a lemma per helper (`Trim`, `Pop`, `AmendSnapshot`), one per
outcome of `Record`, one per action, and combines them.

`SubsControllerProofs` proves, for any lines, texts, clients, stamps and bounds:

* `TypeCorrect`, `RequestsCurrent` and `DrainScheduled`, from the invariant `Inv`. Its
  `SaveInv` says where the main thread can be while a request is pending or in
  the worker's hands (`OneSave`, `HandlerIsQuiet`, `HandlerIsDrained`), and that a
  request which may still be published holds the live document. It is kept
  because a barrier outdates the request under the lock before the handler
  touches the document, and publishing looks under the same lock.
* `HistoryImplemented`: `Spec => ImplementsHistory`. Each step is a step of
  `SubtitleHistory`, or leaves the history alone; applying a finished automatic
  save is its `Save`, of the revision that is live by `RequestsCurrent`. So
  `Proved == INSTANCE SubtitleHistoryProofs` brings the history's theorems to
  the controller.
* `CloseSound`: `PublishedIsMarked` says that what was published has been applied
  or is about to be when the user is asked.
* `ForeignKept`: `EditInv` follows an external edit from the file event to the
  question: which of the two snapshots that detection keeps still differs from
  the disk.
* `LimitSilences`: `Spec => OnlyLimitSilences`, from `ShownDiffers` (what a prompt is about
  is never an edit nobody was asked about): the answer stamps the file as it was shown,
  not as it is.
* `UnmodifiedOnDisk`, under `KeepsId = {}`, from the history's `UnmodifiedSound` and
  `SavedIsOurs` (the document saved last is the one of the file). It needs that no
  recorded document is empty, `AllFilled` of the history's proofs.

`VideoProviderProofs` proves, for any lines, texts, timecodes, colours, number of
frames and bounds, `Invariant`: `Spec => []Inv`. The parts of `Inv`:

* `Types`, and `Jobs`: what the worker does is of its job (`WorkerShape`), the GUI
  thread waits for one job at most, and only in a wait (`SyncIsAwaited`), what is
  left of a handler comes in the right order (`TodoShape`, `RenderIsLast`), one link
  of the prefetch chain (`OneLink`). `DestroyedIsQuiet` (`ClosedIsQuiet`) and
  `OnePrefetchChain` (`OneChain`) follow.
* `RendererIsLoaded`: what `single_frame` says of the lines the renderer has
  (`LoadedSound`).
* `PacketsAreFresh`: no version is ahead of the provider's; a packet that is current,
  wherever it is, is a picture of the worker's subtitles, and nothing is pending
  that would change them. A step either outdates every packet or leaves the
  worker's subtitles, colours and timecodes as they are (`OutdatesOrKeeps`): that
  is the lemma about `content_version` that everything rests on.
* `Given`: what the worker has with what is pending on top is the document, but for
  the calls still to make and the lines an interaction awaits, and likewise for
  the colours and the timecodes.

`ShownCurrent` follows from the last two: a packet is shown when nothing is left to
give (a handler is not under way, or waits for its last call), so a current one
is a picture of the document. `InOrder` rests on `BatchIsLast`: a batch that is
filled again is the last message but for errors.

`VideoSettlesProofs` proves, under the same assumptions, `SettlesShown`:
`Spec => []SettlesOnDocument`. The versions let only current packets through; this says
that the one that matters is not lost. The invariant `Shows` has, next to `Inv`:

* `WillShow`: as long as the display does not show what the worker has, somebody will
  make it: a call still to be made (`Asked`, `GivesContent`), an interaction (`ToLoad`),
  what is pending, a packet in work (`InWork`) or on its way (`IsPosted`). At rest none of
  these is left.
* `Scheduled`: what is pending has a pass of the worker coming, in the queue, under way, or
  from a `ScheduleProcessing` still to be called. It is kept because the worker clears the
  mark under the lock under which it finds nothing to take.
* `TargetKnown`, with `CallsAsk` and `RequestIssued`: the frame that the worker renders
  next is the target, or a drag is on, or a request is still to come. Whatever drops a
  request (`Resets`) is followed by a new one in the same handler.
* `Turns`: the sink drops no packet of the worker as superseded. Interactions and their
  final updates come in the order of `Rank`, and what is posted, taken, pending and still
  to be called follows it; at most one call of a handler is visual (`OneVisualCall`).
* `Rendered` and `CheckUpdated`: what a skipped update was compared with is what the
  worker posted last, on the same frame, and a request is never skipped.
* `CallsFit` and `VisualShape`: a request is for the target, an update changes something,
  and a change of colours has its load with it or awaited.

The attempt corrected the model and the property. Without `accept_late_preview_frames`,
which the model had left to the set of frames, a preview cancelled requests where the code
does not. And with it the property was false for longer drags: `TargetKnown` is where the
proof failed, and a larger instance showed the run described in section 3.

`PackageTransactionProofs` proves, for any paths, transactions, plugins, list lengths
and number of crashes:

* `TypeCorrect` and `Journals`, whatever the phases in which the process crashes or an
  operation fails. Their invariant `Shape` says which directories there are and who holds
  them (`Directories`), and that a commit, its rollback and a recovery work on the list
  their directory's journal holds, the files begun being its first ones (`JobMatches`).
* `AtomicInstalls`: `Spec => ImplementsAtomicInstall`, under `RecoveryRuns`: no crash or
  failure while rolling back, recovering or removing. Its invariant `Safe` says, per
  file, what each phase has done (`FileApplying`, `FileRollingBack`, `FileRestoring`);
  that a transaction a crash leaves behind is the only undecided one, with a way back
  for each of its files (`Interrupted`, `Recoverable`), and is visited before the store
  opens (`Undecided`); and that any other journal on disk is one nothing was done for,
  so its recovery changes nothing (`AtRest`). A commit is `Install` when its directory,
  and with it the way back, is gone. `install_recovery_crash` shows that the
  condition is needed.

`DispatchProofs` proves, for any threads, callers and queues, any number of workers,
tasks and shutdowns:

* `TypeCorrect` and `OneDrainPerQueue`, from `DispatchInv` = `ShapeInv` and `OneDrain`: a
  queue's `Drain` is with one caller about to schedule it, in the pool, or on one
  worker, and nowhere while `drain_scheduled` is false. It needs all three parts: the
  `Drain` moves between them, and a worker clears the mark only with the queue
  empty.
* `SerialOrder`: `Spec => ImplementsSerial`, each queue refines `SerialExecutor`.

`AudioBlockCacheProofs` proves, for any kinds, configurations, budgets and
bounds that meet the assumptions in `AudioBlockCache`:

* `ExactBlocks`: `Spec => []BlocksAreExact`. Its invariant `ExactInv` adds
  `WindowIsExact` (a valid rolling window holds the samples of the block it
  says), `BuiltIsExact` (what the worker has built and not yet stored belongs to
  the configuration of now) and `WorkerShape`. `BuiltIsExact` is where the
  design could fail: the spectrum's worker looks whether it is wanted before it
  stores, not as it stores. It is kept because the configuration changes only
  after the worker was joined and with `build_mutex` free.
* `ActiveRangesHaveTakers`: `Spec => []RangeHasTaker`, with `TakerInv`: the active
  range is that of the scheduler's pending request or that of the worker, so a
  second `Prefetch` of it may rely on the first.
* `TypeCorrect` and `StaysBounded`, from `BoundInv`. Its part on the cache is `Kept`: the
  bytes are those of the blocks, every block has a live touch, the newest touch is of a
  block that is there. `WithinBudget` adds the budget, and that a block fits it when
  there is one to cache; the waveform never raises its budget when it is recreated, so
  this rests on its blocks having one size (`ConfigsAssumption`; the code's
  `block_bytes` is a constant). `TrimKeeps` is the heart: as many live touches as
  blocks (`LiveCount`), so popping the lowest of them (`Lowest`) evicts one block each,
  and every touch above the last one popped is as live as it was. The lemmas on ranks
  (`RankIsBijection`, `RankReaches`) count without induction.

Each has a lemma per operation on the cache (`TouchExact`, `InsertExact`,
`TrimExact`, ...) and per group of actions. The index ranges over the union of the
blocks of each configuration, since nothing says that there are finitely many.

`AutomationSupervisorProofs` proves, for scenarios of any length, any timeouts
and any number of runs:

* `SuccessSound`: `Spec => []SuccessIsEarned`. Its invariant `EarnedInv` adds
  `ResultIsLast` (a result of this run means that the worker is past its scenario,
  and says what the worker will exit with), `CleanExitIsEarned` (exit code 0 with a
  result of this run means that it passed: a script that exits by itself does so
  before there is one), `OutcomeIsWorkers` and `NoneLeftBehind`.
* `TypeCorrect`, `KillsDue` and `BlameRight`, from `WatchInv`. The worker writes its
  markers in the order of their places (`InOrder`), so with nothing unseen the time
  the worker has been in its phase and the time left make up what the phase may take
  (`DeadlineIsDue`). In a round of looks what is still to be seen lies ahead
  (`SweepsOn`), and a deadline that is there was there as the round began
  (`ExpiredBefore`): news give time, but for the end of the scenario when it is known.
  `ActiveIsLast` is the invariant behind the blame: what the active step and an
  inactive one say about the markers seen and the order they were seen in
  (`ActiveRuns`, `Displaced`). Proving them for any number of
  steps corrected both: with no step, a ready worker is in its teardown at once; with
  two, a step that starts takes the blame from one that never said it was done.

Only model-checked: the temporal properties under fairness (`AutomaticSaveLands`,
`ForeignIsReported`, `StoreSettles`, `AllTasksRun`, `Settles`, `CallsReturn`, `RunsEnd`),
which are beyond the prover. Every invariant and every action property of a passing run,
and each refinement, is a theorem.

## 5. Plan

Done, in order of what a user would lose: history, controller, transactions,
dispatch, video provider, audio caches, supervised headless runs.

Next, models:

1. `ProviderLease` (motion tracking) and `BufferSlots` (XAudio2).
2. `MainTimer`, `HostInvocation`: timers and main-thread calls.
3. `VideoProvider`: playback. `SubsController`: nested prompts, the workspace
   flag, font preview; the clients of the history (colour picker).

Next, proofs: those of the models to come. For the liveness properties, what can be stated
without fairness: in `VideoSettlesProofs`, `Scheduled` and `WillShow` are the safety part of
`Settles`; the like for the drains of `Dispatch` and the requests of `AudioBlockCache`.

Not modelled, and why: parsers, writers, fonts, geometry, frame rates and
painting are data and libraries; players, providers and watchers wrap devices
and the operating system; vendored code, packaging and translations are not
the program's logic. `PROJECT.json` lists each component with its reason.
