---------------------------- MODULE SubsController ----------------------------
(***************************************************************************)
(* Saving a subtitle document: class SubsController of                     *)
(* src/src/subs_controller.h and .cpp.  The main thread commits, undoes,   *)
(* saves, loads and closes; a worker thread (autosave_queue) writes the    *)
(* automatic saves of "Save on Every Change" and the backups of AutoSave;  *)
(* another program may change or delete the file, which a watcher and the  *)
(* snapshots taken around every read and write are there to notice.        *)
(*                                                                         *)
(* The undo history is module SubtitleHistory, instantiated: every step    *)
(* here that touches it is one of its actions, except MarkSaved of a       *)
(* finished automatic save, which ImplementsHistory shows to be one.       *)
(*                                                                         *)
(* Abstractions.  There is one path.  A generation is only ever compared   *)
(* with the current one, so a request carries the answer (current), which  *)
(* a new generation turns off.  The metadata of a file is a stamp, its     *)
(* hash the document.  A modal prompt of a save is answered at once; the   *)
(* reload prompt is a state of its own, in which timers, watcher and       *)
(* posted calls still run.                                                 *)
(***************************************************************************)
EXTENDS Integers, Sequences, SequencesExt

CONSTANTS
    Line, Text, Client, KeepsId, UndoLevels, AddDefault, MaxRevision,
    Stamp,          \* file metadata: size and modification time
    Missing,        \* the file does not exist
    None,           \* an absent request or snapshot
    MaxEdits,       \* bound on the external edits
    MaxTasks,       \* bound on the tasks queued when AutoSave adds one
    MayFail,        \* file writes and reads may fail
    Toggles,        \* the user switches "Reload External Changes"
    kMaxPromptLoopCount

ASSUME StampAssumption == Stamp # {} /\ MaxEdits \in Nat /\ MaxTasks \in Nat
ASSUME SwitchAssumption == /\ MayFail \in BOOLEAN /\ Toggles \in BOOLEAN
                           /\ kMaxPromptLoopCount \in Nat
ASSUME HistoryAssumption == /\ KeepsId \subseteq Client
                            /\ UndoLevels \in Int /\ MaxRevision \in Nat
                            /\ Line # {} /\ Text # {} /\ AddDefault \in BOOLEAN

VARIABLES
    file, undo_stack, redo_stack, commit_id, saved_commit_id,
    next_commit_id, amend_id, saved,   \* SubtitleHistory
    has_file,        \* filename is not empty
    autosaved,       \* autosaved_commit_id
    detect,          \* option "App/Auto/Reload External Changes"
    known,           \* last_known_file_snapshot
    prompted,        \* last_prompted_file_snapshot
    change_pending,  \* external_file_change_pending
    main,            \* where the main thread is; "idle" in its event loop
    shown,           \* the snapshot the reload prompt is about
    prompt_count,    \* prompts of this OnWatchedFileChanged
    pending,         \* LatestSaveState::pending
    stopping,        \* LatestSaveState::stopping; alive is its negation
    drain_scheduled,
    completed,       \* completions the main thread has to apply
    notices,         \* calls posted to the main thread's queue
    queue,           \* tasks of autosave_queue
    worker,          \* where the worker is in its task
    request,         \* the request the worker holds
    disk,            \* the file
    fs_event,        \* the watcher has something to deliver
    edits,           \* external edits so far
    ours,            \* history variable: what was last read or written here
    published,       \* history variable: revision last published
    foreign          \* history variable: what became of an external edit

History == INSTANCE SubtitleHistory
Document == History!Document
IsModified == History!IsModified

historyVars == <<file, undo_stack, redo_stack, commit_id, saved_commit_id,
                 next_commit_id, amend_id, saved>>
watchVars == <<detect, known, prompted, change_pending, shown, prompt_count>>
latestVars == <<pending, stopping, drain_scheduled, completed, notices>>
workerVars == <<worker, request>>
diskVars == <<disk, fs_event, edits>>
ghostVars == <<ours, published, foreign>>
vars == <<historyVars, has_file, autosaved, watchVars, main, latestVars,
          queue, workerVars, diskVars, ghostVars>>

Contents == [doc : Document, stamp : Stamp]
Snapshot == Contents \cup {Missing}
Request == [current : BOOLEAN, revision : Nat, doc : Document,
            expected : Snapshot \cup {None}, staged : Contents \cup {None}]
Completion == [revision : Nat, doc : Document, snapshot : Contents]
DrainTask == "drain"
ASSUME NoneAssumption == /\ Missing \notin Contents
                         /\ None \notin Snapshot \cup Request

MetadataEqual(a, b) ==
    IF a = Missing \/ b = Missing THEN a = b ELSE a.stamp = b.stamp

\* ShouldCheckExternalFileSnapshot, in a GUI shell.
ChecksDisk == detect /\ has_file /\ known # None
HasFileChangedOnDisk == ChecksDisk /\ disk # known
-----------------------------------------------------------------------------
(***************************************************************************)
(* The barrier and the completions                                         *)
(***************************************************************************)
\* Run and forget the completions; each is skipped once its file is closed.
Applies == completed # <<>> /\ ~ stopping /\ has_file
MarkCompleted ==
    /\ completed' = <<>>
    /\ IF Applies
       THEN LET done == Last(completed) IN
            /\ saved_commit_id' = done.revision
            /\ saved' = done.doc
            /\ autosaved' = done.revision
            /\ known' = IF detect THEN done.snapshot ELSE known
            /\ prompted' = IF detect THEN None ELSE prompted
       ELSE UNCHANGED <<saved_commit_id, saved, autosaved, known,
                        prompted>>
    /\ UNCHANGED <<file, undo_stack, redo_stack, commit_id, next_commit_id,
                   amend_id>>
ApplyCompleted ==
    /\ MarkCompleted
    /\ change_pending' = (change_pending /\ ~ (Applies /\ detect))

Outdated(r) == IF r = None THEN None ELSE [r EXCEPT !.current = FALSE]

\* Mutant: the request being written stays current.
BeginRevision_KeepsRequest ==
    /\ pending' = None
    /\ ApplyCompleted
    /\ UNCHANGED <<stopping, drain_scheduled, notices, worker, request>>

\* BeginSaveEveryChangeRevision: under the lock, take the completions, drop
\* the pending request and outdate the one being written; then apply.
BeginRevision ==
    /\ pending' = None
    /\ request' = Outdated(request)
    /\ ApplyCompleted
    /\ UNCHANGED <<stopping, drain_scheduled, notices, worker>>

\* autosave_queue->Sync returns: every task posted before it has run.
Drained == queue = <<>> /\ worker = "idle"

Step(from, to) == main = from /\ main' = to

\* A handler that starts with a barrier.
Barrier(next) ==
    /\ undo_stack # <<>> \/ next \in {"load_sync", "close_sync"}
    /\ main = "idle" \/ (main = "save" /\ next = "save_sync")
    /\ main' = next
    /\ BeginRevision
    /\ UNCHANGED <<has_file, detect, shown, prompt_count, queue, diskVars,
                   ours, published, foreign>>

\* Mutant: what the worker finished during the wait is not applied.
Sync_NoApply(from, to) ==
    /\ Drained
    /\ Step(from, to)
    /\ UNCHANGED <<historyVars, has_file, autosaved, watchVars, latestVars,
                   queue, workerVars, diskVars, ghostVars>>

\* The wait that follows it, and applies what the worker finished meanwhile.
Sync(from, to) ==
    /\ Drained
    /\ Step(from, to)
    /\ ApplyCompleted
    /\ UNCHANGED <<has_file, detect, shown, prompt_count, pending, stopping,
                   drain_scheduled, notices, queue, workerVars, diskVars,
                   ours, published, foreign>>
-----------------------------------------------------------------------------
(***************************************************************************)
(* Commits, undo and redo                                                  *)
(***************************************************************************)
\* What a recorded revision leaves alone outside the history.
RestUnchanged == UNCHANGED <<has_file, autosaved, watchVars, latestVars, queue,
                             workerVars, diskVars, ghostVars>>

\* OnCommit, after the barrier: Record, then save_on_change, which does
\* nothing, queues a request, or calls Save for a format only it can write.
OnCommit ==
    /\ main = "record"
    /\ \/ \E c \in Client, changed \in SUBSET Line, exact \in BOOLEAN,
            t \in Text : History!EditLines(c, changed, exact, t)
       \/ \E c \in Client, doc \in Document : History!EditDocument(c, doc)
    /\ main' \in IF has_file /\ Len(undo_stack') > 1
                 THEN {"idle", "submit", "save"} ELSE {"idle"}
    /\ RestUnchanged

Undo == Step("undo", "idle") /\ History!Undo /\ RestUnchanged
Redo == Step("redo", "idle") /\ History!Redo /\ RestUnchanged
ResetCommitId(c) == /\ main = "idle" /\ main' = main
                    /\ History!ResetCommitId(c)
                    /\ RestUnchanged

\* ConfirmOverwriteExternalChangesForAsync: the baselines the worker may
\* check; none when nothing is tracked.  An edited file is asked about.
Unedited == ChecksDisk /\ MetadataEqual(disk, known)
ExpectedTarget == IF ~ ChecksDisk THEN None ELSE IF Unedited THEN known ELSE disk

NewRequest ==
    [current |-> TRUE, revision |-> commit_id, doc |-> file,
     expected |-> ExpectedTarget, staged |-> None]

\* Mutant: every request posts a drain.
ScheduleDrain_Always ==
    /\ drain_scheduled' = TRUE
    /\ queue' = Append(queue, DrainTask)
\* Mutant: only a request that finds a drain scheduled posts one.
ScheduleDrain_Inverted ==
    /\ drain_scheduled' = TRUE
    /\ queue' = IF drain_scheduled THEN Append(queue, DrainTask) ELSE queue
ScheduleDrain ==
    /\ drain_scheduled' = TRUE
    /\ queue' = IF drain_scheduled THEN queue ELSE Append(queue, DrainTask)

\* QueueSaveEveryChange.  The user may refuse to overwrite an edited file.
QueueSave ==
    /\ Step("submit", "idle")
    /\ ~ stopping
    /\ pending' = NewRequest
    /\ ScheduleDrain
    /\ foreign' = IF ChecksDisk /\ ~ Unedited THEN "none" ELSE foreign
    /\ UNCHANGED <<historyVars, has_file, autosaved, watchVars, stopping,
                   completed, notices, workerVars, diskVars, ours,
                   published>>

RefuseSave ==
    /\ ChecksDisk
    /\ ~ Unedited
    /\ Step("submit", "idle")
    /\ foreign' = "none"
    /\ UNCHANGED <<historyVars, has_file, autosaved, watchVars, latestVars,
                   queue, workerVars, diskVars, ours, published>>

\* The AutoSave timer: a backup of a revision not autosaved or saved yet.
AutoSave ==
    /\ main \in {"idle", "prompt"}
    /\ undo_stack # <<>>
    /\ commit_id # autosaved
    /\ Len(queue) < MaxTasks
    /\ autosaved' = commit_id
    /\ queue' = Append(queue, "backup")
    /\ UNCHANGED <<historyVars, has_file, watchVars, main, latestVars,
                   workerVars, diskVars, ours, published, foreign>>
-----------------------------------------------------------------------------
(***************************************************************************)
(* Save, Load, Close, TryToClose and destruction.  Each starts with a      *)
(* Barrier (TryToClose with ApplyCompleted alone) and a Sync.              *)
(***************************************************************************)
\* What a read or write of the file leaves alone.
FileStepUnchanged == UNCHANGED <<detect, shown, prompt_count, latestVars,
                                 queue, workerVars, edits>>
\* A foreground write or a new document supersedes the last publication.
Superseded == published' = History!NoId

\* ConfirmOverwriteExternalChanges; the user may refuse.
SaveConfirm ==
    /\ \/ Step("save_confirm", "save_write")
       \/ HasFileChangedOnDisk /\ Step("save_confirm", "idle")
    /\ foreign' = IF HasFileChangedOnDisk THEN "none" ELSE foreign
    /\ UNCHANGED <<historyVars, has_file, autosaved, known, prompted,
                   change_pending, disk, fs_event, ours>>
    /\ UNCHANGED published
    /\ FileStepUnchanged

\* The write succeeds: the marks stay.
SaveWrite ==
    /\ Step("save_write", "snapshot")
    /\ History!Save
    /\ \E s \in Stamp : disk' = [doc |-> file, stamp |-> s]
    /\ has_file' = TRUE
    /\ fs_event' = TRUE
    /\ autosaved' = commit_id
    /\ ours' = file
    /\ foreign' = "none"
    /\ UNCHANGED <<known, prompted, change_pending>>
    /\ Superseded
    /\ FileStepUnchanged

\* Mutant: the marks are not restored.
SaveFails_KeepsMarks ==
    /\ MayFail
    /\ Step("save_write", "idle")
    /\ History!Save
    /\ UNCHANGED <<has_file, autosaved, known, prompted, change_pending, disk,
                   fs_event, ours, foreign, published>>
    /\ FileStepUnchanged

\* The write fails: the marks are restored, the file is as it was.
SaveFails ==
    /\ MayFail
    /\ Step("save_write", "idle")
    /\ foreign' = IF foreign = "late" THEN "unseen" ELSE foreign
    /\ UNCHANGED <<historyVars, has_file, autosaved, known, prompted,
                   change_pending, disk, fs_event, ours>>
    /\ UNCHANGED published
    /\ FileStepUnchanged

\* The new document replaces the old one.  Copying the file to its backup may
\* fail, and ends the handler.
LoadRead ==
    /\ \/ Step("load_read", "snapshot")
       \/ MayFail /\ Step("load_read", "idle")
    /\ disk # Missing
    /\ History!Load(disk.doc)
    /\ has_file' = TRUE
    /\ autosaved' = commit_id + 1
    /\ ours' = disk.doc
    /\ foreign' = "none"
    /\ UNCHANGED <<known, prompted, change_pending, disk, fs_event>>
    /\ Superseded
    /\ FileStepUnchanged

\* An unreadable file leaves the document, without its pending save; the user
\* is told when it is gone.
LoadFails ==
    /\ MayFail \/ disk = Missing
    /\ Step("load_read", "idle")
    /\ foreign' = IF disk = Missing THEN "none" ELSE foreign
    /\ UNCHANGED <<historyVars, has_file, autosaved, known, prompted,
                   change_pending, disk, fs_event, ours>>
    /\ UNCHANGED published
    /\ FileStepUnchanged

\* UpdateFileWatch, at the end of Save and Load: the file as it now is
\* becomes the baseline.
UpdateFileWatch ==
    /\ Step("snapshot", "idle")
    /\ known' = IF detect THEN disk ELSE None
    /\ prompted' = IF detect THEN prompted ELSE None
    /\ change_pending' = FALSE
    /\ foreign' = IF foreign = "unseen" THEN "swallowed" ELSE foreign
    /\ UNCHANGED <<historyVars, has_file, autosaved, disk, fs_event, ours>>
    /\ UNCHANGED published
    /\ FileStepUnchanged

\* Close: the default document without a file.
Close ==
    /\ Step("close", "idle")
    /\ \E doc \in Document : History!Load(doc)
    /\ has_file' = FALSE
    /\ autosaved' = commit_id + 1
    /\ known' = None /\ prompted' = None
    /\ change_pending' = FALSE
    /\ ours' = file'
    /\ foreign' = "none"
    /\ UNCHANGED <<disk, fs_event>>
    /\ Superseded
    /\ FileStepUnchanged

\* TryToClose: wait for the automatic writes without invalidating them.
TryToClose ==
    /\ undo_stack # <<>>
    /\ Step("idle", "try_sync")
    /\ ApplyCompleted
    /\ UNCHANGED <<has_file, detect, shown, prompt_count, pending, stopping,
                   drain_scheduled, notices, queue, workerVars, diskVars,
                   ours, published, foreign>>

\* Only unsaved changes are asked about, and Yes saves them.
DecideClose ==
    /\ \/ Step("try_close", "idle")
       \/ IsModified /\ Step("try_close", "save")
    /\ UNCHANGED historyVars
    /\ RestUnchanged

\* ~SubsController: refuse what is not published yet, then drain the queue.
Destroy ==
    /\ Step("idle", "stopping")
    /\ stopping' = TRUE
    /\ pending' = None
    /\ request' = Outdated(request)
    /\ known' = None /\ prompted' = None
    /\ change_pending' = FALSE
    /\ UNCHANGED <<historyVars, has_file, autosaved, detect, shown,
                   prompt_count, drain_scheduled, completed, notices, queue,
                   worker, diskVars, ghostVars>>

MainBarriers ==
    \/ Barrier("record") /\ next_commit_id < MaxRevision
    \/ Barrier("undo") /\ History!CanUndo
    \/ Barrier("redo") /\ History!CanRedo
    \/ Barrier("save_sync")
    \/ Barrier("load_sync") /\ next_commit_id < MaxRevision
    \/ Barrier("close_sync") /\ next_commit_id < MaxRevision

\* Sync returned: nothing of the worker refers to the controller any more.
Destroyed ==
    /\ Drained
    /\ Step("stopping", "stopped")
    /\ UNCHANGED historyVars
    /\ RestUnchanged

MainWaits ==
    \/ Sync("save_sync", "save_confirm")
    \/ Sync("load_sync", "load_read")
    \/ Sync("close_sync", "close")
    \/ Sync("try_sync", "try_close")
-----------------------------------------------------------------------------
(***************************************************************************)
(* Calls posted to the main thread, the watcher and its prompt.  They run  *)
(* in the event loop, that of the prompt included.                         *)
(***************************************************************************)
\* Mutant: the call runs without having been posted.
ApplyPosted_Unposted ==
    /\ main = "idle"
    /\ notices' = notices - 1
    /\ ApplyCompleted
    /\ UNCHANGED <<has_file, detect, main, shown, prompt_count, pending,
                   stopping, drain_scheduled, queue, workerVars, diskVars,
                   ours, published, foreign>>

\* The call the worker posts after each publication.
ApplyPosted ==
    /\ main \in {"idle", "prompt", "stopped"}
    /\ notices > 0
    /\ notices' = notices - 1
    /\ IF main = "stopped"
       THEN UNCHANGED <<historyVars, autosaved, known, prompted,
                        change_pending, completed>>
       ELSE ApplyCompleted
    /\ UNCHANGED <<has_file, detect, main, shown, prompt_count, pending,
                   stopping, drain_scheduled, queue, workerVars, diskVars,
                   ours, published, foreign>>

WatchUnchanged == UNCHANGED <<has_file, detect, pending, stopping,
                              drain_scheduled, notices, queue, workerVars,
                              disk, edits, ours, published>>

\* OnWatchedFileChanged: up to its loop, or while the prompt is open.
OnWatchedFileChanged ==
    /\ fs_event
    /\ fs_event' = FALSE
    /\ main = "idle"
    /\ ApplyCompleted
    /\ main' = IF has_file /\ detect THEN "watch" ELSE "idle"
    /\ prompt_count' = 0
    /\ UNCHANGED <<shown, foreign>>
    /\ WatchUnchanged

\* Mutant: a change during the prompt is forgotten.
WatchedDuringPrompt_Drops ==
    /\ fs_event
    /\ fs_event' = FALSE
    /\ main = "prompt"
    /\ ApplyCompleted
    /\ UNCHANGED <<main, shown, prompt_count, foreign>>
    /\ WatchUnchanged

WatchedDuringPrompt ==
    /\ fs_event
    /\ fs_event' = FALSE
    /\ main = "prompt"
    /\ MarkCompleted
    /\ change_pending' = (detect \/ change_pending)
    /\ UNCHANGED <<main, shown, prompt_count, foreign>>
    /\ WatchUnchanged

\* One turn of the loop: nothing new, a loop that goes on too long, or a
\* prompt (for a deleted file, a warning).
CompareWatched ==
    /\ main = "watch"
    /\ change_pending' = FALSE
    /\ IF disk \in {known, prompted}
       THEN /\ main' = "idle"
            /\ UNCHANGED <<historyVars, prompted, shown, prompt_count, foreign>>
       ELSE /\ prompt_count' = prompt_count + 1
            /\ IF prompt_count' > kMaxPromptLoopCount
               THEN /\ main' = "idle"
                    /\ prompted' = disk
                    /\ UNCHANGED <<historyVars, shown, foreign>>
               ELSE /\ main' = "prompt"
                    /\ shown' = disk
                    /\ foreign' = "none"
                    /\ UNCHANGED <<historyVars, prompted>>
    /\ published' = published
    /\ UNCHANGED <<has_file, autosaved, detect, known, latestVars, queue,
                   workerVars, diskVars, ours>>

\* Mutant: the file as it is after the prompt counts as prompted.
DeclineReload_StampsCurrent ==
    /\ Step("prompt", IF detect /\ change_pending THEN "watch" ELSE "idle")
    /\ IF shown = Missing
       THEN History!FileDeleted /\ published' = History!NoId
       ELSE UNCHANGED <<historyVars, published>>
    /\ prompted' = disk
    /\ shown' = None
    /\ UNCHANGED <<has_file, autosaved, detect, known, change_pending,
                   prompt_count, latestVars, queue, workerVars, diskVars,
                   ours, foreign>>

\* The user declines, or closes the warning: a deleted file counts as
\* modified.  What changed meanwhile is compared again.
DeclineReload ==
    /\ Step("prompt", IF detect /\ change_pending THEN "watch" ELSE "idle")
    /\ IF shown = Missing
       THEN History!FileDeleted /\ published' = History!NoId
       ELSE UNCHANGED <<historyVars, published>>
    /\ prompted' = shown
    /\ shown' = None
    /\ UNCHANGED <<has_file, autosaved, detect, known, change_pending,
                   prompt_count, latestVars, queue, workerVars, diskVars,
                   ours, foreign>>

\* The user agrees: a Load, with its barrier.
AcceptReload ==
    /\ shown # Missing
    /\ next_commit_id < MaxRevision
    /\ Step("prompt", "load_sync")
    /\ shown' = None
    /\ BeginRevision
    /\ UNCHANGED <<has_file, detect, prompt_count, queue, diskVars, ours,
                   published, foreign>>

\* ApplyReloadExternalChangesOption.
ToggleDetection ==
    /\ Toggles
    /\ main \in {"idle", "prompt"}
    /\ main' = main
    /\ detect' = ~ detect
    /\ IF detect
       THEN known' = None /\ prompted' = None /\ change_pending' = FALSE
       ELSE /\ known' = IF has_file /\ known = None THEN disk ELSE known
            /\ change_pending' = IF has_file /\ known = None
                                 THEN FALSE ELSE change_pending
            /\ prompted' = prompted
    /\ foreign' = "none"
    /\ UNCHANGED <<historyVars, has_file, autosaved, shown, prompt_count,
                   latestVars, queue, workerVars, diskVars, ours,
                   published>>
-----------------------------------------------------------------------------
(***************************************************************************)
(* The worker: DrainSaveEveryChangeQueue and the AutoSave backups, one     *)
(* task of the serial queue at a time.                                     *)
(***************************************************************************)
WorkerUnchanged == UNCHANGED <<historyVars, has_file, autosaved, watchVars,
                               main, stopping, edits>>

StartTask ==
    /\ worker = "idle"
    /\ queue # <<>>
    /\ queue' = Tail(queue)
    /\ worker' = IF Head(queue) = DrainTask THEN "take" ELSE "idle"
    /\ UNCHANGED <<request, latestVars, disk, fs_event, ours, published,
                   foreign>>
    /\ WorkerUnchanged

\* Under the lock: take the request there is, or end the drain.
TakePending ==
    /\ worker = "take"
    /\ request' = pending
    /\ pending' = None
    /\ worker' = IF pending = None THEN "idle" ELSE "prepare"
    /\ drain_scheduled' = (pending # None)
    /\ UNCHANGED <<stopping, completed, notices, queue, disk, fs_event, ours,
                   published, foreign>>
    /\ WorkerUnchanged

\* Mutant: a file of the same size and time counts as unchanged.
TargetUnchanged_MetadataOnly(expected) ==
    IF expected = None THEN TRUE ELSE MetadataEqual(disk, expected)
TargetUnchanged(expected) == expected = None \/ disk = expected

\* prepare(): write the staging file, then compare the target with the
\* baseline.  The snapshot of the staging file is kept: it is what the
\* target will be.
Prepare ==
    /\ worker = "prepare"
    /\ \/ /\ TargetUnchanged(request.expected)
          /\ \E s \in Stamp : request' =
                [request EXCEPT !.staged = [doc |-> request.doc, stamp |-> s]]
          /\ worker' = "publish"
       \/ /\ ~ TargetUnchanged(request.expected) \/ MayFail
          /\ request' = None
          /\ worker' = "take"
    /\ UNCHANGED <<latestVars, queue, disk, fs_event, ours, published, foreign>>
    /\ WorkerUnchanged

\* Mutant: an outdated request is published.
CanPublish_Always == TRUE
CanPublish == ~ stopping /\ request.current

\* publish() under the lock: the staging file replaces the target.
Publish ==
    /\ worker = "publish"
    /\ CanPublish
    /\ disk' = request.staged
    /\ fs_event' = TRUE
    /\ completed' = Append(completed, [revision |-> request.revision,
                                       doc |-> request.doc,
                                       snapshot |-> request.staged])
    /\ ours' = request.doc
    /\ published' = request.revision
    /\ foreign' = "none"
    /\ request' = None
    /\ worker' = "notify"
    /\ UNCHANGED <<pending, drain_scheduled, notices, queue>>
    /\ WorkerUnchanged

\* A request that was outdated, or whose rename fails: the staging file goes.
Withdraw ==
    /\ worker = "publish"
    /\ ~ CanPublish \/ MayFail
    /\ request' = None
    /\ worker' = "take"
    /\ foreign' = IF foreign = "late" THEN "unseen" ELSE foreign
    /\ UNCHANGED <<latestVars, queue, disk, fs_event, ours, published>>
    /\ WorkerUnchanged

\* notify_main(), captured under the lock, called outside it.
NotifyMain ==
    /\ worker = "notify"
    /\ worker' = "take"
    /\ notices' = notices + 1
    /\ UNCHANGED <<request, pending, drain_scheduled, completed, queue, disk,
                   fs_event, ours, published, foreign>>
    /\ WorkerUnchanged

Worker == StartTask \/ TakePending \/ Prepare \/ Publish \/ Withdraw
          \/ NotifyMain
-----------------------------------------------------------------------------
\* Another program writes or deletes the file.  Back at a state the
\* controller has seen or asks about, or while nothing is tracked, it is not
\* foreign; in the moment between a check and the write it guards, it is late.
ExternalEdit ==
    /\ edits < MaxEdits
    /\ edits' = edits + 1
    /\ disk' \in {d \in Snapshot : d # disk /\ (d = Missing \/ DOMAIN d.doc # {})}
    /\ fs_event' = TRUE
    /\ foreign' = IF \/ ~ detect \/ ~ has_file
                     \/ disk' \in {known, prompted, shown}
                     \/ pending # None /\ disk' = pending.expected
                     \/ request # None /\ disk' = request.expected
                     \/ \E done \in Range(completed) : disk' = done.snapshot
                  THEN "none"
                  ELSE IF main = "save_write" \/ worker = "publish"
                  THEN "late" ELSE "unseen"
    /\ UNCHANGED <<historyVars, has_file, autosaved, watchVars, main,
                   latestVars, queue, workerVars, ours, published>>

Terminated == main = "stopped" /\ notices = 0 /\ UNCHANGED vars

Init ==
    /\ History!Init
    /\ has_file = FALSE
    /\ autosaved = 0
    /\ detect = TRUE
    /\ known = None /\ prompted = None /\ shown = None
    /\ change_pending = FALSE
    /\ prompt_count = 0
    /\ main = "idle"
    /\ pending = None /\ request = None
    /\ stopping = FALSE /\ drain_scheduled = FALSE
    /\ completed = <<>> /\ notices = 0
    /\ queue = <<>> /\ worker = "idle"
    /\ disk \in {d \in Contents : DOMAIN d.doc # {}}
    /\ fs_event = FALSE /\ edits = 0
    /\ ours = disk.doc
    /\ published = History!NoId
    /\ foreign = "none"

Main ==
    \/ MainBarriers \/ MainWaits \/ OnCommit \/ Undo \/ Redo
    \/ (\E c \in Client : ResetCommitId(c))
    \/ QueueSave \/ RefuseSave \/ AutoSave
    \/ SaveConfirm \/ SaveWrite \/ SaveFails \/ LoadRead \/ LoadFails
    \/ UpdateFileWatch \/ Close \/ TryToClose \/ DecideClose
    \/ Destroy \/ Destroyed
    \/ ApplyPosted \/ OnWatchedFileChanged \/ WatchedDuringPrompt
    \/ CompareWatched \/ DeclineReload \/ AcceptReload \/ ToggleDetection

Next == Main \/ Worker \/ ExternalEdit \/ Terminated
Spec == Init /\ [][Next]_vars

\* The main thread runs a handler it is in to its end, modal prompts being
\* answered; the event loop and the serial queue run what is posted.
Handler == main \notin {"idle", "prompt", "stopped"} /\ Main
Fairness ==
    /\ WF_vars(Worker)
    /\ WF_vars(Handler)
    /\ WF_vars(ApplyPosted)
    /\ WF_vars(DeclineReload \/ AcceptReload)
    /\ SF_vars(OnWatchedFileChanged)
FairSpec == Spec /\ Fairness
-----------------------------------------------------------------------------
(***************************************************************************)
(* Properties                                                              *)
(***************************************************************************)
MainStates == {"idle", "record", "undo", "redo", "submit", "save",
    "save_sync", "save_confirm", "save_write", "load_sync", "load_read",
    "close_sync", "close", "snapshot", "try_sync", "try_close", "watch",
    "prompt", "stopping", "stopped"}

\* Every variable has its type.
TypeOK ==
    /\ History!TypeOK
    /\ has_file \in BOOLEAN /\ detect \in BOOLEAN
    /\ autosaved \in Nat
    /\ {known, prompted, shown} \subseteq Snapshot \cup {None}
    /\ change_pending \in BOOLEAN
    /\ main \in MainStates
    /\ prompt_count \in 0 .. kMaxPromptLoopCount + 1
    /\ {pending, request} \subseteq Request \cup {None}
    /\ stopping \in BOOLEAN /\ drain_scheduled \in BOOLEAN
    /\ completed \in Seq(Completion)
    /\ notices \in Nat
    /\ queue \in Seq({DrainTask, "backup"})
    /\ worker \in {"idle", "take", "prepare", "publish", "notify"}
    /\ disk \in Snapshot /\ fs_event \in BOOLEAN /\ edits \in 0 .. MaxEdits
    /\ ours \in Document
    /\ published \in Nat \cup {History!NoId}
    /\ foreign \in {"none", "unseen", "late", "swallowed"}

\* Whatever the threads do, the history sees only what SubtitleHistory
\* allows: a finished automatic save marks the revision and the document
\* that are current when it is applied.
ImplementsHistory == History!Spec

\* An unmodified document is the one last read from or written to its file.
UnmodifiedIsOnDisk ==
    undo_stack # <<>> /\ has_file /\ ~ IsModified => ours = file

\* What may still be published, or is published and not yet applied, is the
\* live document at the live revision, and there is one of it.
RequestsAreCurrent ==
    /\ \A r \in {pending, request} \ {None} :
          r.current => r.revision = commit_id /\ r.doc = file
    /\ \A done \in Range(completed) :
          done.revision = commit_id /\ done.doc = file
    /\ Len(completed) <= 1

\* A pending request has exactly one drain that will take it.
Drains == {i \in 1 .. Len(queue) : queue[i] = DrainTask}
DrainIsScheduled ==
    /\ pending # None => drain_scheduled
    /\ drain_scheduled <=> (worker # "idle" \/ Drains # {})
    /\ worker # "idle" => Drains = {}
    /\ \A i, j \in Drains : i = j

\* When TryToClose asks about unsaved changes, the latest automatic write,
\* if it succeeded, has been applied.
CloseSeesPublished ==
    main = "try_close" /\ published = commit_id => ~ IsModified

\* A write made under detection replaces an external edit the user was not
\* asked about only if the edit came after the check the write makes, or
\* was taken for the result of a save or load.
WritesKeepForeign ==
    /\ worker = "publish" /\ CanPublish /\ request.expected # None
         => foreign # "unseen"
    /\ main = "save_write" /\ ChecksDisk => foreign # "unseen"

\* A request is published and reported as saved, unless a new revision,
\* save, load or close comes first, or another program writes the file.
Awaiting == pending # None \/ (request # None /\ request.current)
Waits == {"idle", "prompt", "watch", "try_sync", "try_close"}
AutomaticSaveLands ==
    Awaiting ~> (~ IsModified /\ ours = file) \/ main \notin Waits \/ edits > 0

\* While the program runs, no external edit stays unseen: the user is asked
\* about it or told, a read or write takes its place, or a save or load takes
\* it for its own result.  Excepted is an edit that is stamped as one the user
\* was asked about when he was not.
Silenced == foreign \in {"unseen", "late"} /\ disk = prompted
ForeignIsReported ==
    foreign = "unseen" ~> foreign # "unseen" \/ stopping \/ Silenced

\* Only the limit of the loop in OnWatchedFileChanged stamps an edit so: the
\* answer to a prompt never speaks for an edit made while it was open.
OnlyLimitSilences ==
    [][Silenced' /\ ~ Silenced => prompt_count' > kMaxPromptLoopCount]_vars
=============================================================================
