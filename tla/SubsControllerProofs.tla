------------------------- MODULE SubsControllerProofs -------------------------
(***************************************************************************)
(* Theorems about SubsController, for every set of lines, texts and        *)
(* stamps, every undo limit and every bound: what an automatic save may    *)
(* publish, when it is applied, and what that makes of the undo history.   *)
(***************************************************************************)
EXTENDS SubsController, SequenceTheorems, TLAPS

\* The theorems about SubtitleHistory.
Proved == INSTANCE SubtitleHistoryProofs

(***************************************************************************)
(* The inductive invariant of the automatic saves.  A request may be       *)
(* published while it is current and the controller is not stopping; a     *)
(* handler makes it outdated under the lock before it touches the document *)
(* (HandlerIsQuiet), so what is published is always the live document.     *)
(***************************************************************************)
\* Where the main thread is after the barrier of a handler that changes or writes the document.
HandlerMain == {"record", "undo", "redo", "submit", "save_sync", "save_confirm", "save_write",
                "load_sync", "load_read", "close_sync", "close", "snapshot"}
\* Where it is after a wait for the worker, until it is back in its event loop.
DrainedMain == {"save_confirm", "save_write", "load_read", "close", "snapshot", "try_close"}

Live(r) == r # None /\ r.current

\* The types of everything but the undo history.
Types ==
    /\ has_file \in BOOLEAN /\ detect \in BOOLEAN /\ change_pending \in BOOLEAN
    /\ autosaved \in Nat
    /\ known \in Snapshot \cup {None} /\ prompted \in Snapshot \cup {None}
    /\ shown \in Snapshot \cup {None}
    /\ main \in MainStates
    /\ prompt_count \in 0 .. kMaxPromptLoopCount + 1
    /\ pending \in Request \cup {None} /\ request \in Request \cup {None}
    /\ stopping \in BOOLEAN /\ drain_scheduled \in BOOLEAN
    /\ completed \in Seq(Completion)
    /\ notices \in Nat
    /\ queue \in Seq({DrainTask, "backup"})
    /\ worker \in {"idle", "take", "prepare", "publish", "notify"}
    /\ disk \in Snapshot /\ fs_event \in BOOLEAN /\ edits \in 0 .. MaxEdits
    /\ ours \in Document
    /\ published \in Nat \cup {History!NoId}
    /\ foreign \in {"none", "unseen", "late", "swallowed"}

\* There is one save at a time to wait for, and only while there is a file.
OneSave ==
    /\ pending # None => Live(pending) /\ ~Live(request)
    /\ Live(pending) \/ Live(request) => completed = <<>> /\ has_file
    /\ completed # <<>> => has_file

HandlerIsQuiet ==
    /\ main \in HandlerMain => ~Live(pending) /\ ~Live(request) /\ completed = <<>>
    /\ main = "submit" => has_file
HandlerIsDrained ==
    main \in DrainedMain => queue = <<>> /\ worker = "idle" /\ completed = <<>>

WorkerHolds ==
    /\ worker \in {"prepare", "publish"} <=> request # None
    /\ worker = "publish" => request.staged # None /\ request.staged.doc = request.doc

StoppingIsEnd ==
    /\ stopping <=> main \in {"stopping", "stopped"}
    /\ stopping => pending = None /\ ~Live(request)

\* The loop of OnWatchedFileChanged stops one prompt after the limit.
PromptsAreCounted == main \in {"watch", "prompt"} => prompt_count <= kMaxPromptLoopCount
\* A document with a file has been recorded.
FileIsRecorded == has_file => undo_stack # <<>>

Protocol ==
    /\ RequestsAreCurrent /\ OneSave /\ HandlerIsQuiet /\ HandlerIsDrained
    /\ WorkerHolds /\ StoppingIsEnd /\ DrainIsScheduled
SaveInv == Types /\ Protocol /\ PromptsAreCounted /\ FileIsRecorded
Inv == SaveInv /\ Proved!IInv /\ Proved!AllFilled

(***************************************************************************)
(* What a published revision becomes, what an external edit is told apart  *)
(* from, and what the file holds.                                          *)
(***************************************************************************)
\* What was published last is marked as saved, or about to be.
PublishedIsMarked ==
    published # Proved!NoId =>
        published = IF completed = <<>> THEN saved_commit_id ELSE completed[1].revision

\* An edit the user was not asked about differs from every baseline.
Unnoticed == {"unseen", "late"}
EditDiffers ==
    foreign \in Unnoticed =>
        /\ disk # known
        /\ pending # None => disk # pending.expected
        /\ request # None => disk # request.expected
        /\ completed # <<>> => disk # completed[1].snapshot
LateHasWrite == foreign = "late" => main = "save_write" \/ worker = "publish"
CheckedWrite ==
    /\ worker = "publish" /\ request.expected # None => foreign # "unseen"
    /\ main = "save_write" /\ ChecksDisk => foreign # "unseen"

\* What is marked saved is what was last read or written, once a finished save is applied.
SavedIsOurs ==
    /\ has_file /\ completed = <<>> => saved = ours
    /\ completed # <<>> => completed[1].doc = ours

\* With AddDefault no recorded document is empty, and no file this program leaves.
FilledDocuments ==
    /\ disk # Missing => Proved!Filled(disk.doc)
    /\ pending # None => Proved!Filled(pending.doc)
    /\ request # None => Proved!Filled(request.doc)
-----------------------------------------------------------------------------
(***************************************************************************)
(* What the operators of SubsController do                                 *)
(***************************************************************************)
\* A request is a record, and not None.
LEMMA RequestFields ==
  ASSUME NEW r \in Request
  PROVE  /\ r = [current |-> r.current, revision |-> r.revision, doc |-> r.doc,
                 expected |-> r.expected, staged |-> r.staged]
         /\ r.current \in BOOLEAN /\ r.revision \in Nat /\ r.doc \in Document
         /\ r.expected \in Snapshot \cup {None} /\ r.staged \in Contents \cup {None}
         /\ r # None
  BY NoneAssumption DEF Request

\* An outdated request may not be published; the rest of it stays.
LEMMA OutdatedFacts ==
  ASSUME NEW r \in Request \cup {None}
  PROVE  /\ Outdated(r) \in Request \cup {None}
         /\ ~Live(Outdated(r))
         /\ Outdated(r) = None <=> r = None
         /\ r # None => /\ Outdated(r).doc = r.doc /\ Outdated(r).expected = r.expected
                        /\ Outdated(r).staged = r.staged
<1>1. CASE r = None
  BY <1>1 DEF Outdated, Live
<1>2. CASE r # None
  <2>1. Outdated(r) = [r EXCEPT !.current = FALSE]
    BY <1>2 DEF Outdated
  <2>2. Outdated(r) = [current |-> FALSE, revision |-> r.revision, doc |-> r.doc,
                       expected |-> r.expected, staged |-> r.staged]
    BY <1>2, <2>1, RequestFields
  <2>3. Outdated(r) \in Request
    BY <1>2, <2>2, RequestFields DEF Request
  <2>4. ~Live(Outdated(r))
    BY <2>2 DEF Live
  <2>5. Outdated(r) # None
    BY <2>3, RequestFields
  <2>6. /\ Outdated(r).doc = r.doc /\ Outdated(r).expected = r.expected
        /\ Outdated(r).staged = r.staged
    BY <2>2
  <2> QED
    BY <1>2, <2>3, <2>4, <2>5, <2>6
<1> QED
  BY <1>1, <1>2

\* One completion at most: the last one and the only one are the same.
LEMMA CompletedOne ==
  ASSUME SaveInv
  PROVE  /\ Len(completed) \in {0, 1} /\ (Len(completed) = 0 <=> completed = <<>>)
         /\ completed # <<>> =>
              /\ Len(completed) = 1 /\ Last(completed) = completed[1]
              /\ completed[1] \in Completion
              /\ completed[1].revision = commit_id /\ completed[1].doc = file
<1>1. completed \in Seq(Completion) /\ Len(completed) <= 1
  BY DEF SaveInv, Protocol, Types, RequestsAreCurrent
<1>2. Len(completed) \in {0, 1} /\ (Len(completed) = 0 <=> completed = <<>>)
  <2>1. Len(completed) \in Nat
    BY <1>1, LenProperties
  <2>2. completed = <<>> <=> Len(completed) = 0
    BY <1>1, EmptySeq
  <2>3. \A n \in Nat : n <= 1 => n \in {0, 1}
    OBVIOUS
  <2> QED
    BY <1>1, <2>1, <2>2, <2>3
<1>3. ASSUME completed # <<>>
      PROVE  /\ Len(completed) = 1 /\ Last(completed) = completed[1]
             /\ completed[1] \in Completion
             /\ completed[1].revision = commit_id /\ completed[1].doc = file
  <2>1. Len(completed) = 1 /\ Last(completed) = completed[1]
    BY <1>2, <1>3 DEF Last
  <2>2. completed[1] \in Range(completed)
    BY <1>1, <2>1, LenProperties DEF Range
  <2>3. completed[1] \in Completion
    BY <1>1, <2>1, ElementOfSeq
  <2> QED
    BY <2>1, <2>2, <2>3 DEF SaveInv, Protocol, RequestsAreCurrent
<1> QED
  BY <1>2, <1>3
-----------------------------------------------------------------------------
(***************************************************************************)
(* The undo history of SubsController and the one of the theorems about    *)
(* SubtitleHistory are the same instance.                                  *)
(***************************************************************************)
\* What SubtitleHistory assumes of its constants holds here.
LEMMA HistoryConstants ==
  /\ Proved!DocumentAssumption /\ Proved!ClientAssumption
  /\ Proved!LevelsAssumption /\ Proved!RevisionAssumption
BY HistoryAssumption DEF Proved!DocumentAssumption, Proved!ClientAssumption,
     Proved!LevelsAssumption, Proved!RevisionAssumption

\* The initial states of the two are the same.
LEMMA SameInit == Proved!Init <=> History!Init
BY DEF Proved!Init, History!Init, Proved!Document, History!Document, Proved!NoId, History!NoId

\* Their recordings are the same.
LEMMA SameRecord ==
  ASSUME NEW doc, NEW id, NEW dialogue, NEW changed
  PROVE  Proved!Record(doc, id, dialogue, changed) <=> History!Record(doc, id, dialogue, changed)
BY DEF Proved!Record, History!Record, Proved!RecordInPlace, History!RecordInPlace,
  Proved!RecordEntry, History!RecordEntry, Proved!Merges, History!Merges,
  Proved!CanAmendSnapshot, History!CanAmendSnapshot, Proved!AmendSnapshot, History!AmendSnapshot,
  Proved!Normalised, History!Normalised, Proved!Trim, History!Trim, Proved!MaxOf, History!MaxOf,
  Proved!Top, History!Top, Proved!Pop, History!Pop

\* Their loads are the same.
LEMMA SameLoad == \A doc : Proved!Load(doc) <=> History!Load(doc)
BY DEF Proved!Load, History!Load, Proved!DropIds, History!DropIds, Proved!NoId, History!NoId,
  Proved!Normalised, History!Normalised

\* Their steps are the same.
LEMMA SameNext == [Proved!Next]_(Proved!vars) <=> [History!Next]_(History!vars)
<1>1. Proved!vars' = Proved!vars <=> History!vars' = History!vars
  BY DEF Proved!vars, History!vars
<1>2. \A c, doc, dialogue, changed :
        Proved!Commit(c, doc, dialogue, changed) <=> History!Commit(c, doc, dialogue, changed)
  BY SameRecord DEF Proved!Commit, History!Commit, Proved!NoId, History!NoId
<1>3. \A c, changed, exact, t :
        Proved!EditLines(c, changed, exact, t) <=> History!EditLines(c, changed, exact, t)
  BY <1>2 DEF Proved!EditLines, History!EditLines
<1>4. \A c, doc : Proved!EditDocument(c, doc) <=> History!EditDocument(c, doc)
  BY <1>2 DEF Proved!EditDocument, History!EditDocument
<1>5. \A c : Proved!ResetCommitId(c) <=> History!ResetCommitId(c)
  BY DEF Proved!ResetCommitId, History!ResetCommitId, Proved!NoId, History!NoId,
         Proved!history, History!history
<1>6. Proved!Undo <=> History!Undo
  BY DEF Proved!Undo, History!Undo, Proved!CanUndo, History!CanUndo, Proved!Top, History!Top,
         Proved!Pop, History!Pop, Proved!DropIds, History!DropIds, Proved!NoId, History!NoId
<1>7. Proved!Redo <=> History!Redo
  BY DEF Proved!Redo, History!Redo, Proved!CanRedo, History!CanRedo, Proved!Top, History!Top,
         Proved!Pop, History!Pop, Proved!DropIds, History!DropIds, Proved!NoId, History!NoId
<1>8. \A doc : Proved!Load(doc) <=> History!Load(doc)
  BY SameLoad
<1>9. (Proved!Save <=> History!Save) /\ (Proved!FileDeleted <=> History!FileDeleted)
  BY DEF Proved!Save, History!Save, Proved!FileDeleted, History!FileDeleted,
         Proved!history, History!history
<1>10. Proved!Document = Document
  BY DEF Proved!Document, Document, History!Document
<1> QED
  BY <1>1, <1>3, <1>4, <1>5, <1>6, <1>7, <1>8, <1>9, <1>10
     DEF Proved!Next, History!Next, Document

\* Their types are the same, and their claim about an unmodified document.
LEMMA SameProperties ==
  /\ Proved!TypeOK <=> History!TypeOK
  /\ Proved!UnmodifiedIsSaved <=> History!UnmodifiedIsSaved
  /\ Proved!Document = Document /\ Proved!NoId = History!NoId
BY DEF Proved!TypeOK, History!TypeOK, Proved!UnmodifiedIsSaved, History!UnmodifiedIsSaved,
  Proved!IsModified, History!IsModified, Proved!Document, Document, History!Document,
  Proved!Entry, History!Entry, Proved!NoId, History!NoId
-----------------------------------------------------------------------------
(***************************************************************************)
(* What a finished automatic save does to the history when it is applied.  *)
(***************************************************************************)
\* While the controller lives, applying what is finished is SubtitleHistory's Save, or nothing.
LEMMA Marked ==
  ASSUME Inv, MarkCompleted, ~stopping
  PROVE  /\ completed' = <<>>
         /\ UNCHANGED <<file, undo_stack, redo_stack, commit_id, next_commit_id, amend_id>>
         /\ completed = <<>> =>
              UNCHANGED <<saved_commit_id, saved, autosaved, known, prompted>>
         /\ completed # <<>> =>
              /\ History!Save
              /\ saved_commit_id' = completed[1].revision /\ saved' = completed[1].doc
              /\ autosaved' = completed[1].revision
              /\ known' \in {known, completed[1].snapshot} /\ prompted' \in {prompted, None}
<1>1. /\ completed' = <<>>
      /\ UNCHANGED <<file, undo_stack, redo_stack, commit_id, next_commit_id, amend_id>>
  BY DEF MarkCompleted
<1>2. ASSUME completed = <<>>
      PROVE  UNCHANGED <<saved_commit_id, saved, autosaved, known, prompted>>
  BY <1>2 DEF MarkCompleted, Applies
<1>3. ASSUME completed # <<>>
      PROVE  /\ History!Save
             /\ saved_commit_id' = completed[1].revision /\ saved' = completed[1].doc
             /\ autosaved' = completed[1].revision
             /\ known' \in {known, completed[1].snapshot} /\ prompted' \in {prompted, None}
  <2>1. /\ Last(completed) = completed[1]
        /\ completed[1].revision = commit_id /\ completed[1].doc = file
    BY <1>3, CompletedOne DEF Inv
  <2>2. Applies /\ undo_stack # <<>>
    BY <1>3 DEF Applies, Inv, SaveInv, Protocol, OneSave, FileIsRecorded
  <2>3. /\ saved_commit_id' = completed[1].revision /\ saved' = completed[1].doc
        /\ autosaved' = completed[1].revision
        /\ known' \in {known, completed[1].snapshot} /\ prompted' \in {prompted, None}
    BY <2>1, <2>2 DEF MarkCompleted
  <2>4. History!Save
    BY <1>1, <2>1, <2>2, <2>3 DEF History!Save, History!history
  <2> QED
    BY <2>3, <2>4
<1> QED
  BY <1>1, <1>2, <1>3

\* What applying it leaves has the types it had.
LEMMA MarkedTypes ==
  ASSUME Inv, MarkCompleted, ~stopping
  PROVE  /\ completed' \in Seq(Completion) /\ autosaved' \in Nat
         /\ known' \in Snapshot \cup {None} /\ prompted' \in Snapshot \cup {None}
<1>1. completed # <<>> => completed[1].revision \in Nat /\ completed[1].snapshot \in Snapshot
  BY CompletedOne DEF Inv, Completion, Snapshot
<1>2. /\ autosaved \in Nat /\ known \in Snapshot \cup {None} /\ prompted \in Snapshot \cup {None}
  BY DEF Inv, SaveInv, Types
<1>3. completed' \in Seq(Completion)
  BY Marked, EmptySeq
<1> QED
  BY <1>1, <1>2, <1>3, Marked

\* The types of the history's variables.
LEMMA HistoryTypes ==
  ASSUME Proved!IInv
  PROVE  /\ file \in Document /\ commit_id \in Nat
         /\ undo_stack \in Seq(Proved!Entry) /\ Len(undo_stack) \in Nat
<1>1. Proved!TypeOK
  BY DEF Proved!IInv
<1>2. /\ file \in Document /\ undo_stack \in Seq(Proved!Entry)
      /\ next_commit_id \in Nat \ {0} /\ commit_id \in 0 .. next_commit_id - 1
  BY <1>1, SameProperties DEF Proved!TypeOK
<1> QED
  BY <1>2, LenProperties

\* The steps that apply what is finished, by what they leave alone.
MarkingStep ==
    /\ MarkCompleted /\ ~stopping
    /\ pending' \in {pending, None} /\ request' \in {request, Outdated(request)}
    /\ main # "save_write" /\ main' # "save_write"
    /\ UNCHANGED <<has_file, detect, worker, queue, drain_scheduled, stopping, disk, ours,
                   published, foreign>>

\* The main thread's handlers that apply what is finished do so while it lives.
LEMMA BarrierMarks ==
  ASSUME Inv, NEW next \in {"record", "undo", "redo", "save_sync", "load_sync", "close_sync"},
         Barrier(next)
  PROVE  MarkingStep
BY DEF Barrier, BeginRevision, ApplyCompleted, MarkingStep, Inv, SaveInv, Protocol,
       StoppingIsEnd, diskVars

\* The barriers at the start of a handler apply what is finished.
LEMMA MainBarriersMark == Inv /\ MainBarriers => MarkingStep
BY BarrierMarks DEF MainBarriers

\* So do the waits for the worker.
LEMMA SyncMarks == Inv /\ MainWaits => MarkingStep
BY DEF MainWaits, Sync, Step, ApplyCompleted, MarkingStep, Inv, SaveInv, Protocol,
       StoppingIsEnd, diskVars,
       workerVars

\* So do closing, the posted calls, the watcher and the reload prompt.
LEMMA OtherMarks ==
  ASSUME Inv, TryToClose \/ (ApplyPosted /\ main # "stopped") \/ OnWatchedFileChanged
              \/ WatchedDuringPrompt \/ AcceptReload
  PROVE  MarkingStep
<1>1. CASE TryToClose
  BY <1>1 DEF TryToClose, Step, ApplyCompleted, MarkingStep, Inv, SaveInv, Protocol, StoppingIsEnd,
              diskVars, workerVars
<1>2. CASE ApplyPosted /\ main # "stopped"
  BY <1>2 DEF ApplyPosted, ApplyCompleted, MarkingStep, Inv, SaveInv, Protocol, StoppingIsEnd,
              diskVars, workerVars
<1>3. CASE OnWatchedFileChanged \/ WatchedDuringPrompt
  BY <1>3 DEF OnWatchedFileChanged, WatchedDuringPrompt, WatchUnchanged, ApplyCompleted,
              MarkingStep, Inv, SaveInv, Protocol, StoppingIsEnd, workerVars
<1>4. CASE AcceptReload
  BY <1>4 DEF AcceptReload, Step, BeginRevision, ApplyCompleted, MarkingStep, Inv, SaveInv,
              Protocol, StoppingIsEnd, diskVars
<1> QED
  BY <1>1, <1>2, <1>3, <1>4
-----------------------------------------------------------------------------
(***************************************************************************)
(* Every step is one of SubtitleHistory's, or leaves the history alone.    *)
(***************************************************************************)
\* A step that applies what is finished is a Save of the history, or nothing to it.
LEMMA MarkingHistory == Inv /\ MarkingStep => [History!Next]_(History!vars)
<1> SUFFICES ASSUME Inv, MarkingStep PROVE History!Save \/ UNCHANGED History!vars
  BY DEF History!Next
<1> QED
  BY Marked DEF MarkingStep, History!vars

\* The steps that leave the history alone.
StillHistory ==
    \/ QueueSave \/ RefuseSave \/ AutoSave \/ SaveConfirm \/ SaveFails \/ LoadFails
    \/ UpdateFileWatch \/ DecideClose \/ Destroy \/ Destroyed
    \/ (ApplyPosted /\ main = "stopped") \/ CompareWatched \/ ToggleDetection
    \/ Worker \/ ExternalEdit \/ UNCHANGED vars

\* They do leave it alone.
LEMMA StillSteps == StillHistory => UNCHANGED historyVars
<1>1. QueueSave \/ RefuseSave \/ AutoSave => UNCHANGED historyVars
  BY DEF QueueSave, RefuseSave, AutoSave
<1>2. SaveConfirm \/ SaveFails \/ LoadFails \/ UpdateFileWatch => UNCHANGED historyVars
  BY DEF SaveConfirm, SaveFails, LoadFails, UpdateFileWatch
<1>3. DecideClose \/ Destroy \/ Destroyed => UNCHANGED historyVars
  BY DEF DecideClose, Destroy, Destroyed
<1>4. (ApplyPosted /\ main = "stopped") \/ CompareWatched \/ ToggleDetection
        => UNCHANGED historyVars
  BY DEF ApplyPosted, CompareWatched, ToggleDetection
<1>5. Worker \/ ExternalEdit \/ UNCHANGED vars => UNCHANGED historyVars
  BY DEF Worker, StartTask, TakePending, Prepare, Publish, Withdraw, NotifyMain, WorkerUnchanged,
         ExternalEdit, vars
<1> QED
  BY <1>1, <1>2, <1>3, <1>4, <1>5 DEF StillHistory

\* The steps that are steps of the history.
RecordingStep ==
    \/ OnCommit \/ Undo \/ Redo \/ (\E c \in Client : ResetCommitId(c))
    \/ SaveWrite \/ LoadRead \/ Close \/ DeclineReload

\* They are steps of the history.
LEMMA RecordingHistory == Inv /\ RecordingStep => [History!Next]_(History!vars)
<1> SUFFICES ASSUME Inv, RecordingStep PROVE [History!Next]_(History!vars)
  OBVIOUS
<1>1. CASE OnCommit
  BY <1>1 DEF OnCommit, History!Next, Document
<1>2. CASE Undo \/ Redo
  BY <1>2 DEF Undo, Redo, History!Next
<1>3. CASE \E c \in Client : ResetCommitId(c)
  BY <1>3 DEF ResetCommitId, History!Next
<1>4. CASE SaveWrite
  BY <1>4 DEF SaveWrite, History!Next
<1>5. CASE LoadRead
  <2>1. disk.doc \in Document
    BY <1>5 DEF LoadRead, Inv, SaveInv, Types, Snapshot, Contents
  <2> QED
    BY <1>5, <2>1 DEF LoadRead, History!Next, Document
<1>6. CASE Close
  BY <1>6 DEF Close, History!Next, Document
<1>7. CASE DeclineReload
  BY <1>7 DEF DeclineReload, History!Next, historyVars, History!vars
<1> QED
  BY <1>1, <1>2, <1>3, <1>4, <1>5, <1>6, <1>7 DEF RecordingStep

\* There are no other steps.
LEMMA Steps ==
  ASSUME Inv, [Next]_vars
  PROVE  MarkingStep \/ RecordingStep \/ StillHistory
BY MainBarriersMark, SyncMarks, OtherMarks DEF Next, Main, RecordingStep, StillHistory, Terminated

\* So every step is a step of the history, or leaves it alone.
LEMMA HistoryStep == Inv /\ [Next]_vars => [History!Next]_(History!vars)
<1>1. StillHistory => UNCHANGED History!vars
  BY StillSteps DEF historyVars, History!vars
<1> QED
  BY <1>1, Steps, MarkingHistory, RecordingHistory

\* So the facts proved of the history hold here.
LEMMA HistoryKept == Inv /\ [Next]_vars => Proved!IInv'
BY HistoryStep, SameNext, HistoryConstants, Proved!StepInvariant DEF Inv
-----------------------------------------------------------------------------
(***************************************************************************)
(* The types                                                               *)
(***************************************************************************)
\* The types of the history's variables after a step.
LEMMA HistoryTypesKept ==
  ASSUME Inv, [Next]_vars
  PROVE  file' \in Document /\ commit_id' \in Nat /\ commit_id \in Nat /\ file \in Document
<1>1. Proved!IInv /\ Proved!IInv'
  BY HistoryKept DEF Inv
<1>2. Proved!TypeOK /\ Proved!TypeOK'
  BY <1>1 DEF Proved!IInv
<1>3. /\ file' \in Document /\ next_commit_id' \in Nat \ {0}
      /\ commit_id' \in 0 .. next_commit_id' - 1
      /\ file \in Document /\ next_commit_id \in Nat \ {0}
      /\ commit_id \in 0 .. next_commit_id - 1
  BY <1>2, SameProperties DEF Proved!TypeOK
<1> QED
  BY <1>3

\* A barrier leaves no pending request, an outdated one with the worker, and the types.
LEMMA BeginTypes ==
  ASSUME Inv, BeginRevision, ~stopping
  PROVE  /\ pending' \in Request \cup {None} /\ request' \in Request \cup {None}
         /\ completed' \in Seq(Completion) /\ autosaved' \in Nat
         /\ known' \in Snapshot \cup {None} /\ prompted' \in Snapshot \cup {None}
         /\ change_pending' \in BOOLEAN
<1>1. request \in Request \cup {None}
  BY DEF Inv, SaveInv, Types
<1>2. request' \in Request \cup {None}
  BY <1>1, OutdatedFacts DEF BeginRevision
<1> QED
  BY <1>2, MarkedTypes DEF BeginRevision, ApplyCompleted, Inv, SaveInv, Types

\* The types after a step that applies what is finished.
LEMMA MarkingTypes ==
  ASSUME Inv, MainBarriers \/ MainWaits \/ TryToClose \/ (ApplyPosted /\ main # "stopped")
              \/ OnWatchedFileChanged \/ WatchedDuringPrompt \/ AcceptReload
  PROVE  Types'
<1>1. MarkingStep
  BY MainBarriersMark, SyncMarks, OtherMarks
<1>2. /\ completed' \in Seq(Completion) /\ autosaved' \in Nat
      /\ known' \in Snapshot \cup {None} /\ prompted' \in Snapshot \cup {None}
  BY <1>1, MarkedTypes DEF MarkingStep
<1>3. Types /\ ~stopping
  BY <1>1 DEF MarkingStep, Inv, SaveInv
<1>4. ASSUME NEW next \in {"record", "undo", "redo", "save_sync", "load_sync", "close_sync"},
             Barrier(next)
      PROVE  Types'
  BY <1>3, <1>4, BeginTypes DEF Barrier, Types, MainStates, diskVars, BeginRevision
<1>5. CASE MainWaits
  BY <1>2, <1>3, <1>5 DEF MainWaits, Sync, Step, ApplyCompleted, Types, MainStates, diskVars,
     workerVars
<1>6. CASE TryToClose
  BY <1>2, <1>3, <1>6 DEF TryToClose, Step, ApplyCompleted, Types, MainStates, diskVars, workerVars
<1>7. CASE ApplyPosted /\ main # "stopped"
  BY <1>2, <1>3, <1>7 DEF ApplyPosted, ApplyCompleted, Types, MainStates, diskVars, workerVars
<1>8. CASE OnWatchedFileChanged
  <2>1. prompt_count' \in 0 .. kMaxPromptLoopCount + 1
    BY <1>8, SwitchAssumption DEF OnWatchedFileChanged
  <2>2. fs_event' \in BOOLEAN /\ change_pending' \in BOOLEAN
    BY <1>8 DEF OnWatchedFileChanged, ApplyCompleted
  <2> QED
    BY <1>2, <1>3, <1>8, <2>1, <2>2 DEF OnWatchedFileChanged, WatchUnchanged, ApplyCompleted, Types,
       MainStates, workerVars
<1>9. CASE WatchedDuringPrompt
  <2>1. fs_event' \in BOOLEAN /\ change_pending' \in BOOLEAN
    BY <1>9 DEF WatchedDuringPrompt
  <2> QED
    BY <1>2, <1>3, <1>9, <2>1 DEF WatchedDuringPrompt, WatchUnchanged, Types, workerVars
<1>10. CASE AcceptReload
  BY <1>3, <1>10, BeginTypes DEF AcceptReload, Step, Types, MainStates, diskVars, BeginRevision
<1> QED
  BY <1>4, <1>5, <1>6, <1>7, <1>8, <1>9, <1>10 DEF MainBarriers

\* The types after a step that records, saves or loads.
LEMMA RecordingTypes ==
  ASSUME Inv, [Next]_vars, RecordingStep
  PROVE  Types'
<1>1. /\ Types /\ commit_id \in Nat /\ file \in Document /\ file' \in Document
  BY HistoryTypesKept DEF Inv, SaveInv
<1>2. CASE OnCommit \/ Undo \/ Redo \/ \E c \in Client : ResetCommitId(c)
  BY <1>1, <1>2 DEF OnCommit, Undo, Redo, ResetCommitId, Step, RestUnchanged, Types, MainStates,
     watchVars, latestVars, workerVars, diskVars, ghostVars
<1>3. CASE SaveWrite
  <2>1. PICK s \in Stamp : disk' = [doc |-> file, stamp |-> s]
    BY <1>3 DEF SaveWrite
  <2>2. disk' \in Snapshot
    BY <1>1, <2>1 DEF Snapshot, Contents
  <2> QED
    BY <1>1, <1>3, <2>2 DEF SaveWrite, Superseded, FileStepUnchanged, Step, Types, MainStates,
       latestVars, workerVars
<1>4. CASE LoadRead
  <2>1. disk.doc \in Document
    BY <1>1, <1>4 DEF LoadRead, Types, Snapshot, Contents
  <2> QED
    BY <1>1, <1>4, <2>1 DEF LoadRead, Superseded, FileStepUnchanged, Step, Types, MainStates,
       latestVars, workerVars
<1>5. CASE Close
  <2>1. has_file' \in BOOLEAN /\ change_pending' \in BOOLEAN
    BY <1>5 DEF Close
  <2> QED
    BY <1>1, <1>5, <2>1 DEF Close, Superseded, FileStepUnchanged, Step, Types, MainStates,
       latestVars, workerVars
<1>6. CASE DeclineReload
  BY <1>1, <1>6 DEF DeclineReload, Step, Types, MainStates, latestVars, workerVars, diskVars
<1> QED
  BY <1>2, <1>3, <1>4, <1>5, <1>6 DEF RecordingStep

\* What QueueSave queues is a request.
LEMMA NewRequestType ==
  ASSUME Inv
  PROVE  /\ NewRequest \in Request /\ NewRequest.current /\ NewRequest.doc = file
         /\ NewRequest.revision = commit_id /\ NewRequest.expected = ExpectedTarget
<1>1. file \in Document /\ commit_id \in Nat
  BY HistoryTypes DEF Inv
<1>2. ExpectedTarget \in Snapshot \cup {None}
  BY DEF ExpectedTarget, Inv, SaveInv, Types
<1> QED
  BY <1>1, <1>2 DEF NewRequest, Request

\* The types after the other steps of the main thread.
LEMMA StillTypes ==
  ASSUME Inv, StillHistory, ~Worker
  PROVE  Types'
<1>1. Types /\ commit_id \in Nat
  BY HistoryTypes DEF Inv, SaveInv
<1>2. CASE QueueSave
  <2>1. queue' \in Seq({DrainTask, "backup"}) /\ drain_scheduled' \in BOOLEAN
    BY <1>1, <1>2, AppendProperties DEF QueueSave, ScheduleDrain, Types
  <2>2. pending' \in Request \cup {None}
    BY <1>2, NewRequestType DEF QueueSave
  <2> QED
    BY <1>1, <1>2, <2>1, <2>2 DEF QueueSave, Step, Types, MainStates, watchVars, workerVars,
       diskVars
<1>3. CASE RefuseSave
  BY <1>1, <1>3 DEF RefuseSave, Step, Types, MainStates, watchVars, latestVars, workerVars, diskVars
<1>4. CASE AutoSave
  <2>1. queue' \in Seq({DrainTask, "backup"})
    BY <1>1, <1>4, AppendProperties DEF AutoSave, Types
  <2> QED
    BY <1>1, <1>4, <2>1 DEF AutoSave, Types, watchVars, latestVars, workerVars, diskVars
<1>5. CASE SaveConfirm \/ SaveFails \/ LoadFails \/ UpdateFileWatch
  <2>1. change_pending' \in BOOLEAN
    BY <1>1, <1>5 DEF SaveConfirm, SaveFails, LoadFails, UpdateFileWatch, Types
  <2> QED
    BY <1>1, <1>5, <2>1 DEF SaveConfirm, SaveFails, LoadFails, UpdateFileWatch,
       FileStepUnchanged, Step, Types, MainStates, latestVars, workerVars
<1>6. CASE DecideClose \/ Destroyed
  <2>1. main' \in MainStates
    BY <1>6 DEF DecideClose, Destroyed, Step, MainStates
  <2>2. RestUnchanged
    BY <1>6 DEF DecideClose, Destroyed
  <2> QED
    BY <1>1, <2>1, <2>2 DEF RestUnchanged, Types, watchVars, latestVars, workerVars, diskVars,
       ghostVars
<1>7. CASE Destroy
  <2>1. request' \in Request \cup {None}
    BY <1>1, <1>7, OutdatedFacts DEF Destroy, Types
  <2>2. main' \in MainStates
    BY <1>7 DEF Destroy, Step, MainStates
  <2>3. stopping' \in BOOLEAN /\ change_pending' \in BOOLEAN
    BY Zenon, <1>7 DEF Destroy
  <2> QED
    BY <1>1, <1>7, <2>1, <2>2, <2>3 DEF Destroy, Types, diskVars, ghostVars
<1>8. CASE ApplyPosted /\ main = "stopped"
  BY <1>1, <1>8 DEF ApplyPosted, Types, workerVars, diskVars
<1>9. CASE CompareWatched
  <2>1. prompt_count' \in 0 .. kMaxPromptLoopCount + 1
    BY <1>1, <1>9, SwitchAssumption DEF CompareWatched, Types, Inv, SaveInv, PromptsAreCounted
  <2>2. change_pending' \in BOOLEAN
    BY <1>9 DEF CompareWatched
  <2> QED
    BY <1>1, <1>9, <2>1, <2>2 DEF CompareWatched, Types, MainStates, latestVars, workerVars,
       diskVars
<1>10. CASE ToggleDetection
  <2>1. detect' \in BOOLEAN /\ change_pending' \in BOOLEAN
    <3>1. detect' = ~detect /\ detect \in BOOLEAN /\ change_pending \in BOOLEAN
      BY <1>1, <1>10 DEF ToggleDetection, Types
    <3>2. CASE detect
      BY <1>10, <3>1, <3>2 DEF ToggleDetection
    <3>3. CASE ~detect
      BY <1>10, <3>1, <3>3 DEF ToggleDetection
    <3> QED
      BY <3>2, <3>3
  <2>2. known' \in Snapshot \cup {None} /\ prompted' \in Snapshot \cup {None}
    BY <1>1, <1>10 DEF ToggleDetection, Types
  <2>3. /\ main' = main /\ foreign' = "none"
        /\ UNCHANGED <<has_file, autosaved, shown, prompt_count, latestVars, queue, workerVars,
                       diskVars, ours, published>>
    BY <1>10 DEF ToggleDetection
  <2> QED
    BY <1>1, <2>1, <2>2, <2>3 DEF Types, latestVars, workerVars, diskVars
<1>11. CASE ExternalEdit
  <2>1. edits' \in 0 .. MaxEdits
    BY <1>1, <1>11, StampAssumption DEF ExternalEdit, Types
  <2> QED
    BY <1>1, <1>11, <2>1 DEF ExternalEdit, Types, watchVars, latestVars, workerVars
<1>12. CASE UNCHANGED vars
  BY <1>1, <1>12 DEF vars, Types, watchVars, latestVars, workerVars, diskVars, ghostVars
<1> QED
  BY <1>2, <1>3, <1>4, <1>5, <1>6, <1>7, <1>8, <1>9, <1>10, <1>11, <1>12 DEF StillHistory

\* The types after a step of the worker.
LEMMA WorkerTypes ==
  ASSUME Inv, Worker
  PROVE  Types'
<1>1. Types
  BY DEF Inv, SaveInv
<1>2. CASE StartTask
  <2>1. queue' \in Seq({DrainTask, "backup"})
    BY <1>1, <1>2, HeadTailProperties DEF StartTask, Types
  <2> QED
    BY <1>1, <1>2, <2>1 DEF StartTask, WorkerUnchanged, Types, watchVars, latestVars
<1>3. CASE TakePending
  BY <1>1, <1>3 DEF TakePending, WorkerUnchanged, Types, watchVars
<1>4. CASE Prepare
  <2>1. request' \in Request \cup {None}
    <3>1. request \in Request
      BY <1>4 DEF Prepare, Inv, SaveInv, Types, Protocol, WorkerHolds
    <3>2. ASSUME NEW s \in Stamp
          PROVE  [request EXCEPT !.staged = [doc |-> request.doc, stamp |-> s]] \in Request
      BY <3>1, RequestFields DEF Request, Contents
    <3> QED
      BY <1>4, <3>2 DEF Prepare
  <2> QED
    BY <1>1, <1>4, <2>1 DEF Prepare, WorkerUnchanged, Types, watchVars, latestVars
<1>5. CASE Publish
  <2>1. /\ request \in Request /\ request.staged \in Contents
        /\ request.doc \in Document /\ request.revision \in Nat
    BY <1>5, RequestFields DEF Publish, Inv, SaveInv, Types, Protocol, WorkerHolds
  <2>2. [revision |-> request.revision, doc |-> request.doc, snapshot |-> request.staged]
          \in Completion
    BY <2>1 DEF Completion
  <2>3. completed' \in Seq(Completion)
    BY <1>1, <1>5, <2>2, AppendProperties DEF Publish, Types
  <2> QED
    BY <1>1, <1>5, <2>1, <2>3 DEF Publish, WorkerUnchanged, Types, Snapshot, watchVars
<1>6. CASE Withdraw \/ NotifyMain
  BY <1>1, <1>6 DEF Withdraw, NotifyMain, WorkerUnchanged, Types, watchVars, latestVars
<1> QED
  BY <1>2, <1>3, <1>4, <1>5, <1>6 DEF Worker

\* Every step keeps the types.
LEMMA TypesKept == Inv /\ [Next]_vars => Types'
BY MarkingTypes, RecordingTypes, StillTypes, WorkerTypes
   DEF Next, Main, RecordingStep, StillHistory, Terminated
-----------------------------------------------------------------------------
(***************************************************************************)
(* The protocol of the automatic saves                                     *)
(***************************************************************************)
\* Nothing is completed in the empty sequence.
LEMMA RangeEmpty == Range(<<>>) = {}
BY DEF Range

\* A step of the main thread that leaves the saves alone, or applies what is finished, and
\* enters no handler.
MovesOn ==
    /\ UNCHANGED <<pending, request, queue, worker, stopping, drain_scheduled, has_file,
                   commit_id, file>>
    /\ completed' \in {completed, <<>>}
    /\ main' \in HandlerMain => main \in HandlerMain
    /\ main' = "submit" => main = "submit"
    /\ main' \in DrainedMain => main \in DrainedMain \/ (Drained /\ completed' = <<>>)
    /\ main' \in {"stopping", "stopped"} <=> main \in {"stopping", "stopped"}

\* Such a step keeps the protocol.
LEMMA MovesOnProtocol == Inv /\ MovesOn => Protocol'
<1> SUFFICES ASSUME Inv, MovesOn PROVE Protocol'
  OBVIOUS
<1>1. Protocol
  BY DEF Inv, SaveInv
<1>2. RequestsAreCurrent'
  <2>1. CASE completed' = completed
    BY <1>1, <2>1 DEF MovesOn, Protocol, RequestsAreCurrent
  <2>2. CASE completed' = <<>>
    BY <1>1, <2>2, RangeEmpty DEF MovesOn, Protocol, RequestsAreCurrent
  <2> QED
    BY <2>1, <2>2 DEF MovesOn
<1>3. OneSave' /\ WorkerHolds' /\ StoppingIsEnd'
  BY <1>1 DEF MovesOn, Protocol, OneSave, WorkerHolds, StoppingIsEnd, Live
<1>4. HandlerIsQuiet' /\ HandlerIsDrained'
  BY <1>1 DEF MovesOn, Protocol, HandlerIsQuiet, HandlerIsDrained, Live, Drained
<1>5. DrainIsScheduled'
  BY <1>1 DEF MovesOn, Protocol, DrainIsScheduled, Drains
<1> QED
  BY <1>2, <1>3, <1>4, <1>5 DEF Protocol

\* A barrier: afterwards nothing may be published until the handler is done.
LEMMA BarrierProtocol ==
  ASSUME Inv, BeginRevision, UNCHANGED <<queue, has_file>>,
         main \in {"idle", "save", "prompt"},
         main' \in {"record", "undo", "redo", "save_sync", "load_sync", "close_sync"}
  PROVE  Protocol'
<1>1. Protocol /\ request \in Request \cup {None}
  BY DEF Inv, SaveInv, Types
<1>2. ~stopping /\ completed' = <<>>
  BY <1>1, Marked DEF Protocol, StoppingIsEnd, BeginRevision, ApplyCompleted
<1>3. /\ pending' = None /\ ~Live(request') /\ (request' = None <=> request = None)
      /\ request # None => request'.doc = request.doc /\ request'.staged = request.staged
      /\ UNCHANGED <<queue, worker, stopping, drain_scheduled, has_file>>
  BY <1>1, OutdatedFacts DEF BeginRevision
<1>4. RequestsAreCurrent'
  BY <1>2, <1>3, RangeEmpty DEF RequestsAreCurrent, Live
<1>5. OneSave' /\ WorkerHolds' /\ StoppingIsEnd'
  BY <1>1, <1>2, <1>3 DEF Protocol, OneSave, WorkerHolds, StoppingIsEnd, Live
<1>6. HandlerIsQuiet' /\ HandlerIsDrained'
  BY <1>1, <1>2, <1>3 DEF HandlerIsQuiet, HandlerIsDrained, DrainedMain, Live
<1>7. DrainIsScheduled'
  BY <1>1, <1>3 DEF Protocol, DrainIsScheduled, Drains
<1> QED
  BY <1>4, <1>5, <1>6, <1>7 DEF Protocol

\* A handler changes the document when nothing may be published.
LEMMA HandlerProtocol ==
  ASSUME Inv, main \in HandlerMain, UNCHANGED <<latestVars, workerVars, queue>>,
         main' \in {"idle", "submit", "save", "snapshot"},
         main' = "submit" => has_file', main' = "snapshot" => main \in DrainedMain
  PROVE  Protocol'
<1>1. Protocol
  BY DEF Inv, SaveInv
<1>2. /\ pending = None /\ ~Live(request) /\ completed = <<>> /\ ~stopping
      /\ UNCHANGED <<pending, request, completed, queue, worker, stopping, drain_scheduled>>
  BY <1>1 DEF Protocol, HandlerIsQuiet, OneSave, StoppingIsEnd, HandlerMain, latestVars, workerVars
<1>3. RequestsAreCurrent'
  BY <1>2, RangeEmpty DEF RequestsAreCurrent, Live
<1>4. OneSave' /\ WorkerHolds' /\ StoppingIsEnd'
  BY <1>1, <1>2 DEF Protocol, OneSave, WorkerHolds, StoppingIsEnd, Live
<1>5. HandlerIsQuiet' /\ HandlerIsDrained'
  BY <1>1, <1>2 DEF Protocol, HandlerIsQuiet, HandlerIsDrained, DrainedMain, Live
<1>6. DrainIsScheduled'
  BY <1>1, <1>2 DEF Protocol, DrainIsScheduled, Drains
<1> QED
  BY <1>3, <1>4, <1>5, <1>6 DEF Protocol
-----------------------------------------------------------------------------
(***************************************************************************)
(* The drains in the queue                                                 *)
(***************************************************************************)
\* A task appended is a drain, or adds none.
LEMMA DrainsAppend ==
  ASSUME NEW S, queue \in Seq(S), NEW t \in S, queue' = Append(queue, t)
  PROVE  Drains' = Drains \cup (IF t = DrainTask THEN {Len(queue) + 1} ELSE {})
<1>1. Len(queue) \in Nat
  BY LenProperties
<1>2. /\ Len(queue') = Len(queue) + 1
      /\ \A i \in 1 .. Len(queue) : queue'[i] = queue[i]
      /\ queue'[Len(queue) + 1] = t
  BY AppendProperties
<1>3. ASSUME NEW i
      PROVE  i \in Drains' <=> i \in Drains \/ (t = DrainTask /\ i = Len(queue) + 1)
  BY <1>1, <1>2 DEF Drains
<1> QED
  BY <1>3

\* A task taken from the front moves the others up.
LEMMA DrainsTail ==
  ASSUME NEW S, queue \in Seq(S), queue # <<>>, queue' = Tail(queue)
  PROVE  /\ 1 \in Drains <=> Head(queue) = DrainTask
         /\ \A i : i \in Drains' <=> i + 1 \in Drains /\ i \in Nat \ {0}
         /\ Drains \subseteq Nat \ {0} /\ Drains' \subseteq Nat \ {0}
<1>1. Len(queue) \in Nat \ {0} /\ Head(queue) = queue[1]
  BY EmptySeq
<1>2. /\ Len(queue') = Len(queue) - 1
      /\ \A i \in 1 .. Len(queue') : queue'[i] = queue[i + 1]
  BY HeadTailProperties
<1>3. 1 \in Drains <=> Head(queue) = DrainTask
  BY <1>1 DEF Drains
<1>4. Drains \subseteq Nat \ {0} /\ Drains' \subseteq Nat \ {0}
  BY DEF Drains
<1>5. ASSUME NEW i
      PROVE  i \in Drains' <=> i + 1 \in Drains /\ i \in Nat \ {0}
  BY <1>1, <1>2 DEF Drains
<1> QED
  BY <1>3, <1>4, <1>5
-----------------------------------------------------------------------------
(***************************************************************************)
(* The steps that queue, take and publish                                  *)
(***************************************************************************)
\* A queued request is live, and has its drain.
LEMMA QueueSaveProtocol == Inv /\ QueueSave => Protocol'
<1> SUFFICES ASSUME Inv, QueueSave PROVE Protocol'
  OBVIOUS
<1>1. Protocol /\ Types
  BY DEF Inv, SaveInv
<1>2. /\ completed = <<>> /\ ~Live(request) /\ has_file /\ pending = None
      /\ main = "submit" /\ main' = "idle" /\ ~stopping
      /\ UNCHANGED <<completed, request, worker, stopping, has_file, file, commit_id>>
  BY <1>1 DEF QueueSave, Step, Protocol, HandlerIsQuiet, HandlerMain, OneSave, historyVars,
         workerVars
<1>3. /\ pending' \in Request /\ pending'.current
      /\ pending'.revision = commit_id /\ pending'.doc = file
  BY NewRequestType DEF QueueSave
<1>4. pending' # None /\ Live(pending')
  BY <1>3, NoneAssumption DEF Live
<1>5. RequestsAreCurrent'
  BY <1>2, <1>3, RangeEmpty DEF RequestsAreCurrent, Live
<1>6. OneSave' /\ WorkerHolds' /\ StoppingIsEnd'
  BY <1>1, <1>2, <1>4 DEF Protocol, OneSave, WorkerHolds, StoppingIsEnd, Live
<1>7. HandlerIsQuiet' /\ HandlerIsDrained'
  BY <1>2 DEF HandlerIsQuiet, HandlerIsDrained, HandlerMain, DrainedMain
<1>8. DrainIsScheduled'
  <2>1. drain_scheduled' = TRUE
    BY DEF QueueSave, ScheduleDrain
  <2>2. CASE drain_scheduled
    <3>1. queue' = queue
      BY <2>2 DEF QueueSave, ScheduleDrain
    <3> QED
      BY <1>1, <1>2, <2>1, <2>2, <3>1 DEF Protocol, DrainIsScheduled, Drains
  <2>3. CASE ~drain_scheduled
    <3>1. queue' = Append(queue, DrainTask)
      BY <2>3 DEF QueueSave, ScheduleDrain
    <3>2. Drains = {} /\ worker = "idle"
      BY <1>1, <2>3 DEF Protocol, DrainIsScheduled
    <3>3. Drains' = {Len(queue) + 1}
      BY <1>1, <3>1, <3>2, DrainsAppend DEF Types
    <3> QED
      BY <1>2, <2>1, <3>2, <3>3 DEF DrainIsScheduled
  <2> QED
    BY <2>2, <2>3
<1> QED
  BY <1>5, <1>6, <1>7, <1>8 DEF Protocol

\* A backup is not a drain.
LEMMA AutoSaveProtocol == Inv /\ AutoSave => Protocol'
<1> SUFFICES ASSUME Inv, AutoSave PROVE Protocol'
  OBVIOUS
<1>1. Protocol /\ Types
  BY DEF Inv, SaveInv
<1>2. /\ main \in {"idle", "prompt"} /\ queue' = Append(queue, "backup")
      /\ UNCHANGED <<main, pending, request, completed, worker, stopping, drain_scheduled,
                     has_file, file, commit_id>>
  BY DEF AutoSave, historyVars, latestVars, workerVars
<1>3. Drains' = Drains
  <2>1. Drains' = Drains \cup (IF "backup" = DrainTask THEN {Len(queue) + 1} ELSE {})
    BY <1>1, <1>2, DrainsAppend DEF Types
  <2>2. "backup" # DrainTask
    BY DEF DrainTask
  <2> QED
    BY <2>1, <2>2
<1>4. RequestsAreCurrent' /\ OneSave' /\ WorkerHolds' /\ StoppingIsEnd'
  BY <1>1, <1>2 DEF Protocol, RequestsAreCurrent, OneSave, WorkerHolds, StoppingIsEnd, Live
<1>5. HandlerIsQuiet' /\ HandlerIsDrained'
  BY <1>2 DEF HandlerIsQuiet, HandlerIsDrained, HandlerMain, DrainedMain
<1>6. DrainIsScheduled'
  BY <1>1, <1>2, <1>3 DEF Protocol, DrainIsScheduled
<1> QED
  BY <1>4, <1>5, <1>6 DEF Protocol

\* Destruction leaves nothing that may still be published.
LEMMA DestroyProtocol == Inv /\ Destroy => Protocol'
<1> SUFFICES ASSUME Inv, Destroy PROVE Protocol'
  OBVIOUS
<1>1. Protocol /\ request \in Request \cup {None}
  BY DEF Inv, SaveInv, Types
<1>2. /\ pending' = None /\ ~Live(request') /\ (request' = None <=> request = None)
      /\ request # None => request'.doc = request.doc /\ request'.staged = request.staged
      /\ main' = "stopping" /\ stopping' = TRUE
      /\ UNCHANGED <<completed, queue, worker, drain_scheduled, has_file, file, commit_id>>
  BY <1>1, OutdatedFacts DEF Destroy, Step, historyVars
<1>3. RequestsAreCurrent'
  BY <1>1, <1>2 DEF Protocol, RequestsAreCurrent, Live
<1>4. OneSave' /\ WorkerHolds' /\ StoppingIsEnd'
  BY <1>1, <1>2 DEF Protocol, OneSave, WorkerHolds, StoppingIsEnd, Live
<1>5. HandlerIsQuiet' /\ HandlerIsDrained'
  BY <1>2 DEF HandlerIsQuiet, HandlerIsDrained, HandlerMain, DrainedMain
<1>6. DrainIsScheduled'
  BY <1>1, <1>2 DEF Protocol, DrainIsScheduled, Drains
<1> QED
  BY <1>3, <1>4, <1>5, <1>6 DEF Protocol

\* The worker takes a task, the drain if it is one.
LEMMA StartTaskProtocol == Inv /\ StartTask => Protocol'
<1> SUFFICES ASSUME Inv, StartTask PROVE Protocol'
  OBVIOUS
<1>1. Protocol /\ Types
  BY DEF Inv, SaveInv
<1>2. /\ worker = "idle" /\ queue # <<>> /\ queue' = Tail(queue)
      /\ worker' = IF Head(queue) = DrainTask THEN "take" ELSE "idle"
      /\ UNCHANGED <<main, pending, request, completed, stopping, drain_scheduled, has_file,
                     file, commit_id>>
  BY DEF StartTask, WorkerUnchanged, historyVars, latestVars
<1>3. RequestsAreCurrent' /\ OneSave' /\ WorkerHolds' /\ StoppingIsEnd'
  BY <1>1, <1>2 DEF Protocol, RequestsAreCurrent, OneSave, WorkerHolds, StoppingIsEnd, Live
<1>4. HandlerIsQuiet' /\ HandlerIsDrained'
  BY <1>1, <1>2 DEF Protocol, HandlerIsQuiet, HandlerIsDrained, Live
<1>5. /\ 1 \in Drains <=> Head(queue) = DrainTask
      /\ \A i : i \in Drains' <=> i + 1 \in Drains /\ i \in Nat \ {0}
      /\ Drains \subseteq Nat \ {0} /\ Drains' \subseteq Nat \ {0}
  BY <1>1, <1>2, DrainsTail DEF Types
<1>6. DrainIsScheduled'
  <2>1. \A i, j \in Drains : i = j
    BY <1>1 DEF Protocol, DrainIsScheduled
  <2>2. \A i, j \in Drains' : i = j
    BY <1>5, <2>1
  <2>3. CASE Head(queue) = DrainTask
    <3>1. Drains' = {}
      BY <1>5, <2>1, <2>3
    <3> QED
      BY <1>1, <1>2, <1>5, <2>2, <2>3, <3>1 DEF Protocol, DrainIsScheduled
  <2>4. CASE Head(queue) # DrainTask
    <3>1. ASSUME NEW i \in Drains
          PROVE  i - 1 \in Drains'
      BY <1>5, <2>4, <3>1
    <3>2. Drains' # {} <=> Drains # {}
      BY <1>5, <3>1
    <3> QED
      BY <1>1, <1>2, <2>2, <2>4, <3>2 DEF Protocol, DrainIsScheduled
  <2> QED
    BY <2>3, <2>4
<1> QED
  BY <1>3, <1>4, <1>6 DEF Protocol

\* The drain takes the pending request, or ends.
LEMMA TakePendingProtocol == Inv /\ TakePending => Protocol'
<1> SUFFICES ASSUME Inv, TakePending PROVE Protocol'
  OBVIOUS
<1>1. Protocol
  BY DEF Inv, SaveInv
<1>2. /\ worker = "take" /\ request' = pending /\ pending' = None
      /\ worker' = IF pending = None THEN "idle" ELSE "prepare"
      /\ drain_scheduled' = (pending # None)
      /\ UNCHANGED <<main, completed, queue, stopping, has_file, file, commit_id>>
  BY DEF TakePending, WorkerUnchanged, historyVars
<1>3. RequestsAreCurrent' /\ OneSave' /\ StoppingIsEnd'
  BY <1>1, <1>2 DEF Protocol, RequestsAreCurrent, OneSave, StoppingIsEnd, Live
<1>4. WorkerHolds'
  BY <1>2 DEF WorkerHolds
<1>5. HandlerIsQuiet' /\ HandlerIsDrained'
  BY <1>1, <1>2 DEF Protocol, HandlerIsQuiet, HandlerIsDrained, Live
<1>6. DrainIsScheduled'
  BY <1>1, <1>2 DEF Protocol, DrainIsScheduled, Drains
<1> QED
  BY <1>3, <1>4, <1>5, <1>6 DEF Protocol

\* Preparing stages the request's document, or drops the request.
LEMMA PrepareProtocol == Inv /\ Prepare => Protocol'
<1> SUFFICES ASSUME Inv, Prepare PROVE Protocol'
  OBVIOUS
<1>1. Protocol /\ request \in Request /\ request # None
  BY NoneAssumption DEF Inv, SaveInv, Types, Protocol, WorkerHolds, Prepare
<1>2. /\ worker = "prepare" /\ worker' \in {"take", "publish"}
      /\ UNCHANGED <<main, pending, completed, queue, stopping, drain_scheduled, has_file,
                     file, commit_id>>
  BY DEF Prepare, WorkerUnchanged, historyVars, latestVars
<1>3. \/ worker' = "take" /\ request' = None
      \/ /\ worker' = "publish" /\ request' # None /\ request'.staged # None
         /\ request'.staged.doc = request'.doc
         /\ request'.current = request.current /\ request'.revision = request.revision
         /\ request'.doc = request.doc
  <2>1. ASSUME NEW s \in Stamp,
               request' = [request EXCEPT !.staged = [doc |-> request.doc, stamp |-> s]]
        PROVE  /\ request' # None /\ request'.staged # None
               /\ request'.staged.doc = request'.doc
               /\ request'.current = request.current /\ request'.revision = request.revision
               /\ request'.doc = request.doc
    <3>1. request' \in Request /\ request'.staged = [doc |-> request.doc, stamp |-> s]
      BY <1>1, <2>1, RequestFields DEF Request, Contents
    <3>2. request'.staged \in Snapshot
      BY <1>1, <3>1, RequestFields DEF Snapshot, Contents
    <3>3. /\ request'.current = request.current /\ request'.revision = request.revision
          /\ request'.doc = request.doc
      BY <1>1, <2>1, RequestFields
    <3> QED
      BY <3>1, <3>2, <3>3, NoneAssumption
  <2> QED
    BY <2>1 DEF Prepare
<1>4. RequestsAreCurrent' /\ OneSave' /\ WorkerHolds' /\ StoppingIsEnd'
  BY <1>1, <1>2, <1>3 DEF Protocol, RequestsAreCurrent, OneSave, WorkerHolds, StoppingIsEnd, Live
<1>5. HandlerIsQuiet' /\ HandlerIsDrained'
  BY <1>1, <1>2, <1>3 DEF Protocol, HandlerIsQuiet, HandlerIsDrained, Live
<1>6. DrainIsScheduled'
  BY <1>1, <1>2 DEF Protocol, DrainIsScheduled, Drains
<1> QED
  BY <1>4, <1>5, <1>6 DEF Protocol

\* Publishing finds the live document, and makes the one completion.
LEMMA PublishProtocol == Inv /\ Publish => Protocol'
<1> SUFFICES ASSUME Inv, Publish PROVE Protocol'
  OBVIOUS
<1>1. Protocol
  BY DEF Inv, SaveInv
<1>2. request # None /\ Live(request) /\ ~stopping
  BY <1>1 DEF Publish, CanPublish, Protocol, WorkerHolds, Live
<1>3. /\ completed = <<>> /\ has_file /\ pending = None /\ main \notin HandlerMain
      /\ request.revision = commit_id /\ request.doc = file
  BY <1>1, <1>2 DEF Protocol, OneSave, RequestsAreCurrent, HandlerIsQuiet, Live
<1>4. main \notin DrainedMain
  BY <1>1 DEF Publish, Protocol, HandlerIsDrained
<1> DEFINE done == [revision |-> request.revision, doc |-> request.doc,
                    snapshot |-> request.staged]
<1>5. /\ worker = "publish" /\ worker' = "notify" /\ request' = None
      /\ completed' = Append(completed, done)
      /\ UNCHANGED <<main, pending, queue, stopping, drain_scheduled, has_file, file, commit_id>>
  BY DEF Publish, WorkerUnchanged, historyVars
<1>6. completed' = <<done>> /\ Range(completed') = {done} /\ Len(completed') = 1
  <2> HIDE DEF done
  <2>1. completed' = <<done>>
    BY <1>3, <1>5
  <2> QED
    BY <2>1 DEF Range
<1>7. RequestsAreCurrent'
  BY <1>3, <1>5, <1>6 DEF RequestsAreCurrent
<1>8. OneSave' /\ WorkerHolds' /\ StoppingIsEnd'
  BY <1>1, <1>3, <1>5 DEF Protocol, OneSave, WorkerHolds, StoppingIsEnd, Live
<1>9. HandlerIsQuiet' /\ HandlerIsDrained'
  BY <1>3, <1>4, <1>5 DEF HandlerIsQuiet, HandlerIsDrained, HandlerMain
<1>10. DrainIsScheduled'
  BY <1>1, <1>5 DEF Protocol, DrainIsScheduled, Drains
<1> QED
  BY <1>7, <1>8, <1>9, <1>10 DEF Protocol

\* A request is withdrawn, or its publication reported.
LEMMA AfterPublishProtocol == Inv /\ (Withdraw \/ NotifyMain) => Protocol'
<1> SUFFICES ASSUME Inv, Withdraw \/ NotifyMain PROVE Protocol'
  OBVIOUS
<1>1. Protocol
  BY DEF Inv, SaveInv
<1>2. /\ worker \in {"publish", "notify"} /\ worker' = "take" /\ request' = None
      /\ UNCHANGED <<main, pending, completed, queue, stopping, drain_scheduled, has_file,
                     file, commit_id>>
  BY <1>1 DEF Withdraw, NotifyMain, WorkerUnchanged, historyVars, latestVars, Protocol, WorkerHolds
<1>3. RequestsAreCurrent' /\ OneSave' /\ WorkerHolds' /\ StoppingIsEnd'
  BY <1>1, <1>2 DEF Protocol, RequestsAreCurrent, OneSave, WorkerHolds, StoppingIsEnd, Live
<1>4. HandlerIsQuiet' /\ HandlerIsDrained'
  BY <1>1, <1>2 DEF Protocol, HandlerIsQuiet, HandlerIsDrained, Live
<1>5. DrainIsScheduled'
  BY <1>1, <1>2 DEF Protocol, DrainIsScheduled, Drains
<1> QED
  BY <1>3, <1>4, <1>5 DEF Protocol
-----------------------------------------------------------------------------
(***************************************************************************)
(* Every step keeps the invariant                                          *)
(***************************************************************************)
\* Steps of the main thread that record, or move on.
LEMMA MainProtocol ==
  ASSUME Inv, Main, ~(QueueSave \/ AutoSave \/ Destroy)
  PROVE  Protocol'
<1>1. Protocol /\ Types
  BY DEF Inv, SaveInv
<1>2. CASE MainBarriers
  <2>1. ASSUME NEW next \in {"record", "undo", "redo", "save_sync", "load_sync", "close_sync"},
               Barrier(next)
        PROVE  Protocol'
    BY <2>1, BarrierProtocol DEF Barrier
  <2> QED
    BY <1>2, <2>1 DEF MainBarriers
<1>3. CASE AcceptReload
  BY <1>3, BarrierProtocol DEF AcceptReload, Step
<1>4. CASE MainWaits
  <2>1. completed' = <<>> /\ UNCHANGED <<file, commit_id>>
    BY <1>4, SyncMarks, Marked DEF MarkingStep
  <2>2. MovesOn
    BY <1>4, <2>1 DEF MainWaits, Sync, Step, MovesOn, HandlerMain, DrainedMain, workerVars
  <2> QED
    BY <2>2, MovesOnProtocol
<1>5. CASE TryToClose \/ OnWatchedFileChanged \/ WatchedDuringPrompt
  <2>1. completed' = <<>> /\ UNCHANGED <<file, commit_id>>
    BY <1>5, OtherMarks, Marked DEF MarkingStep
  <2>2. MovesOn
    BY <1>5, <2>1 DEF TryToClose, OnWatchedFileChanged, WatchedDuringPrompt, WatchUnchanged, Step,
       MovesOn, HandlerMain, DrainedMain, workerVars
  <2> QED
    BY <2>2, MovesOnProtocol
<1>6. CASE ApplyPosted
  <2>1. completed' \in {completed, <<>>} /\ UNCHANGED <<file, commit_id>>
    BY <1>6, OtherMarks, Marked DEF MarkingStep, ApplyPosted, historyVars
  <2>2. MovesOn
    BY <1>6, <2>1 DEF ApplyPosted, MovesOn, workerVars
  <2> QED
    BY <2>2, MovesOnProtocol
<1>7. CASE OnCommit \/ Undo \/ Redo
  <2>1. has_file' = has_file /\ UNCHANGED <<latestVars, workerVars, queue>>
    BY <1>7 DEF OnCommit, Undo, Redo, RestUnchanged
  <2>2. /\ main \in HandlerMain /\ main' \in {"idle", "submit", "save"}
        /\ main' = "submit" => has_file
    BY <1>7 DEF OnCommit, Undo, Redo, Step, HandlerMain
  <2> QED
    BY <2>1, <2>2, HandlerProtocol
<1>8. CASE SaveWrite \/ LoadRead \/ Close
  <2>1. UNCHANGED <<latestVars, workerVars, queue>>
    BY <1>8 DEF SaveWrite, LoadRead, Close, FileStepUnchanged
  <2>2. /\ main \in HandlerMain \cap DrainedMain /\ main' \in {"idle", "snapshot"}
    BY <1>8 DEF SaveWrite, LoadRead, Close, Step, HandlerMain, DrainedMain
  <2> QED
    BY <2>1, <2>2, HandlerProtocol
<1>9. CASE \E c \in Client : ResetCommitId(c)
  <2>1. MovesOn
    BY <1>9 DEF ResetCommitId, History!ResetCommitId, History!history, RestUnchanged, latestVars,
       workerVars, MovesOn
  <2> QED
    BY <2>1, MovesOnProtocol
<1>10. CASE RefuseSave \/ SaveConfirm \/ SaveFails \/ LoadFails \/ UpdateFileWatch
  <2>1. MovesOn
    BY <1>10 DEF RefuseSave, SaveConfirm, SaveFails, LoadFails, UpdateFileWatch, Step,
       FileStepUnchanged, historyVars, latestVars, workerVars, MovesOn, HandlerMain, DrainedMain
  <2> QED
    BY <2>1, MovesOnProtocol
<1>11. CASE DecideClose \/ Destroyed
  <2>1. MovesOn
    BY <1>11 DEF DecideClose, Destroyed, Step, RestUnchanged, historyVars, latestVars, workerVars,
       MovesOn, HandlerMain, DrainedMain
  <2> QED
    BY <2>1, MovesOnProtocol
<1>12. CASE CompareWatched
  <2>1. MovesOn
    BY <1>12 DEF CompareWatched, historyVars, latestVars, workerVars, MovesOn, HandlerMain,
       DrainedMain
  <2> QED
    BY <2>1, MovesOnProtocol
<1>13. CASE DeclineReload
  <2>1. UNCHANGED <<file, commit_id>>
    BY <1>13 DEF DeclineReload, History!FileDeleted, History!history, historyVars
  <2>2. MovesOn
    BY <1>13, <2>1 DEF DeclineReload, Step, latestVars, workerVars, MovesOn, HandlerMain,
       DrainedMain
  <2> QED
    BY <2>2, MovesOnProtocol
<1>14. CASE ToggleDetection
  <2>1. MovesOn
    BY <1>14 DEF ToggleDetection, historyVars, latestVars, workerVars, MovesOn
  <2> QED
    BY <2>1, MovesOnProtocol
<1> QED
  BY <1>2, <1>3, <1>4, <1>5, <1>6, <1>7, <1>8, <1>9, <1>10, <1>11, <1>12, <1>13, <1>14 DEF Main

\* Every step keeps the protocol of the automatic saves.
LEMMA ProtocolKept == Inv /\ [Next]_vars => Protocol'
<1> SUFFICES ASSUME Inv, [Next]_vars PROVE Protocol'
  OBVIOUS
<1>1. CASE ExternalEdit
  <2>1. MovesOn
    BY <1>1 DEF ExternalEdit, historyVars, latestVars, workerVars, MovesOn
  <2> QED
    BY <2>1, MovesOnProtocol
<1>2. CASE UNCHANGED vars
  <2>1. MovesOn
    BY <1>2 DEF vars, historyVars, latestVars, workerVars, MovesOn
  <2> QED
    BY <2>1, MovesOnProtocol
<1>3. CASE Worker
  BY <1>3, StartTaskProtocol, TakePendingProtocol, PrepareProtocol, PublishProtocol,
     AfterPublishProtocol DEF Worker
<1> QED
  BY <1>1, <1>2, <1>3, MainProtocol, QueueSaveProtocol, AutoSaveProtocol, DestroyProtocol
     DEF Next, Terminated

\* A prompt is opened only below the limit.
LEMMA PromptsKept == Inv /\ [Next]_vars => PromptsAreCounted'
<1> SUFFICES ASSUME Inv, [Next]_vars PROVE PromptsAreCounted'
  OBVIOUS
<1>1. /\ PromptsAreCounted
      /\ prompt_count \in 0 .. kMaxPromptLoopCount + 1 /\ kMaxPromptLoopCount \in Nat
  BY SwitchAssumption DEF Inv, SaveInv, Types
<1>2. CASE MainBarriers \/ MainWaits
  BY <1>2 DEF MainBarriers, Barrier, MainWaits, Sync, Step, PromptsAreCounted
<1>3. CASE OnCommit \/ Undo \/ Redo \/ QueueSave \/ RefuseSave
  BY <1>3 DEF OnCommit, Undo, Redo, QueueSave, RefuseSave, Step, PromptsAreCounted
<1>4. CASE SaveConfirm \/ SaveWrite \/ SaveFails \/ LoadRead \/ LoadFails \/ UpdateFileWatch
  BY <1>4 DEF SaveConfirm, SaveWrite, SaveFails, LoadRead, LoadFails, UpdateFileWatch, Step,
     PromptsAreCounted
<1>5. CASE Close \/ TryToClose \/ DecideClose \/ Destroy \/ Destroyed
  BY <1>5 DEF Close, TryToClose, DecideClose, Destroy, Destroyed, Step, PromptsAreCounted
<1>6. CASE AutoSave \/ (\E c \in Client : ResetCommitId(c)) \/ ApplyPosted \/ WatchedDuringPrompt
           \/ ToggleDetection
  BY <1>1, <1>6 DEF AutoSave, ResetCommitId, RestUnchanged, ApplyPosted, WatchedDuringPrompt,
     WatchUnchanged, ToggleDetection, watchVars, PromptsAreCounted
<1>7. CASE OnWatchedFileChanged
  BY <1>1, <1>7 DEF OnWatchedFileChanged, PromptsAreCounted
<1>8. CASE CompareWatched
  BY <1>1, <1>8 DEF CompareWatched, PromptsAreCounted
<1>9. CASE DeclineReload
  BY <1>1, <1>9 DEF DeclineReload, Step, PromptsAreCounted
<1>10. CASE AcceptReload
  BY <1>10 DEF AcceptReload, Step, PromptsAreCounted
<1>11. CASE Worker \/ ExternalEdit \/ UNCHANGED vars
  BY <1>1, <1>11 DEF Worker, StartTask, TakePending, Prepare, Publish, Withdraw, NotifyMain,
     WorkerUnchanged, ExternalEdit, vars, watchVars, PromptsAreCounted
<1> QED
  BY <1>2, <1>3, <1>4, <1>5, <1>6, <1>7, <1>8, <1>9, <1>10, <1>11 DEF Next, Main, Terminated

\* Where the file is named, only Save, Load and Close change.
LEMMA FileNamed ==
  ASSUME Inv, [Next]_vars, ~(SaveWrite \/ LoadRead \/ Close)
  PROVE  has_file' = has_file
<1>1. MarkingStep => has_file' = has_file
  BY DEF MarkingStep
<1>2. RecordingStep => has_file' = has_file
  BY DEF RecordingStep, OnCommit, Undo, Redo, ResetCommitId, DeclineReload, RestUnchanged
<1>3. QueueSave \/ RefuseSave \/ AutoSave \/ SaveConfirm \/ SaveFails \/ LoadFails
      \/ UpdateFileWatch => has_file' = has_file
  BY DEF QueueSave, RefuseSave, AutoSave, SaveConfirm, SaveFails, LoadFails, UpdateFileWatch
<1>4. DecideClose \/ Destroy \/ Destroyed \/ ApplyPosted \/ CompareWatched \/ ToggleDetection
        => has_file' = has_file
  BY DEF DecideClose, Destroy, Destroyed, RestUnchanged, ApplyPosted, CompareWatched,
     ToggleDetection
<1>5. Worker \/ ExternalEdit \/ UNCHANGED vars => has_file' = has_file
  BY DEF Worker, StartTask, TakePending, Prepare, Publish, Withdraw, NotifyMain, WorkerUnchanged,
     ExternalEdit, vars
<1> QED
  BY <1>1, <1>2, <1>3, <1>4, <1>5, Steps DEF StillHistory

\* No step empties a version or forgets the document, and a document with a file is recorded.
LEMMA RecordedKept == Inv /\ [Next]_vars => Proved!AllFilled' /\ FileIsRecorded'
<1> SUFFICES ASSUME Inv, [Next]_vars PROVE Proved!AllFilled' /\ FileIsRecorded'
  OBVIOUS
<1>1. Proved!AllFilled' /\ (undo_stack # <<>> => undo_stack' # <<>>)
  BY HistoryStep, SameNext, HistoryConstants, Proved!FilledStep DEF Inv
<1>2. CASE SaveWrite
  BY <1>1, <1>2 DEF SaveWrite, History!Save, FileIsRecorded
<1>3. CASE LoadRead
  BY <1>1, <1>3 DEF LoadRead, History!Load, FileIsRecorded
<1>4. CASE Close
  BY <1>1, <1>4 DEF Close, FileIsRecorded
<1>5. CASE ~(SaveWrite \/ LoadRead \/ Close)
  BY <1>1, <1>5, FileNamed DEF Inv, SaveInv, FileIsRecorded
<1> QED
  BY <1>1, <1>2, <1>3, <1>4, <1>5

\* The invariant holds at the start.
LEMMA InitInv == Init => Inv
<1> SUFFICES ASSUME Init PROVE Inv
  OBVIOUS
<1>1. Proved!IInv
  BY SameInit, HistoryConstants, Proved!InitInvariant DEF Init
<1>2. undo_stack = <<>> /\ redo_stack = <<>> /\ Len(<<>>) = 0 /\ commit_id = 0
  BY DEF Init, History!Init
<1>3. Proved!AllFilled
  BY <1>2 DEF Proved!AllFilled, Proved!FilledStack
<1>4. Types
  <2>1. completed \in Seq(Completion) /\ queue \in Seq({DrainTask, "backup"})
    BY EmptySeq DEF Init
  <2>2. /\ has_file \in BOOLEAN /\ detect \in BOOLEAN /\ change_pending \in BOOLEAN
        /\ stopping \in BOOLEAN /\ drain_scheduled \in BOOLEAN /\ fs_event \in BOOLEAN
    BY DEF Init
  <2>3. prompt_count \in 0 .. kMaxPromptLoopCount + 1 /\ edits \in 0 .. MaxEdits
    BY SwitchAssumption, StampAssumption DEF Init
  <2>4. disk \in Snapshot /\ ours \in Document
    BY DEF Init, Snapshot, Contents
  <2> QED
    BY <2>1, <2>2, <2>3, <2>4 DEF Init, Types, MainStates
<1>5. Range(completed) = {} /\ Len(completed) = 0 /\ Drains = {}
  BY RangeEmpty DEF Init, Drains
<1>6. Protocol
  BY <1>5 DEF Init, Protocol, RequestsAreCurrent, OneSave, HandlerIsQuiet, HandlerIsDrained,
     WorkerHolds, StoppingIsEnd, DrainIsScheduled, HandlerMain, DrainedMain, Live
<1>7. PromptsAreCounted /\ FileIsRecorded
  BY DEF Init, PromptsAreCounted, FileIsRecorded
<1> QED
  BY <1>1, <1>3, <1>4, <1>6, <1>7 DEF Inv, SaveInv

\* Every step keeps the invariant.
LEMMA NextInv == Inv /\ [Next]_vars => Inv'
BY TypesKept, ProtocolKept, PromptsKept, RecordedKept, HistoryKept DEF Inv, SaveInv

\* Every variable has its type.
THEOREM TypeCorrect == Spec => []TypeOK
<1>1. Inv => TypeOK
  BY SameProperties DEF Inv, SaveInv, Types, TypeOK, Proved!IInv
<1> QED
  BY <1>1, InitInv, NextInv, PTL DEF Spec

\* What the worker may still publish, and what is published and not yet applied, is the live
\* document at the live revision: a handler outdates the request under the lock, and waits for
\* the worker, before it changes the document.
THEOREM RequestsCurrent == Spec => []RequestsAreCurrent
<1>1. Inv => RequestsAreCurrent
  BY DEF Inv, SaveInv, Protocol
<1> QED
  BY <1>1, InitInv, NextInv, PTL DEF Spec

\* A pending request has one drain, in the queue or running, that will take it.
THEOREM DrainScheduled == Spec => []DrainIsScheduled
<1>1. Inv => DrainIsScheduled
  BY DEF Inv, SaveInv, Protocol
<1> QED
  BY <1>1, InitInv, NextInv, PTL DEF Spec

\* The undo history sees only what SubtitleHistory allows, whatever the two threads and other
\* programs do: a finished automatic save that is applied is its Save.
THEOREM HistoryImplemented == Spec => ImplementsHistory
<1>1. Init => History!Init
  BY DEF Init
<1> QED
  BY <1>1, HistoryStep, InitInv, NextInv, PTL DEF Spec, ImplementsHistory, History!Spec
-----------------------------------------------------------------------------
(***************************************************************************)
(* What is on disk, what is marked and what the user was asked about       *)
(***************************************************************************)
\* A step that neither saves nor loads: requests are only dropped or outdated.
QuietStep ==
    /\ UNCHANGED <<published, saved_commit_id, saved, completed, ours, has_file, disk>>
    /\ pending' \in {pending, None} /\ request' \in {request, Outdated(request), None}

\* The other steps, one by one, are those that save, load, queue, write or edit.
LEMMA DataSteps ==
  ASSUME Inv, [Next]_vars
  PROVE  \/ MarkingStep \/ QuietStep \/ SaveWrite \/ LoadRead \/ Close \/ DeclineReload
         \/ QueueSave \/ TakePending \/ Prepare \/ Publish \/ ExternalEdit
<1>1. CASE OnCommit
  BY <1>1 DEF OnCommit, History!EditLines, History!EditDocument, History!Commit, RestUnchanged,
     latestVars, workerVars, diskVars, ghostVars, QuietStep
<1>2. CASE Undo \/ Redo \/ \E c \in Client : ResetCommitId(c)
  BY <1>2 DEF Undo, Redo, ResetCommitId, History!Undo, History!Redo, History!ResetCommitId,
     RestUnchanged, latestVars, workerVars, diskVars, ghostVars, QuietStep
<1>3. CASE RefuseSave \/ AutoSave \/ SaveConfirm \/ SaveFails \/ LoadFails \/ UpdateFileWatch
  BY <1>3 DEF RefuseSave, AutoSave, SaveConfirm, SaveFails, LoadFails, UpdateFileWatch,
     FileStepUnchanged, historyVars, latestVars, workerVars, diskVars, QuietStep
<1>4. CASE DecideClose \/ Destroy \/ Destroyed \/ (ApplyPosted /\ main = "stopped")
  BY <1>4 DEF DecideClose, Destroy, Destroyed, ApplyPosted, RestUnchanged, historyVars, latestVars,
     workerVars, diskVars, ghostVars, QuietStep
<1>5. CASE CompareWatched \/ ToggleDetection
  BY <1>5 DEF CompareWatched, ToggleDetection, historyVars, latestVars, workerVars, diskVars,
     QuietStep
<1>6. CASE StartTask \/ Withdraw \/ NotifyMain
  BY <1>6 DEF StartTask, Withdraw, NotifyMain, WorkerUnchanged, historyVars, latestVars, QuietStep
<1>7. CASE UNCHANGED vars
  BY <1>7 DEF vars, historyVars, latestVars, workerVars, diskVars, ghostVars, QuietStep
<1> QED
  BY <1>1, <1>2, <1>3, <1>4, <1>5, <1>6, <1>7, Steps DEF RecordingStep, StillHistory, Worker

\* A foreground write, a load or a deletion supersedes what was published.
LEMMA PublishedKept ==
  ASSUME Inv, PublishedIsMarked, [Next]_vars
  PROVE  PublishedIsMarked'
<1>1. CASE MarkingStep
  <2>1. /\ completed' = <<>> /\ published' = published
        /\ completed = <<>> => saved_commit_id' = saved_commit_id
        /\ completed # <<>> => saved_commit_id' = completed[1].revision
    BY <1>1, Marked DEF MarkingStep
  <2> QED
    BY <2>1 DEF PublishedIsMarked
<1>2. CASE QuietStep
  BY <1>2 DEF QuietStep, PublishedIsMarked
<1>3. CASE SaveWrite \/ LoadRead \/ Close
  BY <1>3, SameProperties DEF SaveWrite, LoadRead, Close, Superseded, PublishedIsMarked
<1>4. CASE DeclineReload
  BY <1>4, SameProperties DEF DeclineReload, latestVars, historyVars, PublishedIsMarked
<1>5. CASE QueueSave \/ ExternalEdit
  BY <1>5 DEF QueueSave, ExternalEdit, historyVars, latestVars, PublishedIsMarked
<1>6. CASE TakePending \/ Prepare
  BY <1>6 DEF TakePending, Prepare, WorkerUnchanged, historyVars, latestVars, PublishedIsMarked
<1>7. CASE Publish
  <2>1. request # None /\ Live(request)
    BY <1>7 DEF Publish, CanPublish, Live, Inv, SaveInv, Protocol, WorkerHolds
  <2>2. completed = <<>>
    BY <2>1 DEF Inv, SaveInv, Protocol, OneSave
  <2> DEFINE done == [revision |-> request.revision, doc |-> request.doc,
                      snapshot |-> request.staged]
  <2>3. completed' = Append(<<>>, done) /\ published' = done.revision
    BY <1>7, <2>2 DEF Publish
  <2> HIDE DEF done
  <2>4. completed' # <<>> /\ completed'[1] = done
    BY <2>3
  <2> QED
    BY <2>3, <2>4 DEF PublishedIsMarked
<1> QED
  BY <1>1, <1>2, <1>3, <1>4, <1>5, <1>6, <1>7, DataSteps

\* When TryToClose asks about unsaved changes, the latest automatic write, if it succeeded and
\* nothing superseded it, has been applied.
THEOREM CloseSound == Spec => []CloseSeesPublished
<1>1. Init => PublishedIsMarked
  BY SameProperties DEF Init, PublishedIsMarked
<1>2. Inv /\ PublishedIsMarked => CloseSeesPublished
  <2> SUFFICES ASSUME Inv, PublishedIsMarked, main = "try_close", published = commit_id
               PROVE  commit_id = saved_commit_id
    BY DEF CloseSeesPublished, IsModified, History!IsModified
  <2>1. completed = <<>>
    BY DEF Inv, SaveInv, Protocol, HandlerIsDrained, DrainedMain
  <2>2. commit_id \in Nat
    BY HistoryTypes DEF Inv
  <2> QED
    BY <2>1, <2>2 DEF PublishedIsMarked, Proved!NoId
<1>3. Inv /\ PublishedIsMarked /\ [Next]_vars => PublishedIsMarked'
  BY PublishedKept
<1> QED
  BY <1>1, <1>2, <1>3, InitInv, NextInv, PTL DEF Spec
-----------------------------------------------------------------------------
\* An external edit the user was not asked about, and the checks that look for it.
EditInv == EditDiffers /\ LateHasWrite /\ CheckedWrite

\* A step that leaves the file, its baselines and the writes as they are.
LEMMA EditMarking ==
  ASSUME Inv, EditInv, MarkingStep
  PROVE  EditInv'
<1>1. /\ completed' = <<>> /\ UNCHANGED <<disk, foreign, worker>>
      /\ pending' \in {pending, None} /\ main # "save_write" /\ main' # "save_write"
  BY Marked DEF MarkingStep
<1>2. \/ completed = <<>> /\ known' = known
      \/ completed # <<>> /\ known' \in {known, completed[1].snapshot}
  BY Marked DEF MarkingStep
<1>3. /\ request' = None <=> request = None
      /\ request # None => request'.expected = request.expected
  BY OutdatedFacts DEF MarkingStep, Inv, SaveInv, Types
<1>4. EditDiffers'
  BY <1>1, <1>2, <1>3 DEF EditInv, EditDiffers
<1>5. LateHasWrite' /\ CheckedWrite'
  <2>1. worker = "publish" => request # None
    BY DEF Inv, SaveInv, Protocol, WorkerHolds
  <2> QED
    BY <1>1, <1>3, <2>1 DEF EditInv, LateHasWrite, CheckedWrite
<1> QED
  BY <1>4, <1>5 DEF EditInv

\* A step of the main thread outside Save that leaves the baselines.
EditRests ==
    /\ UNCHANGED <<disk, known, pending, request, completed, worker>>
    /\ foreign' \in {foreign, "none"}
    /\ main # "save_write" /\ main' # "save_write"

\* Such a step keeps what is known of an external edit.
LEMMA EditRest == EditInv /\ EditRests => EditInv'
BY DEF EditInv, EditRests, EditDiffers, LateHasWrite, CheckedWrite, Unnoticed

\* What the worker and the main thread do to a write that has been checked.
LEMMA EditMain ==
  ASSUME Inv, EditInv, Main
  PROVE  EditInv'
<1>1. CASE MarkingStep
  BY <1>1, EditMarking
<1>2. CASE OnCommit \/ Undo \/ Redo \/ (\E c \in Client : ResetCommitId(c)) \/ DecideClose
           \/ Destroyed
  BY <1>2, EditRest DEF OnCommit, Undo, Redo, ResetCommitId, DecideClose, Destroyed, Step,
     RestUnchanged, watchVars, latestVars, workerVars, diskVars, ghostVars, EditRests
<1>3. CASE QueueSave
  <2>1. /\ pending' # None /\ pending'.expected = ExpectedTarget
    BY <1>3, NewRequestType, NoneAssumption DEF QueueSave
  <2>2. /\ UNCHANGED <<disk, known, request, completed, worker>>
        /\ foreign' = IF ChecksDisk /\ ~ Unedited THEN "none" ELSE foreign
        /\ main = "submit" /\ main' = "idle"
    BY <1>3 DEF QueueSave, Step, watchVars, workerVars, diskVars
  <2>3. foreign' \in Unnoticed => disk # ExpectedTarget
    BY <2>2, NoneAssumption DEF ExpectedTarget, EditInv, EditDiffers, Unnoticed, Inv, SaveInv, Types
  <2>4. EditDiffers'
    BY <2>1, <2>2, <2>3 DEF EditInv, EditDiffers, Unnoticed
  <2> QED
    BY <2>2, <2>4 DEF EditInv, LateHasWrite, CheckedWrite, Unnoticed
<1>4. CASE RefuseSave \/ AutoSave
  BY <1>4, EditRest DEF RefuseSave, AutoSave, Step, watchVars, latestVars, workerVars, diskVars,
     EditRests
<1>5. CASE SaveConfirm
  <2>1. worker = "idle"
    BY <1>5 DEF SaveConfirm, Step, Inv, SaveInv, Protocol, HandlerIsDrained, DrainedMain
  <2>2. /\ UNCHANGED <<disk, known, pending, request, completed, worker, detect, has_file>>
        /\ foreign' = IF HasFileChangedOnDisk THEN "none" ELSE foreign
        /\ main = "save_confirm"
    BY <1>5 DEF SaveConfirm, Step, FileStepUnchanged, latestVars, workerVars
  <2> QED
    BY <2>1, <2>2 DEF EditInv, EditDiffers, LateHasWrite, CheckedWrite, Unnoticed,
       HasFileChangedOnDisk, ChecksDisk
<1>6. CASE SaveWrite \/ LoadRead \/ Close \/ ToggleDetection
  <2>1. foreign' = "none"
    BY <1>6 DEF SaveWrite, LoadRead, Close, ToggleDetection
  <2> QED
    BY <2>1 DEF EditInv, EditDiffers, LateHasWrite, CheckedWrite, Unnoticed
<1>7. CASE SaveFails \/ LoadFails \/ UpdateFileWatch
  <2>1. worker = "idle"
    BY <1>7 DEF SaveFails, LoadFails, UpdateFileWatch, Step, Inv, SaveInv, Protocol,
       HandlerIsDrained, DrainedMain
  <2>2. /\ UNCHANGED <<disk, pending, request, completed, worker>> /\ main' = "idle"
    BY <1>7 DEF SaveFails, LoadFails, UpdateFileWatch, Step, FileStepUnchanged, latestVars,
       workerVars
  <2>3. CASE SaveFails \/ LoadFails
    <3>1. known' = known /\ (foreign' \in Unnoticed => foreign \in Unnoticed)
      BY <2>3 DEF SaveFails, LoadFails, Unnoticed
    <3>2. foreign' # "late"
      BY <1>7, <2>1, <2>3 DEF SaveFails, LoadFails, Step, EditInv, LateHasWrite
    <3> QED
      BY <2>1, <2>2, <3>1, <3>2 DEF EditInv, EditDiffers, LateHasWrite, CheckedWrite
  <2>4. CASE UpdateFileWatch
    <3>1. foreign # "late"
      BY <2>1, <2>4 DEF UpdateFileWatch, Step, EditInv, LateHasWrite
    <3>2. foreign' \notin Unnoticed
      BY <2>4, <3>1 DEF UpdateFileWatch, Unnoticed
    <3> QED
      BY <3>2 DEF EditInv, EditDiffers, LateHasWrite, CheckedWrite, Unnoticed
  <2> QED
    BY <1>7, <2>3, <2>4
<1>8. CASE Destroy
  <2>1. /\ known' = None /\ pending' = None /\ main = "idle" /\ main' = "stopping"
        /\ UNCHANGED <<disk, foreign, completed, worker>>
    BY <1>8 DEF Destroy, Step, diskVars, ghostVars
  <2>2. /\ request' = None <=> request = None
        /\ request # None => request'.expected = request.expected
    BY <1>8, OutdatedFacts DEF Destroy, Inv, SaveInv, Types
  <2>3. disk # None /\ (worker = "publish" => request # None)
    BY NoneAssumption DEF Inv, SaveInv, Types, Protocol, WorkerHolds
  <2> QED
    BY <2>1, <2>2, <2>3 DEF EditInv, EditDiffers, LateHasWrite, CheckedWrite
<1>9. CASE ApplyPosted /\ main = "stopped"
  BY <1>9, EditRest DEF ApplyPosted, workerVars, diskVars, EditRests
<1>10. CASE CompareWatched \/ DeclineReload
  BY <1>10, EditRest DEF CompareWatched, DeclineReload, Step, latestVars, workerVars, diskVars,
     EditRests
<1> QED
  BY <1>1, <1>2, <1>3, <1>4, <1>5, <1>6, <1>7, <1>8, <1>9, <1>10, MainBarriersMark, SyncMarks,
     OtherMarks DEF Main

\* Every step of the worker keeps it: Prepare finds an edit there is, and a publication ends it.
LEMMA EditWorker ==
  ASSUME Inv, EditInv, Worker
  PROVE  EditInv'
<1>1. /\ Protocol /\ UNCHANGED <<main, known, detect, has_file>>
  BY DEF Inv, SaveInv, Worker, StartTask, TakePending, Prepare, Publish, Withdraw, NotifyMain,
     WorkerUnchanged, watchVars
<1>2. CASE StartTask \/ TakePending \/ NotifyMain
  <2>1. /\ worker # "publish" /\ worker' # "publish" /\ UNCHANGED <<disk, completed, foreign>>
        /\ pending' \in {pending, None} /\ request' \in {pending, request}
    BY <1>2 DEF StartTask, TakePending, NotifyMain, latestVars
  <2> QED
    BY <1>1, <2>1 DEF EditInv, EditDiffers, LateHasWrite, CheckedWrite, ChecksDisk
<1>3. CASE Prepare
  <2>1. /\ worker = "prepare" /\ UNCHANGED <<disk, completed, foreign, pending>>
        /\ request \in Request /\ request # None
    BY <1>1, <1>3, NoneAssumption DEF Prepare, latestVars, Inv, SaveInv, Types, Protocol,
       WorkerHolds
  <2>2. CASE worker' = "take" /\ request' = None
    BY <1>1, <2>1, <2>2 DEF EditInv, EditDiffers, LateHasWrite, CheckedWrite, ChecksDisk
  <2>3. CASE TargetUnchanged(request.expected) /\ request'.expected = request.expected
    BY <1>1, <2>1, <2>3 DEF EditInv, EditDiffers, LateHasWrite, CheckedWrite, ChecksDisk,
       TargetUnchanged, Unnoticed
  <2>4. ASSUME NEW s \in Stamp,
               request' = [request EXCEPT !.staged = [doc |-> request.doc, stamp |-> s]]
        PROVE  request'.expected = request.expected
    BY <2>1, <2>4, RequestFields
  <2> QED
    BY <1>3, <2>2, <2>3, <2>4 DEF Prepare
<1>4. CASE Publish
  BY <1>4 DEF Publish, EditInv, EditDiffers, LateHasWrite, CheckedWrite, Unnoticed
<1>5. CASE Withdraw
  <2>1. /\ request' = None /\ worker = "publish" /\ worker' = "take"
        /\ UNCHANGED <<disk, completed, pending>>
        /\ foreign' = IF foreign = "late" THEN "unseen" ELSE foreign
    BY <1>5 DEF Withdraw, latestVars
  <2>2. main # "save_write"
    BY <1>1, <2>1 DEF Protocol, HandlerIsDrained, DrainedMain
  <2> QED
    BY <1>1, <2>1, <2>2 DEF EditInv, EditDiffers, LateHasWrite, CheckedWrite, Unnoticed
<1> QED
  BY <1>2, <1>3, <1>4, <1>5 DEF Worker

\* An edit that returns to a baseline is not foreign, any other differs from all of them.
LEMMA EditExternal ==
  ASSUME Inv, EditInv, ExternalEdit
  PROVE  EditInv'
<1>1. UNCHANGED <<main, known, detect, has_file, pending, request, completed, worker>>
  BY DEF ExternalEdit, watchVars, latestVars, workerVars
<1>2. completed # <<>> => completed[1] \in Range(completed)
  BY CompletedOne DEF Inv, SaveInv, Types, Range
<1>3. CASE foreign' = "none"
  BY <1>3 DEF EditInv, EditDiffers, LateHasWrite, CheckedWrite, Unnoticed
<1>4. CASE foreign' # "none"
  <2>1. /\ disk' \notin {known, prompted, shown}
        /\ pending # None => disk' # pending.expected
        /\ request # None => disk' # request.expected
        /\ \A done \in Range(completed) : disk' # done.snapshot
        /\ foreign' = IF main = "save_write" \/ worker = "publish" THEN "late" ELSE "unseen"
    BY <1>4 DEF ExternalEdit
  <2> QED
    BY <1>1, <1>2, <2>1 DEF EditInv, EditDiffers, LateHasWrite, CheckedWrite
<1> QED
  BY <1>3, <1>4

\* Every step keeps what is known of an external edit.
LEMMA EditKept ==
  ASSUME Inv, EditInv, [Next]_vars
  PROVE  EditInv'
<1>1. CASE UNCHANGED vars
  BY <1>1 DEF vars, watchVars, latestVars, workerVars, diskVars, ghostVars, EditInv, EditDiffers,
     LateHasWrite, CheckedWrite, ChecksDisk
<1> QED
  BY <1>1, EditMain, EditWorker, EditExternal DEF Next, Terminated

\* A write made under detection replaces an external edit the user was not asked about only if
\* the edit came after the check the write makes, or was taken for the result of a save or load.
THEOREM ForeignKept == Spec => []WritesKeepForeign
<1>1. Init => EditInv
  BY DEF Init, EditInv, EditDiffers, LateHasWrite, CheckedWrite, Unnoticed
<1>2. EditInv => WritesKeepForeign
  BY DEF EditInv, CheckedWrite, WritesKeepForeign
<1>3. Inv /\ EditInv /\ [Next]_vars => EditInv'
  BY EditKept
<1> QED
  BY <1>1, <1>2, <1>3, InitInv, NextInv, PTL DEF Spec
-----------------------------------------------------------------------------
(***************************************************************************)
(* What counts as an edit the user was asked about.                        *)
(***************************************************************************)
\* The edit a prompt is about is not one the user was not asked about.
ShownDiffers == foreign \in Unnoticed => disk # shown
SilencedByLimit == Silenced' /\ ~ Silenced => prompt_count' > kMaxPromptLoopCount

\* A step that leaves the file and stamps nothing.
StampsNothing ==
    /\ disk' = disk
    /\ foreign' \in Unnoticed => foreign \in Unnoticed
    /\ prompted' \in {prompted, None} /\ shown' \in {shown, None}

\* Such a step keeps both, and so does one that leaves no edit unnoticed.
LEMMA StampRests ==
  ASSUME Inv, ShownDiffers, StampsNothing \/ foreign' \notin Unnoticed
  PROVE  ShownDiffers' /\ SilencedByLimit
<1>1. disk # None
  BY NoneAssumption DEF Inv, SaveInv, Types
<1> QED
  BY <1>1 DEF ShownDiffers, SilencedByLimit, StampsNothing, Silenced, Unnoticed

\* Applying what the worker finished stamps nothing.
LEMMA MarkStamps == MarkCompleted \/ ApplyCompleted => prompted' \in {prompted, None}
BY DEF ApplyCompleted, MarkCompleted

\* A step of the main thread stamps what its prompt was about, or the limit is reached.
LEMMA MainStamps ==
  ASSUME Inv, ShownDiffers, Main
  PROVE  ShownDiffers' /\ SilencedByLimit
<1>1. CASE MainBarriers \/ MainWaits
  <2>1. StampsNothing
    BY <1>1, MarkStamps DEF MainBarriers, MainWaits, Barrier, Sync, BeginRevision, diskVars,
       StampsNothing
  <2> QED
    BY <2>1, StampRests
<1>2. CASE OnCommit \/ Undo \/ Redo \/ (\E c \in Client : ResetCommitId(c)) \/ DecideClose
           \/ Destroyed
  <2>1. StampsNothing
    BY <1>2 DEF OnCommit, Undo, Redo, ResetCommitId, DecideClose, Destroyed, RestUnchanged,
       watchVars, diskVars, ghostVars, StampsNothing
  <2> QED
    BY <2>1, StampRests
<1>3. CASE QueueSave \/ RefuseSave \/ AutoSave \/ Destroy
  <2>1. StampsNothing
    BY <1>3 DEF QueueSave, RefuseSave, AutoSave, Destroy, watchVars, diskVars, ghostVars,
       StampsNothing, Unnoticed
  <2> QED
    BY <2>1, StampRests
<1>4. CASE SaveConfirm \/ SaveFails \/ LoadFails \/ UpdateFileWatch
  <2>1. StampsNothing
    BY <1>4 DEF SaveConfirm, SaveFails, LoadFails, UpdateFileWatch, FileStepUnchanged,
       StampsNothing, Unnoticed
  <2> QED
    BY <2>1, StampRests
<1>5. CASE SaveWrite \/ LoadRead \/ Close \/ ToggleDetection
  <2>1. foreign' \notin Unnoticed
    BY <1>5 DEF SaveWrite, LoadRead, Close, ToggleDetection, Unnoticed
  <2> QED
    BY <2>1, StampRests
<1>6. CASE TryToClose \/ ApplyPosted \/ OnWatchedFileChanged \/ WatchedDuringPrompt
           \/ AcceptReload
  <2>1. StampsNothing
    BY <1>6, MarkStamps DEF TryToClose, ApplyPosted, OnWatchedFileChanged, WatchedDuringPrompt,
       AcceptReload, BeginRevision, WatchUnchanged, diskVars, StampsNothing
  <2> QED
    BY <2>1, StampRests
<1>7. CASE CompareWatched
  <2>1. UNCHANGED <<disk, shown, foreign>> \/ foreign' = "none"
    BY <1>7 DEF CompareWatched, diskVars
  <2>2. prompted' = prompted \/ prompt_count' > kMaxPromptLoopCount
    BY <1>7 DEF CompareWatched
  <2> QED
    BY <2>1, <2>2 DEF ShownDiffers, SilencedByLimit, Silenced, Unnoticed
<1>8. CASE DeclineReload
  <2>1. UNCHANGED <<disk, foreign>> /\ prompted' = shown /\ shown' = None
    BY <1>8 DEF DeclineReload, diskVars
  <2>2. disk # None
    BY NoneAssumption DEF Inv, SaveInv, Types
  <2> QED
    BY <2>1, <2>2 DEF ShownDiffers, SilencedByLimit, Silenced, Unnoticed
<1> QED
  BY <1>1, <1>2, <1>3, <1>4, <1>5, <1>6, <1>7, <1>8 DEF Main

\* No step of the worker stamps anything.
LEMMA WorkerStamps ==
  ASSUME Inv, ShownDiffers, Worker
  PROVE  ShownDiffers' /\ SilencedByLimit
<1>1. UNCHANGED <<prompted, shown>>
  BY DEF Worker, StartTask, TakePending, Prepare, Publish, Withdraw, NotifyMain, WorkerUnchanged,
     watchVars
<1>2. CASE Publish
  BY <1>2, StampRests DEF Publish, Unnoticed
<1>3. CASE StartTask \/ TakePending \/ Prepare \/ Withdraw \/ NotifyMain
  <2>1. disk' = disk /\ (foreign' \in Unnoticed => foreign \in Unnoticed)
    BY <1>3 DEF StartTask, TakePending, Prepare, Withdraw, NotifyMain, Unnoticed
  <2> QED
    BY <1>1, <2>1, StampRests DEF StampsNothing
<1> QED
  BY <1>2, <1>3 DEF Worker

\* Another program's edit of a stamped or shown file is none the user was not asked about.
LEMMA ExternalStamps ==
  ASSUME Inv, ShownDiffers, ExternalEdit
  PROVE  ShownDiffers' /\ SilencedByLimit
<1>1. UNCHANGED <<prompted, shown>>
  BY DEF ExternalEdit, watchVars
<1>2. foreign' = "none" \/ disk' \notin {prompted, shown}
  BY DEF ExternalEdit
<1> QED
  BY <1>1, <1>2 DEF ShownDiffers, SilencedByLimit, Silenced, Unnoticed

\* Only the limit of the loop in OnWatchedFileChanged stamps an edit the user was not asked
\* about: the answer to a prompt never speaks for an edit made while it was open.
THEOREM LimitSilences == Spec => OnlyLimitSilences
<1>1. Init => ShownDiffers
  BY DEF Init, ShownDiffers, Unnoticed
<1>2. ASSUME Inv, ShownDiffers, [Next]_vars
      PROVE  ShownDiffers'
             /\ [Silenced' /\ ~ Silenced => prompt_count' > kMaxPromptLoopCount]_vars
  <2>1. CASE UNCHANGED vars
    <3>1. ShownDiffers'
      BY <1>2, <2>1 DEF vars, watchVars, diskVars, ghostVars, ShownDiffers
    <3> QED
      BY <2>1, <3>1
  <2>2. CASE Main
    BY <1>2, <2>2, MainStamps DEF SilencedByLimit
  <2>3. CASE Worker
    BY <1>2, <2>3, WorkerStamps DEF SilencedByLimit
  <2>4. CASE ExternalEdit
    BY <1>2, <2>4, ExternalStamps DEF SilencedByLimit
  <2> QED
    BY <1>2, <2>1, <2>2, <2>3, <2>4 DEF Next, Terminated
<1> QED
  BY <1>1, <1>2, InitInv, NextInv, PTL DEF Spec, OnlyLimitSilences
-----------------------------------------------------------------------------
(***************************************************************************)
(* What an unmodified document is.  The history tells that it is the one   *)
(* last marked as saved, when no client keeps its id over Undo and Redo.   *)
(***************************************************************************)
\* What is staged, pending or on disk is not empty when AddDefault forbids it.
LEMMA FilledKept ==
  ASSUME Inv, FilledDocuments, [Next]_vars
  PROVE  FilledDocuments'
<1>1. pending \in Request \cup {None} /\ request \in Request \cup {None}
  BY DEF Inv, SaveInv, Types
<1>2. Outdated(request) = None \/ (request # None /\ Outdated(request).doc = request.doc)
  BY <1>1, OutdatedFacts
<1>3. undo_stack # <<>> => Proved!Filled(file)
  BY HistoryConstants, Proved!FileFilled DEF Inv
<1>4. CASE MarkingStep \/ QuietStep
  BY <1>2, <1>4 DEF MarkingStep, QuietStep, FilledDocuments
<1>5. CASE SaveWrite
  <2>1. PICK s \in Stamp : disk' = [doc |-> file, stamp |-> s]
    BY <1>5 DEF SaveWrite
  <2>2. disk'.doc = file /\ Proved!Filled(file)
    BY <1>3, <1>5, <2>1 DEF SaveWrite, History!Save
  <2>3. UNCHANGED <<pending, request>>
    BY <1>5 DEF SaveWrite, FileStepUnchanged, latestVars, workerVars
  <2> QED
    BY <2>2, <2>3 DEF FilledDocuments
<1>6. CASE LoadRead \/ Close
  BY <1>6 DEF LoadRead, Close, FileStepUnchanged, latestVars, workerVars, FilledDocuments
<1>7. CASE DeclineReload
  BY <1>7 DEF DeclineReload, latestVars, workerVars, diskVars, FilledDocuments
<1>8. CASE QueueSave
  <2>1. pending'.doc = file /\ UNCHANGED <<disk, request>>
    BY <1>8, NewRequestType DEF QueueSave, workerVars, diskVars
  <2>2. undo_stack # <<>>
    BY <1>8 DEF QueueSave, Step, Inv, SaveInv, FileIsRecorded, Protocol, HandlerIsQuiet
  <2> QED
    BY <1>3, <2>1, <2>2 DEF FilledDocuments
<1>9. CASE TakePending
  BY <1>9 DEF TakePending, FilledDocuments
<1>10. CASE Prepare
  <2>1. request \in Request /\ request # None /\ UNCHANGED <<disk, pending>>
    BY <1>1, <1>10 DEF Prepare, latestVars, Inv, SaveInv, Protocol, WorkerHolds
  <2>2. ASSUME NEW s \in Stamp,
               request' = [request EXCEPT !.staged = [doc |-> request.doc, stamp |-> s]]
        PROVE  request'.doc = request.doc
    BY <2>1, <2>2, RequestFields
  <2>3. request' = None \/ request'.doc = request.doc
    BY <1>10, <2>2 DEF Prepare
  <2> QED
    BY <2>1, <2>3 DEF FilledDocuments
<1>11. CASE Publish
  <2>1. disk' = request.staged /\ request' = None /\ pending' = pending
    BY <1>11 DEF Publish
  <2>2. request # None /\ request.staged.doc = request.doc
    BY <1>11 DEF Publish, Inv, SaveInv, Protocol, WorkerHolds
  <2> QED
    BY <2>1, <2>2 DEF FilledDocuments
<1>12. CASE ExternalEdit
  BY <1>12 DEF ExternalEdit, latestVars, workerVars, FilledDocuments, Proved!Filled
<1> QED
  BY <1>4, <1>5, <1>6, <1>7, <1>8, <1>9, <1>10, <1>11, <1>12, DataSteps

\* What is marked as saved is what was last read or written, once what is finished is applied.
LEMMA SavedKept ==
  ASSUME Inv, FilledDocuments, SavedIsOurs, [Next]_vars
  PROVE  SavedIsOurs'
<1>1. CASE MarkingStep
  <2>1. /\ completed' = <<>> /\ UNCHANGED <<has_file, ours>>
        /\ completed = <<>> => saved' = saved
        /\ completed # <<>> => saved' = completed[1].doc
    BY <1>1, Marked DEF MarkingStep
  <2> QED
    BY <2>1 DEF SavedIsOurs
<1>2. CASE QuietStep
  BY <1>2 DEF QuietStep, SavedIsOurs
<1>3. completed # <<>> => main \notin HandlerMain
  BY DEF Inv, SaveInv, Protocol, HandlerIsQuiet
<1>4. CASE SaveWrite
  BY <1>3, <1>4 DEF SaveWrite, Step, HandlerMain, History!Save, FileStepUnchanged, latestVars,
     SavedIsOurs
<1>5. CASE LoadRead
  <2>1. Proved!Load(disk.doc) /\ disk.doc \in Document /\ Proved!Filled(disk.doc)
    BY <1>5, SameLoad DEF LoadRead, FilledDocuments, Inv, SaveInv, Types, Snapshot, Contents
  <2>2. file' = disk.doc
    BY <2>1, HistoryConstants, SameProperties, Proved!LoadFilled
  <2> QED
    BY <1>3, <1>5, <2>2 DEF LoadRead, Step, HandlerMain, History!Load, FileStepUnchanged,
       latestVars, SavedIsOurs
<1>6. CASE Close
  BY <1>3, <1>6 DEF Close, Step, HandlerMain, FileStepUnchanged, latestVars, SavedIsOurs
<1>7. CASE DeclineReload
  BY <1>7 DEF DeclineReload, History!FileDeleted, historyVars, latestVars, SavedIsOurs
<1>8. CASE QueueSave \/ ExternalEdit
  BY <1>8 DEF QueueSave, ExternalEdit, historyVars, latestVars, SavedIsOurs
<1>9. CASE TakePending \/ Prepare
  BY <1>9 DEF TakePending, Prepare, WorkerUnchanged, historyVars, latestVars, SavedIsOurs
<1>10. CASE Publish
  <2>1. request # None /\ Live(request)
    BY <1>10 DEF Publish, CanPublish, Live, Inv, SaveInv, Protocol, WorkerHolds
  <2>2. completed = <<>>
    BY <2>1 DEF Inv, SaveInv, Protocol, OneSave
  <2> DEFINE done == [revision |-> request.revision, doc |-> request.doc,
                      snapshot |-> request.staged]
  <2>3. completed' = Append(<<>>, done) /\ ours' = done.doc
    BY <1>10, <2>2 DEF Publish
  <2> HIDE DEF done
  <2>4. completed' # <<>> /\ completed'[1] = done
    BY <2>3
  <2> QED
    BY <2>3, <2>4 DEF SavedIsOurs
<1> QED
  BY <1>1, <1>2, <1>4, <1>5, <1>6, <1>7, <1>8, <1>9, <1>10, DataSteps

\* When no client keeps its id over Undo and Redo, a document with a file that is reported as
\* unmodified is the one last read from or written to the file.
THEOREM UnmodifiedOnDisk == (KeepsId = {}) => (Spec => []UnmodifiedIsOnDisk)
<1> SUFFICES ASSUME KeepsId = {} PROVE Spec => []UnmodifiedIsOnDisk
  OBVIOUS
<1>1. Init => Proved!SavedInv
  BY SameInit, HistoryConstants, Proved!SavedInit DEF Init
<1>2. Inv /\ Proved!SavedInv /\ [Next]_vars => Proved!SavedInv'
  BY HistoryStep, SameNext, HistoryConstants, Proved!SavedStep
<1>3. Init => FilledDocuments /\ SavedIsOurs
  BY DEF Init, FilledDocuments, SavedIsOurs, Proved!Filled
<1>4. Inv /\ FilledDocuments /\ SavedIsOurs /\ [Next]_vars => FilledDocuments' /\ SavedIsOurs'
  BY FilledKept, SavedKept
<1>5. Inv /\ Proved!SavedInv /\ SavedIsOurs => UnmodifiedIsOnDisk
  <2> SUFFICES ASSUME Inv, Proved!SavedInv, SavedIsOurs, undo_stack # <<>>, has_file, ~IsModified
               PROVE  ours = file
    BY DEF UnmodifiedIsOnDisk
  <2>1. file = saved
    BY DEF Proved!SavedInv, Proved!SavedMark, Proved!UnmodifiedIsSaved, Proved!IsModified,
       IsModified, History!IsModified
  <2>2. completed # <<>> => completed[1].doc = file
    BY CompletedOne DEF Inv
  <2> QED
    BY <2>1, <2>2 DEF SavedIsOurs
<1> QED
  BY <1>1, <1>2, <1>3, <1>4, <1>5, InitInv, NextInv, PTL DEF Spec
=============================================================================
