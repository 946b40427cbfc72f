--------------------------- MODULE SubtitleHistory ---------------------------
(***************************************************************************)
(* The undo history of a subtitle document: class SubtitleHistory of       *)
(* src/src/subtitle_history.h and .cpp, with the commits that feed it and  *)
(* the host calls (load, save, external deletion) that move its saved      *)
(* mark.                                                                   *)
(*                                                                         *)
(* A document is the part of an AssFile the history restores.  It is a     *)
(* function from the live dialogue lines to their text; styles, script     *)
(* info, attachments and extradata travel in the same snapshot and are     *)
(* covered by EditDocument, which may change anything.  Bookmarks (caret   *)
(* and selection) are left out.                                            *)
(*                                                                         *)
(* A commit client keeps the revision its last commit returned             *)
(* (subtitle_command_session.h) and passes it back as amend_id to have     *)
(* its next commit merged into the same undo step.                         *)
(***************************************************************************)
EXTENDS Integers, Sequences

CONSTANTS
    Line,        \* identities of dialogue lines (AssDialogueBase::Id)
    Text,        \* contents a line can have
    Client,      \* holders of an amend id: edit box, visual tool, dialogs
    KeepsId,     \* the clients that do not reset their amend id on Undo/Redo
    UndoLevels,  \* option "Limits/Undo Levels"
    AddDefault,  \* EmptyDialoguePolicy::AddDefault (else Preserve)
    MaxRevision  \* bound on the revisions allocated

ASSUME ClientAssumption == KeepsId \subseteq Client
ASSUME LevelsAssumption == UndoLevels \in Int
ASSUME RevisionAssumption == MaxRevision \in Nat
ASSUME DocumentAssumption == /\ Line # {}
                             /\ Text # {}
                             /\ AddDefault \in BOOLEAN

VARIABLES
    file,            \* the live document
    undo_stack,      \* entries; the last one is the current version
    redo_stack,      \* entries undone; the last one is redone first
    commit_id,       \* revision of the live document
    saved_commit_id, \* revision that counts as saved
    next_commit_id,  \* the revision allocator
    amend_id,        \* the revision each client would amend
    saved            \* history variable: the document last marked saved

history == <<undo_stack, redo_stack, commit_id, next_commit_id>>
vars == <<file, undo_stack, redo_stack, commit_id, saved_commit_id,
          next_commit_id, amend_id, saved>>

NoId == -1
Document == UNION {[rows -> Text] : rows \in SUBSET Line}
Entry == [commit_id : Nat, events : Document]

MaxOf(a, b) == IF a > b THEN a ELSE b
Top(stack) == stack[Len(stack)]
Pop(stack) == SubSeq(stack, 1, Len(stack) - 1)
\* Mutant: the newest entries are dropped.
Trim_KeepsOldest(stack) ==
    LET limit == MaxOf(UndoLevels, 2)
    IN  IF Len(stack) > limit THEN SubSeq(stack, 1, limit) ELSE stack

\* Drop from the front until at most max(UndoLevels, 2) entries are left.
Trim(stack) ==
    LET limit == MaxOf(UndoLevels, 2)
    IN  IF Len(stack) > limit
        THEN SubSeq(stack, Len(stack) - limit + 1, Len(stack))
        ELSE stack

IsModified == commit_id # saved_commit_id
CanUndo == Len(undo_stack) > 1
CanRedo == Len(redo_stack) > 0

\* The document an empty one becomes when its first snapshot is taken.
Normalised(doc) ==
    IF DOMAIN doc = {} /\ AddDefault
    THEN UNION {[{l} -> Text] : l \in Line}
    ELSE {doc}

\* Every changed line is a row of the snapshot, under the same identity.
CanAmendSnapshot_NoEmptyCheck(snapshot, changed) ==
    changed \subseteq DOMAIN snapshot
CanAmendSnapshot(snapshot, changed) ==
    changed # {} /\ changed \subseteq DOMAIN snapshot
AmendSnapshot(snapshot, doc, changed) ==
    [l \in DOMAIN snapshot |-> IF l \in changed THEN doc[l] ELSE snapshot[l]]
-----------------------------------------------------------------------------
(***************************************************************************)
(* More mutants: the operator named before the underscore with one plausible    *)
(* mistake in it.  They show that the properties can tell it.              *)
(***************************************************************************)
Merges_NoSaveBarrier(id) ==
    next_commit_id = id + 1 /\ redo_stack = <<>> /\ undo_stack # <<>>

RecordEntry_NoAllocation(base, doc) ==
    /\ commit_id' = next_commit_id
    /\ next_commit_id' = next_commit_id
    /\ redo_stack' = <<>>
    /\ file' \in Normalised(doc)
    /\ undo_stack' = Trim(Append(base, [commit_id |-> next_commit_id,
                                        events |-> file']))
-----------------------------------------------------------------------------
(***************************************************************************)
(* Record.  Each of the three outcomes allocates a revision for the        *)
(* document doc, committed with amend id `id'; changed is the exact set of *)
(* lines the commit names, empty when it names none.                       *)
(***************************************************************************)
Merges(id) ==
    /\ next_commit_id = id + 1
    /\ redo_stack = <<>>
    /\ saved_commit_id + 1 # next_commit_id
    /\ undo_stack # <<>>

RecordInPlace(doc, id, dialogueOnly, changed) ==
    /\ Merges(id)
    /\ dialogueOnly
    /\ CanAmendSnapshot(Top(undo_stack).events, changed)
    /\ commit_id' = next_commit_id
    /\ next_commit_id' = next_commit_id + 1
    /\ undo_stack' = [undo_stack EXCEPT ![Len(undo_stack)] =
                        [commit_id |-> @.commit_id,
                         events |-> AmendSnapshot(@.events, doc, changed)]]
    /\ redo_stack' = redo_stack
    /\ file' = doc

RecordEntry(base, doc) ==
    /\ commit_id' = next_commit_id
    /\ next_commit_id' = next_commit_id + 1
    /\ redo_stack' = <<>>
    /\ file' \in Normalised(doc)
    /\ undo_stack' = Trim(Append(base, [commit_id |-> next_commit_id,
                                        events |-> file']))

Record(doc, id, dialogueOnly, changed) ==
    \/ RecordInPlace(doc, id, dialogueOnly, changed)
    \/ /\ Merges(id)
       /\ ~ (dialogueOnly /\ CanAmendSnapshot(Top(undo_stack).events, changed))
       /\ RecordEntry(Pop(undo_stack), doc)
    \/ /\ ~ Merges(id)
       /\ RecordEntry(undo_stack, doc)

-----------------------------------------------------------------------------
(***************************************************************************)
(* Commits.  The client changes the document, then AssFile::Commit calls   *)
(* the undo manager and returns the revision, which the client keeps.      *)
(***************************************************************************)
Commit(c, doc, dialogueOnly, changed) ==
    /\ next_commit_id < MaxRevision
    /\ undo_stack # <<>>
    /\ \E id \in {NoId, amend_id[c]} : Record(doc, id, dialogueOnly, changed)
    /\ amend_id' = [amend_id EXCEPT ![c] = commit_id']
    /\ UNCHANGED <<saved_commit_id, saved>>

\* Dialogue text or times of the lines in changed; exact: the commit names them.
EditLines(c, changed, exact, text) ==
    /\ changed # {}
    /\ changed \subseteq DOMAIN file
    /\ Commit(c,
              [l \in DOMAIN file |-> IF l \in changed THEN text ELSE file[l]],
              TRUE,
              IF exact THEN changed ELSE {})

\* Lines added or removed, styles, script info, or several of these at once.
EditDocument(c, doc) == Commit(c, doc, FALSE, {})

\* A client starts a new undo step (SubtitleCommandSession::ResetCommitId).
ResetCommitId(c) ==
    /\ amend_id[c] # NoId
    /\ amend_id' = [amend_id EXCEPT ![c] = NoId]
    /\ UNCHANGED <<file, history, saved_commit_id, saved>>

\* The active line changes with the rows: clients other than KeepsId reset.
DropIds == amend_id' = [c \in Client |-> IF c \in KeepsId THEN amend_id[c]
                                                          ELSE NoId]
-----------------------------------------------------------------------------
Undo ==
    /\ CanUndo
    /\ redo_stack' = Append(redo_stack, Top(undo_stack))
    /\ undo_stack' = Pop(undo_stack)
    /\ commit_id' = Top(undo_stack').commit_id
    /\ file' = Top(undo_stack').events
    /\ DropIds
    /\ UNCHANGED <<saved_commit_id, next_commit_id, saved>>

Redo ==
    /\ CanRedo
    /\ undo_stack' = Append(undo_stack, Top(redo_stack))
    /\ redo_stack' = Pop(redo_stack)
    /\ commit_id' = Top(undo_stack').commit_id
    /\ file' = Top(undo_stack').events
    /\ DropIds
    /\ UNCHANGED <<saved_commit_id, next_commit_id, saved>>

(***************************************************************************)
(* Host calls.  Load (and Close, with the default document) clears the     *)
(* stacks, marks the revision after the current one as saved and commits   *)
(* the new document, which becomes the first entry.  Save marks the        *)
(* current revision; an external deletion marks a revision that never was. *)
(***************************************************************************)
Load(doc) ==
    /\ next_commit_id < MaxRevision
    /\ saved_commit_id' = commit_id + 1
    /\ commit_id' = next_commit_id
    /\ next_commit_id' = next_commit_id + 1
    /\ redo_stack' = <<>>
    /\ file' \in Normalised(doc)
    /\ undo_stack' = <<[commit_id |-> next_commit_id, events |-> file']>>
    /\ saved' = file'
    /\ DropIds

Save ==
    /\ undo_stack # <<>>
    /\ saved_commit_id' = commit_id
    /\ saved' = file
    /\ UNCHANGED <<file, history, amend_id>>

FileDeleted ==
    /\ undo_stack # <<>>
    /\ saved_commit_id' = -1
    /\ UNCHANGED <<file, history, amend_id, saved>>
-----------------------------------------------------------------------------
\* A constructed SubtitleHistory: nothing is recorded until the first Load.
Init ==
    /\ file \in {doc \in Document : DOMAIN doc = {}}
    /\ undo_stack = <<>>
    /\ redo_stack = <<>>
    /\ commit_id = 0
    /\ saved_commit_id = 0
    /\ next_commit_id = 1
    /\ amend_id = [c \in Client |-> NoId]
    /\ saved = file

Next ==
    \/ \E c \in Client, changed \in SUBSET Line, exact \in BOOLEAN, t \in Text :
          EditLines(c, changed, exact, t)
    \/ \E c \in Client, doc \in Document : EditDocument(c, doc)
    \/ \E c \in Client : ResetCommitId(c)
    \/ Undo
    \/ Redo
    \/ \E doc \in Document : Load(doc)
    \/ Save
    \/ FileDeleted

Spec == Init /\ [][Next]_vars
-----------------------------------------------------------------------------
(***************************************************************************)
(* Properties                                                              *)
(***************************************************************************)
\* Every variable has its type; revisions fit below the allocator.
TypeOK ==
    /\ file \in Document
    /\ undo_stack \in Seq(Entry)
    /\ redo_stack \in Seq(Entry)
    /\ next_commit_id \in Nat \ {0}
    /\ commit_id \in 0 .. next_commit_id - 1
    /\ saved_commit_id \in -1 .. next_commit_id - 1
    /\ amend_id \in [Client -> {NoId} \cup (1 .. next_commit_id - 1)]
    /\ saved \in Document

\* The newest entry is the live document: amending a snapshot line by line,
\* merging, undoing and redoing never let the two drift apart.
TopIsDocument == undo_stack # <<>> => Top(undo_stack).events = file

\* A document that IsModified() reports as unmodified is, line for line, the
\* one last loaded or saved, whatever was undone, redone and merged since.
UnmodifiedIsSaved ==
    undo_stack # <<>> /\ ~ IsModified => file = saved

\* An entry that carries the saved revision still holds what was saved, so
\* undoing or redoing to it may report "unmodified".
SavedEntryIsSaved ==
    \A stack \in {undo_stack, redo_stack} : \A i \in 1 .. Len(stack) :
        stack[i].commit_id = saved_commit_id => stack[i].events = saved

\* Revisions grow along the undo stack and then backwards along the redo
\* stack, below the allocator; only the newest entry can lag the live revision.
RevisionsOrdered ==
    /\ \A i, j \in 1 .. Len(undo_stack) :
          i < j => undo_stack[i].commit_id < undo_stack[j].commit_id
    /\ \A i, j \in 1 .. Len(redo_stack) :
          i < j => redo_stack[i].commit_id > redo_stack[j].commit_id
    /\ \A i \in 1 .. Len(undo_stack), j \in 1 .. Len(redo_stack) :
          undo_stack[i].commit_id < redo_stack[j].commit_id
    /\ \A stack \in {undo_stack, redo_stack} : \A i \in 1 .. Len(stack) :
          stack[i].commit_id < next_commit_id

\* The versions two stacks hold, oldest first.
VersionsOf(done, undone) ==
    [i \in 1 .. Len(done) + Len(undone) |->
        IF i <= Len(done) THEN done[i].events
                          ELSE undone[Len(done) + Len(undone) + 1 - i].events]
Versions == VersionsOf(undo_stack, redo_stack)

Timeline == INSTANCE UndoTimeline WITH
    versions <- Versions, cursor <- Len(undo_stack), document <- file

\* Undo, redo, merging and trimming together act as one line of versions:
\* nothing between the first kept version and the last undone one is lost or
\* reordered, and the live document is the version at the cursor.
ImplementsTimeline == Timeline!Spec
=============================================================================
