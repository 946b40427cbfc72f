-------------------------- MODULE PackageTransaction --------------------------
(***************************************************************************)
(* Installing packages under the Automation directory: class               *)
(* PackageTransactionStore of src/src/coreclr/package_transaction.cpp.     *)
(*                                                                         *)
(* A plugin begins a transaction, puts its payloads into the staging       *)
(* directory and commits a list of files to write or remove.  The store    *)
(* journals the list, moves each existing target to a backup and each      *)
(* payload to its target.  A failure rolls back; a later start recovers    *)
(* what an interrupted process left.  Every file operation is a step, and  *)
(* the process may crash between any two of the phases in CrashIn.         *)
(*                                                                         *)
(* A file's content is the transaction that wrote it, or Old.  Paths,      *)
(* links and directories are left out, with the checks on them: a commit   *)
(* they refuse changes nothing.                                            *)
(***************************************************************************)
EXTENDS Integers, Sequences, SequencesExt

CONSTANTS
    Path,       \* installation targets
    Tx,         \* transaction ids; each is allocated once
    Plugin,     \* plugin handles
    Absent,     \* no file
    Old,        \* the content of a file no transaction wrote
    None,       \* no journal, no job
    Torn,       \* a journal not completely written
    MaxFiles,   \* kMaximumFiles
    CrashIn,    \* phases in which the process may crash
    FailIn,     \* phases in which a file operation may fail
    MaxCrashes  \* bound on the crashes

Phases == {"idle", "journal", "apply", "rollback", "restore", "remove"}
ASSUME PhaseAssumption == CrashIn \subseteq Phases /\ FailIn \subseteq Phases
ASSUME BoundAssumption == MaxFiles \in Nat /\ MaxCrashes \in Nat

VARIABLES
    live,      \* the target files
    tree,      \* the staging directory of each transaction, or None
    owner,     \* transactions in memory: the plugin each belongs to
    used,      \* the ids allocated so far
    job,       \* what the thread that holds the mutex is doing, or None
    up,        \* "down", "starting" or "up"
    todo,      \* the directories a start has yet to visit
    crashes,
    plan,      \* history variable: the files each transaction asks for
    done,      \* history variable: the transactions that took place
    undecided, \* history variable: the journaled transaction in progress
    before     \* history variable: live when it began
vars == <<live, tree, owner, used, job, up, todo, crashes, plan, done,
          undecided, before>>
ghostVars == <<plan, done, undecided, before>>

File == [path : Path, remove : BOOLEAN]
FileLists == {fs \in UNION {[1 .. n -> File] : n \in 1 .. MaxFiles} :
                \A i, j \in DOMAIN fs : fs[i].path = fs[j].path => i = j}
Puts(fs) == {i \in DOMAIN fs : ~ fs[i].remove}

\* A staging directory: whether the backup directory is there, the journal,
\* and payloads and backups by file number.
EmptyTree == [reserved |-> FALSE, journal |-> None, staged |-> {},
              backup |-> <<>>]
HasBackup(t, i) == i \in DOMAIN tree[t].backup
WithBackup(t, i, content) ==
    [n \in DOMAIN tree[t].backup \cup {i} |->
        IF n = i THEN content ELSE tree[t].backup[n]]
WithoutBackup(t, i) ==
    [n \in DOMAIN tree[t].backup \ {i} |-> tree[t].backup[n]]
Journaled(t) == tree[t] # None /\ tree[t].journal \notin {None, Torn}

Phase == IF job = None THEN "idle" ELSE job.phase
Removing(trees, then) == [phase |-> "remove", trees |-> trees, then |-> then]
MayFail == Phase \in FailIn

\* The directories and the jobs there are; the marks are none of them.
Backups == UNION {[ns -> Tx \cup {Old}] : ns \in SUBSET (1 .. MaxFiles)}
Tree == [reserved : BOOLEAN, journal : FileLists \cup {None, Torn},
         staged : SUBSET (1 .. MaxFiles), backup : Backups]
Action == [at : 1 .. MaxFiles, installed : BOOLEAN, backed_up : BOOLEAN]
JournalJob == [phase : {"journal"}, tx : Tx, files : FileLists]
ApplyJob == [phase : {"apply"}, tx : Tx, files : FileLists, at : Nat,
             moved : BOOLEAN, applied : Seq(Action)]
RollbackJob == [phase : {"rollback"}, tx : Tx, files : FileLists,
                applied : Seq(Action)]
RestoreJob == [phase : {"restore"}, tx : Tx, files : FileLists, at : Nat]
RemoveJob == [phase : {"remove"}, trees : SUBSET Tx,
              then : {"up", "starting", "down"}]
Job == JournalJob \cup ApplyJob \cup RollbackJob \cup RestoreJob \cup RemoveJob
ASSUME MarkAssumption ==
    /\ Absent \notin Tx \cup {Old}
    /\ None \notin Tx \cup Tree \cup Job
    /\ None \notin FileLists /\ Torn \notin FileLists \cup {None}
-----------------------------------------------------------------------------
(***************************************************************************)
(* Begin, and Commit up to the journal                                     *)
(***************************************************************************)
Begin(t, p) ==
    /\ up = "up" /\ job = None
    /\ t \notin used
    /\ used' = used \cup {t}
    /\ owner' = [x \in DOMAIN owner \cup {t} |-> IF x = t THEN p ELSE owner[x]]
    /\ tree' = [tree EXCEPT ![t] = EmptyTree]
    /\ UNCHANGED <<live, job, up, todo, crashes, ghostVars>>

\* The payloads are there, the backup directory is made.  After a commit that
\* failed in its journal it is there already, and a second one is refused.
Commit(t, fs) ==
    /\ up = "up" /\ job = None
    /\ t \in DOMAIN owner
    /\ ~ tree[t].reserved
    /\ tree' = [tree EXCEPT ![t].staged = Puts(fs), ![t].reserved = TRUE]
    /\ job' = [phase |-> "journal", tx |-> t, files |-> fs]
    /\ plan' = [plan EXCEPT ![t] =
                  [put |-> {fs[i].path : i \in Puts(fs)},
                   remove |-> {fs[i].path : i \in DOMAIN fs \ Puts(fs)}]]
    /\ UNCHANGED <<live, owner, used, up, todo, crashes, done, undecided, before>>

\* Mutant: the files are moved without waiting for a complete journal.
WriteJournal_Unflushed ==
    /\ Phase = "journal"
    /\ tree[job.tx].journal = None
    /\ tree' = [tree EXCEPT ![job.tx].journal = Torn]
    /\ job' = [phase |-> "apply", tx |-> job.tx, files |-> job.files, at |-> 1,
               moved |-> FALSE, applied |-> <<>>]
    /\ undecided' = job.tx /\ before' = live
    /\ UNCHANGED <<live, owner, used, up, todo, crashes, plan, done>>

\* WriteCommitJournal: opened, then written and flushed.
WriteJournal ==
    /\ Phase = "journal"
    /\ IF tree[job.tx].journal = None
       THEN /\ tree' = [tree EXCEPT ![job.tx].journal = Torn]
            /\ UNCHANGED <<job, undecided, before>>
       ELSE /\ tree' = [tree EXCEPT ![job.tx].journal = job.files]
            /\ job' = [phase |-> "apply", tx |-> job.tx, files |-> job.files,
                       at |-> 1, moved |-> FALSE, applied |-> <<>>]
            /\ undecided' = job.tx /\ before' = live
    /\ UNCHANGED <<live, owner, used, up, todo, crashes, plan, done>>

\* Commit throws; the transaction stays open, with what was written, which
\* may be all of the journal.
JournalFails ==
    /\ Phase = "journal" /\ MayFail
    /\ job' = None
    /\ \/ tree' = tree
       \/ /\ tree[job.tx].journal = Torn
          /\ tree' = [tree EXCEPT ![job.tx].journal = job.files]
    /\ UNCHANGED <<live, owner, used, up, todo, crashes, ghostVars>>
-----------------------------------------------------------------------------
(***************************************************************************)
(* Commit: file by file, the target to its backup and the payload to the   *)
(* target.  applied lists the files begun, for the rollback.               *)
(***************************************************************************)
Target == job.files[job.at].path

\* The transaction leaves memory, then its directory is removed.
EndTransaction(t, ok) ==
    /\ owner' = [x \in DOMAIN owner \ {t} |-> owner[x]]
    /\ job' = Removing({t}, "up")
    /\ undecided' = IF ok THEN undecided ELSE None

\* Mutant: the target is moved without looking whether it exists.
MoveToBackup_Unchecked ==
    /\ Phase = "apply" /\ job.at <= Len(job.files) /\ ~ job.moved
    /\ tree' = [tree EXCEPT ![job.tx].backup =
                  WithBackup(job.tx, job.at, live[Target])]
    /\ live' = [live EXCEPT ![Target] = Absent]
    /\ job' = [job EXCEPT !.moved = TRUE,
                 !.applied = Append(@, [at |-> job.at, installed |-> FALSE,
                                        backed_up |-> TRUE])]
    /\ UNCHANGED <<owner, used, up, todo, crashes, ghostVars>>

MoveToBackup ==
    /\ Phase = "apply" /\ job.at <= Len(job.files) /\ ~ job.moved
    /\ LET exists == live[Target] # Absent IN
       /\ tree' = IF exists
                  THEN [tree EXCEPT ![job.tx].backup =
                          WithBackup(job.tx, job.at, live[Target])]
                  ELSE tree
       /\ live' = [live EXCEPT ![Target] = Absent]
       /\ job' = [job EXCEPT !.moved = TRUE,
                    !.applied = Append(@, [at |-> job.at, installed |-> FALSE,
                                           backed_up |-> exists])]
    /\ UNCHANGED <<owner, used, up, todo, crashes, ghostVars>>

InstallPayload ==
    /\ Phase = "apply" /\ job.at <= Len(job.files) /\ job.moved
    /\ LET put == ~ job.files[job.at].remove IN
       /\ live' = IF put THEN [live EXCEPT ![Target] = job.tx] ELSE live
       /\ tree' = [tree EXCEPT ![job.tx].staged = @ \ {job.at}]
       /\ job' = [job EXCEPT !.at = @ + 1, !.moved = FALSE,
                    !.applied[Len(job.applied)].installed = put]
    /\ UNCHANGED <<owner, used, up, todo, crashes, ghostVars>>

\* Any of these operations, or the callback after a file, throws.
ApplyFails ==
    /\ Phase = "apply" /\ MayFail
    /\ job' = [phase |-> "rollback", tx |-> job.tx, files |-> job.files,
               applied |-> job.applied]
    /\ UNCHANGED <<live, tree, owner, used, up, todo, crashes, ghostVars>>

CommitDone ==
    /\ Phase = "apply" /\ job.at > Len(job.files)
    /\ EndTransaction(job.tx, TRUE)
    /\ UNCHANGED <<live, tree, used, up, todo, crashes, plan, done, before>>

\* Rollback, last file first: remove what was installed, then move the
\* backup back.  A file that fails is given up.
RolledBack(action) ==
    IF action.backed_up
    THEN [live EXCEPT ![job.files[action.at].path] = tree[job.tx].backup[action.at]]
    ELSE live

\* Mutant: removing what was installed is forgotten where nothing was there.
RollbackFile_KeepsNew ==
    /\ Phase = "rollback" /\ job.applied # <<>>
    /\ LET action == Last(job.applied) IN
       /\ live' = RolledBack(action)
       /\ tree' = [tree EXCEPT ![job.tx].backup = WithoutBackup(job.tx, action.at)]
       /\ job' = [job EXCEPT !.applied = Front(@)]
    /\ UNCHANGED <<owner, used, up, todo, crashes, ghostVars>>

RollbackFile ==
    /\ Phase = "rollback" /\ job.applied # <<>>
    /\ LET action == Last(job.applied)
           path == job.files[action.at].path IN
       IF action.installed
       THEN /\ live' = [live EXCEPT ![path] = Absent]
            /\ job' = [job EXCEPT !.applied[Len(job.applied)].installed = FALSE]
            /\ tree' = tree
       ELSE /\ live' = RolledBack(action)
            /\ tree' = [tree EXCEPT ![job.tx].backup =
                          WithoutBackup(job.tx, action.at)]
            /\ job' = [job EXCEPT !.applied = Front(@)]
    /\ UNCHANGED <<owner, used, up, todo, crashes, ghostVars>>

RollbackFails ==
    /\ Phase = "rollback" /\ job.applied # <<>> /\ MayFail
    /\ job' = [job EXCEPT !.applied = Front(@)]
    /\ UNCHANGED <<live, tree, owner, used, up, todo, crashes, ghostVars>>

RollbackDone ==
    /\ Phase = "rollback" /\ job.applied = <<>>
    /\ EndTransaction(job.tx, FALSE)
    /\ UNCHANGED <<live, tree, used, up, todo, crashes, plan, done, before>>
-----------------------------------------------------------------------------
(***************************************************************************)
(* RemoveTreeNoThrow, for one directory or several: one entry at a time,   *)
(* in any order, given up on an error.                                     *)
(***************************************************************************)
\* With the directory of a committed transaction goes the way back.
Decide(t) == /\ done' = IF undecided = t THEN done \cup {t} ELSE done
             /\ undecided' = IF undecided = t THEN None ELSE undecided
             /\ UNCHANGED <<plan, before>>

RemoveEntry(t) ==
    /\ Phase = "remove" /\ t \in job.trees
    /\ \/ /\ tree[t].journal # None
          /\ tree' = [tree EXCEPT ![t].journal = None]
       \/ \E i \in tree[t].staged : tree' = [tree EXCEPT ![t].staged = @ \ {i}]
       \/ \E i \in DOMAIN tree[t].backup :
             tree' = [tree EXCEPT ![t].backup = WithoutBackup(t, i)]
    /\ UNCHANGED <<live, owner, used, job, up, todo, crashes, ghostVars>>

RemoveRoot(t) ==
    /\ Phase = "remove" /\ t \in job.trees
    /\ tree[t] \in {EmptyTree, [EmptyTree EXCEPT !.reserved = TRUE]}
    /\ tree' = [tree EXCEPT ![t] = None]
    /\ job' = [job EXCEPT !.trees = @ \ {t}]
    /\ Decide(t)
    /\ UNCHANGED <<live, owner, used, up, todo, crashes>>

RemoveFails(t) ==
    /\ Phase = "remove" /\ t \in job.trees /\ MayFail
    /\ job' = [job EXCEPT !.trees = @ \ {t}]
    /\ Decide(t)
    /\ UNCHANGED <<live, tree, owner, used, up, todo, crashes>>

RemovalDone ==
    /\ Phase = "remove" /\ job.trees = {}
    /\ job' = None
    /\ up' = job.then
    /\ UNCHANGED <<live, tree, owner, used, todo, crashes, ghostVars>>

\* Abort, AbortPlugin and, on destruction, AbortAll.
AbortAll(ts, then) ==
    /\ up = "up" /\ job = None
    /\ owner' = [x \in DOMAIN owner \ ts |-> owner[x]]
    /\ job' = Removing(ts, then)
    /\ UNCHANGED <<live, tree, used, up, todo, crashes, ghostVars>>
Abort(t) == t \in DOMAIN owner /\ AbortAll({t}, "up")
AbortPlugin(p) == LET ts == {t \in DOMAIN owner : owner[t] = p}
                  IN  ts # {} /\ AbortAll(ts, "up")
Shutdown == AbortAll(DOMAIN owner, "down")
-----------------------------------------------------------------------------
(***************************************************************************)
(* Start: RecoverStagingTransactions visits every staging directory.  One  *)
(* with a journal is recovered, one without is removed.  A torn journal is *)
(* kept for the user, and the store does not open; but one cut inside its  *)
(* last path may read as complete, and restores nothing.                   *)
(***************************************************************************)
Start ==
    /\ up = "down"
    /\ up' = "starting"
    /\ todo' = {t \in Tx : tree[t] # None}
    /\ UNCHANGED <<live, tree, owner, used, job, crashes, ghostVars>>

Restoring(t) == [phase |-> "restore", tx |-> t, files |-> tree[t].journal,
                 at |-> Len(tree[t].journal)]

\* Mutant: a directory that could not be removed is visited again.
RecoverNext_Revisits(t) ==
    /\ up = "starting" /\ job = None
    /\ tree[t] # None
    /\ todo' = todo \ {t}
    /\ \/ tree[t].journal = Torn /\ job' = None /\ up' = "down"
       \/ /\ tree[t].journal \in {None, Torn}
          /\ job' = Removing({t}, "starting") /\ up' = up
       \/ Journaled(t) /\ job' = Restoring(t) /\ up' = up
    /\ UNCHANGED <<live, tree, owner, used, crashes, ghostVars>>

RecoverNext(t) ==
    /\ up = "starting" /\ job = None
    /\ t \in todo
    /\ todo' = todo \ {t}
    /\ \/ tree[t].journal = Torn /\ job' = None /\ up' = "down"
       \/ /\ tree[t].journal \in {None, Torn}
          /\ job' = Removing({t}, "starting") /\ up' = up
       \/ Journaled(t) /\ job' = Restoring(t) /\ up' = up
    /\ UNCHANGED <<live, tree, owner, used, crashes, ghostVars>>

\* RecoverTransaction, last file first: a backup replaces the target; a
\* target whose payload has left the staging directory was installed.
Restore ==
    /\ Phase = "restore" /\ job.at >= 1
    /\ IF HasBackup(job.tx, job.at)
       THEN IF live[Target] # Absent
            THEN /\ live' = [live EXCEPT ![Target] = Absent]
                 /\ UNCHANGED <<tree, job>>
            ELSE /\ live' = [live EXCEPT ![Target] = tree[job.tx].backup[job.at]]
                 /\ tree' = [tree EXCEPT ![job.tx].backup =
                               WithoutBackup(job.tx, job.at)]
                 /\ job' = [job EXCEPT !.at = @ - 1]
       ELSE /\ live' = IF ~ job.files[job.at].remove
                          /\ job.at \notin tree[job.tx].staged
                       THEN [live EXCEPT ![Target] = Absent]
                       ELSE live
            /\ tree' = tree
            /\ job' = [job EXCEPT !.at = @ - 1]
    /\ UNCHANGED <<owner, used, up, todo, crashes, ghostVars>>

\* An error leaves the directory, and the store does not open.
RestoreFails ==
    /\ Phase = "restore" /\ MayFail
    /\ job' = None
    /\ up' = "down"
    /\ UNCHANGED <<live, tree, owner, used, todo, crashes, ghostVars>>

RestoreDone ==
    /\ Phase = "restore" /\ job.at = 0
    /\ job' = Removing({job.tx}, "starting")
    /\ undecided' = IF undecided = job.tx THEN None ELSE undecided
    /\ UNCHANGED <<live, tree, owner, used, up, todo, crashes, plan, done, before>>

Opened ==
    /\ up = "starting" /\ job = None
    /\ todo = {}
    /\ up' = "up"
    /\ UNCHANGED <<live, tree, owner, used, job, todo, crashes, ghostVars>>

\* The process dies: memory is gone, files stay.
Crash ==
    /\ up # "down"
    /\ Phase \in CrashIn
    /\ crashes < MaxCrashes
    /\ crashes' = crashes + 1
    /\ up' = "down"
    /\ job' = None
    /\ owner' = <<>>
    /\ todo' = {}
    /\ UNCHANGED <<live, tree, used, ghostVars>>
-----------------------------------------------------------------------------
Init ==
    /\ live \in [Path -> {Absent, Old}]
    /\ tree = [t \in Tx |-> None]
    /\ owner = <<>>
    /\ used = {}
    /\ job = None
    /\ up = "down"
    /\ todo = {}
    /\ crashes = 0
    /\ plan = [t \in Tx |-> [put |-> {}, remove |-> {}]]
    /\ done = {}
    /\ undecided = None
    /\ before = live

Step ==
    \/ WriteJournal \/ JournalFails
    \/ MoveToBackup \/ InstallPayload \/ ApplyFails \/ CommitDone
    \/ RollbackFile \/ RollbackFails \/ RollbackDone
    \/ (\E t \in Tx : RemoveEntry(t) \/ RemoveRoot(t) \/ RemoveFails(t))
    \/ RemovalDone
    \/ (\E t \in Tx : RecoverNext(t))
    \/ Restore \/ RestoreFails \/ RestoreDone \/ Opened

Next ==
    \/ \E t \in Tx, p \in Plugin : Begin(t, p)
    \/ \E t \in Tx, fs \in FileLists : Commit(t, fs)
    \/ \E t \in Tx : Abort(t)
    \/ \E p \in Plugin : AbortPlugin(p)
    \/ Shutdown
    \/ Start
    \/ Step
    \/ Crash

Spec == Init /\ [][Next]_vars
FairSpec == Spec /\ WF_vars(Step)
-----------------------------------------------------------------------------
(***************************************************************************)
(* Properties                                                              *)
(***************************************************************************)
\* Every variable has its type.
TypeOK ==
    /\ live \in [Path -> Tx \cup {Absent, Old}]
    /\ tree \in [Tx -> Tree \cup {None}]
    /\ DOMAIN owner \subseteq used /\ used \subseteq Tx
    /\ \A t \in DOMAIN owner : owner[t] \in Plugin
    /\ job \in Job \cup {None}
    /\ up \in {"down", "starting", "up"}
    /\ todo \subseteq Tx
    /\ crashes \in 0 .. MaxCrashes
    /\ done \subseteq used /\ undecided \in Tx \cup {None}

\* A file changes only under a complete journal that names it.
ChangesAreJournaled ==
    [][\A p \in Path : live'[p] # live[p] =>
          \E t \in Tx : /\ Journaled(t)
                        /\ \E i \in DOMAIN tree[t].journal :
                              tree[t].journal[i].path = p]_vars

\* The files an outside reader may rely on: those before the transaction in
\* progress, until it is decided.
Logical == IF undecided = None THEN live ELSE before
Atomic == INSTANCE AtomicInstall WITH installed <- Logical

\* Commits, failures, interruptions and recoveries together change the files
\* by whole transactions.
ImplementsAtomicInstall == Atomic!Spec

\* The store finishes what it is doing: it opens, or refuses to.
StoreSettles == (job # None \/ up = "starting") ~> (job = None /\ up # "starting")
=============================================================================
