----------------------- MODULE PackageTransactionProofs -----------------------
(***************************************************************************)
(* Theorems about PackageTransaction, for any paths, transactions, plugins *)
(* and bounds: the types; that a file changes only under a complete        *)
(* journal that names it, wherever the process crashes or fails; and that  *)
(* files change by whole transactions, when a rollback, a recovery and a   *)
(* removal neither crash nor fail.                                         *)
(***************************************************************************)
EXTENDS PackageTransaction, SequenceTheorems, TLAPS

(***************************************************************************)
(* The shape of the state, in every phase and after every failure          *)
(***************************************************************************)
Kept(t) == tree[t] # None
Owned == DOMAIN owner

\* Which directories there are, and who holds them.
Directories ==
    /\ \A t \in Tx : Kept(t) => t \in used
    /\ \A t \in Owned \cup todo : Kept(t)
    /\ up # "up" => Owned = {}
    /\ up = "up" => todo = {}
    /\ up = "down" => job = None

\* The i-th file begun is file i of the list, and has the backup it says.
AppliedMatches ==
    \A k \in 1 .. Len(job.applied) :
       /\ job.applied[k].at = k
       /\ job.applied[k].backed_up => HasBackup(job.tx, k)

JobMatches ==
    /\ Phase \in {"journal", "apply", "rollback"} => up = "up" /\ job.tx \in Owned
    /\ Phase \in {"apply", "rollback", "restore"} =>
          Kept(job.tx) /\ tree[job.tx].journal = job.files
    /\ Phase = "apply" =>
          /\ job.at \in 1 .. Len(job.files) + 1
          /\ job.moved => job.at <= Len(job.files)
          /\ Len(job.applied) = IF job.moved THEN job.at ELSE job.at - 1
          /\ AppliedMatches
    /\ Phase = "rollback" => Len(job.applied) <= Len(job.files) /\ AppliedMatches
    /\ Phase = "restore" => /\ up = "starting" /\ job.tx \notin todo
                            /\ job.at \in 0 .. Len(job.files)
    /\ Phase = "remove" => /\ \A t \in job.trees : Kept(t) /\ t \notin Owned \cup todo
                           /\ job.then = "starting" <=> up = "starting"
                           /\ up # "up" => job.then = up
                           /\ job.then = "down" => Owned = {}
Shape == TypeOK /\ Directories /\ JobMatches

(***************************************************************************)
(* What makes it atomic, when a rollback, a recovery and a removal run to  *)
(* their end                                                               *)
(***************************************************************************)
Guarded == {"idle", "journal", "apply"}

OthersKept(fs) ==
    \A p \in Path : (\A i \in DOMAIN fs : fs[i].path # p) => live[p] = before[p]

\* The files are those of the transaction, or as it found them.
Outcome(t) == [p \in Path |-> IF p \in plan[t].put THEN t
                              ELSE IF p \in plan[t].remove THEN Absent
                              ELSE before[p]]
Planned(t, fs) ==
    plan[t] = [put |-> {fs[i].path : i \in Puts(fs)},
               remove |-> {fs[i].path : i \in DOMAIN fs \ Puts(fs)}]

\* A recovery gets the file back: from its backup, or because it was not
\* begun, or by removing what was installed where there was nothing.
BackedUp(t, fs, i) == HasBackup(t, i) /\ tree[t].backup[i] = before[fs[i].path]
Recoverable(t, fs, i) ==
    \/ BackedUp(t, fs, i)
    \/ /\ ~ HasBackup(t, i)
       /\ \/ live[fs[i].path] = before[fs[i].path] /\ (~ fs[i].remove => i \in tree[t].staged)
          \/ /\ before[fs[i].path] = Absent
             /\ live[fs[i].path] = Absent \/ (~ fs[i].remove /\ i \notin tree[t].staged)
Interrupted(t) ==
    /\ Journaled(t)
    /\ OthersKept(tree[t].journal)
    /\ \A i \in DOMAIN tree[t].journal : Recoverable(t, tree[t].journal, i)

\* File i is begun: its backup is there if it existed.
Begun(t, fs, i, action) ==
    /\ action.backed_up <=> before[fs[i].path] # Absent
    /\ IF action.backed_up THEN BackedUp(t, fs, i) ELSE ~ HasBackup(t, i)
    /\ live[fs[i].path] = IF action.installed THEN t ELSE Absent

\* File i is not begun.
NotBegun(t, fs, i) ==
    /\ live[fs[i].path] = before[fs[i].path]
    /\ ~ HasBackup(t, i)
    /\ ~ fs[i].remove => i \in tree[t].staged

\* A journal nothing was done for: its recovery changes nothing.
Untouched(t) ==
    Journaled(t) => DOMAIN tree[t].backup = {} /\ Puts(tree[t].journal) \subseteq tree[t].staged

Resting(t) == t # undecided /\ ~ (Phase = "remove" /\ t \in job.trees)
AtRest ==
    /\ \A t \in Tx : Kept(t) /\ Resting(t) => Untouched(t)
    /\ \A t \in Owned : ~ tree[t].reserved => tree[t].journal = None /\ tree[t].backup = <<>>
    /\ Owned \cap done = {}

Journaling ==
    Phase = "journal" =>
       /\ undecided = None
       /\ tree[job.tx].journal \in {None, Torn}
       /\ tree[job.tx].backup = <<>> /\ tree[job.tx].reserved
       /\ tree[job.tx].staged = Puts(job.files)
       /\ Planned(job.tx, job.files)

\* File i while the files are moved, rolled back, and recovered.
FileApplying(i) ==
    IF i <= Len(job.applied)
    THEN /\ Begun(job.tx, job.files, i, job.applied[i])
         /\ i < job.at => /\ job.applied[i].installed = ~ job.files[i].remove
                          /\ i \notin tree[job.tx].staged
         /\ i = job.at => /\ ~ job.applied[i].installed
                          /\ ~ job.files[i].remove => i \in tree[job.tx].staged
    ELSE NotBegun(job.tx, job.files, i)
FileRollingBack(i) ==
    IF i <= Len(job.applied)
    THEN Begun(job.tx, job.files, i, job.applied[i])
    ELSE live[job.files[i].path] = before[job.files[i].path]
FileRestoring(i) ==
    IF i <= job.at
    THEN Recoverable(job.tx, job.files, i)
    ELSE live[job.files[i].path] = before[job.files[i].path]

Applying ==
    Phase = "apply" =>
       /\ undecided = job.tx
       /\ Planned(job.tx, job.files)
       /\ OthersKept(job.files)
       /\ \A i \in 1 .. Len(job.files) : FileApplying(i)

RollingBack ==
    Phase = "rollback" =>
       /\ undecided = job.tx
       /\ OthersKept(job.files)
       /\ \A i \in 1 .. Len(job.files) : FileRollingBack(i)

RestoringIt ==
    Phase = "restore" /\ undecided = job.tx =>
       /\ OthersKept(job.files)
       /\ \A i \in 1 .. Len(job.files) : FileRestoring(i)

Undecided ==
    undecided # None =>
       /\ undecided \notin done
       /\ \/ Phase \in {"apply", "rollback", "restore"} /\ job.tx = undecided
          \/ /\ Phase = "remove" /\ undecided \in job.trees
             /\ up = "up" /\ live = Outcome(undecided)
          \/ up = "down" /\ Interrupted(undecided)
          \/ up = "starting" /\ undecided \in todo /\ Interrupted(undecided)

Histories ==
    /\ DOMAIN plan = Tx
    /\ before \in [Path -> Tx \cup {Absent, Old}]

Safe == Histories /\ AtRest /\ Journaling /\ Applying /\ RollingBack /\ RestoringIt /\ Undecided
-----------------------------------------------------------------------------
(***************************************************************************)
(* Lemmas about the data                                                   *)
(***************************************************************************)
\* A list of files is a sequence of distinct targets.
LEMMA Lists ==
    ASSUME NEW fs \in FileLists
    PROVE  /\ fs \in Seq(File) /\ Len(fs) \in 1 .. MaxFiles /\ DOMAIN fs = 1 .. Len(fs)
           /\ \A i \in 1 .. Len(fs) : fs[i].path \in Path /\ fs[i].remove \in BOOLEAN
           /\ \A i, j \in 1 .. Len(fs) : fs[i].path = fs[j].path => i = j
           /\ Puts(fs) \subseteq 1 .. MaxFiles
           /\ fs # None /\ fs # Torn
<1>1. PICK n \in 1 .. MaxFiles : fs \in [1 .. n -> File]
  BY DEF FileLists
<1>2. n \in Nat
  BY <1>1, BoundAssumption
<1>3. fs \in Seq(File)
  BY <1>1, <1>2, SeqDef
<1>4. Len(fs) = n /\ DOMAIN fs = 1 .. n
  BY <1>1, <1>2, <1>3, LenProperties
<1>5. \A i \in 1 .. n : fs[i] \in File
  BY <1>1
<1>6. \A i \in 1 .. n : fs[i].path \in Path /\ fs[i].remove \in BOOLEAN
  BY <1>5, Zenon DEF File
<1>7. \A i, j \in DOMAIN fs : fs[i].path = fs[j].path => i = j
  BY DEF FileLists
<1>8. Puts(fs) \subseteq 1 .. MaxFiles
  BY <1>1, <1>4, BoundAssumption DEF Puts
<1>9. fs # None /\ fs # Torn
  BY MarkAssumption
<1> QED
  BY <1>1, <1>3, <1>4, <1>6, <1>7, <1>8, <1>9

\* Backups are kept by file number.
LEMMA BackupTypes ==
    /\ \A b \in Backups : /\ b \in [DOMAIN b -> Tx \cup {Old}]
                          /\ DOMAIN b \subseteq 1 .. MaxFiles
    /\ \A ns \in SUBSET (1 .. MaxFiles) : [ns -> Tx \cup {Old}] \subseteq Backups
    /\ <<>> \in Backups /\ DOMAIN <<>> = {}
    /\ \A b \in Backups : DOMAIN b = {} => b = <<>>
<1>1. \A b \in Backups : b \in [DOMAIN b -> Tx \cup {Old}] /\ DOMAIN b \subseteq 1 .. MaxFiles
  BY DEF Backups
<1>2. \A ns \in SUBSET (1 .. MaxFiles) : [ns -> Tx \cup {Old}] \subseteq Backups
  BY DEF Backups
<1>3. DOMAIN <<>> = {}
  OBVIOUS
<1>4. <<>> \in [{} -> Tx \cup {Old}]
  OBVIOUS
<1>5. <<>> \in Backups
  BY <1>2, <1>4
<1>6. ASSUME NEW b \in Backups, DOMAIN b = {}
      PROVE  b = <<>>
  BY <1>1, <1>4, <1>6
<1> QED
  BY <1>1, <1>2, <1>3, <1>5, <1>6

\* The fields of a directory.
LEMMA TreeFields ==
    ASSUME NEW r \in Tree
    PROVE  /\ r.reserved \in BOOLEAN /\ r.journal \in FileLists \cup {None, Torn}
           /\ r.staged \subseteq 1 .. MaxFiles /\ r.backup \in Backups
           /\ r = [reserved |-> r.reserved, journal |-> r.journal, staged |-> r.staged,
                   backup |-> r.backup]
BY DEF Tree

Made(a, j, s, b) == [reserved |-> a, journal |-> j, staged |-> s, backup |-> b]

LEMMA TreeMade ==
    ASSUME NEW a \in BOOLEAN, NEW j \in FileLists \cup {None, Torn},
           NEW s \in SUBSET (1 .. MaxFiles), NEW b \in Backups
    PROVE  Made(a, j, s, b) \in Tree
BY DEF Tree, Made

\* A directory with one more, or one fewer, backup.
LEMMA BackupEdits ==
    ASSUME NEW t \in Tx, tree[t] \in Tree, NEW i \in 1 .. MaxFiles
    PROVE  /\ \A c \in Tx \cup {Old} : WithBackup(t, i, c) \in Backups
           /\ \A c : DOMAIN WithBackup(t, i, c) = DOMAIN tree[t].backup \cup {i}
           /\ \A c : WithBackup(t, i, c)[i] = c
           /\ \A c : \A n \in DOMAIN tree[t].backup \ {i} :
                 WithBackup(t, i, c)[n] = tree[t].backup[n]
           /\ WithoutBackup(t, i) \in Backups
           /\ DOMAIN WithoutBackup(t, i) = DOMAIN tree[t].backup \ {i}
           /\ \A n \in DOMAIN tree[t].backup \ {i} : WithoutBackup(t, i)[n] = tree[t].backup[n]
<1> DEFINE b == tree[t].backup
<1>1. b \in [DOMAIN b -> Tx \cup {Old}] /\ DOMAIN b \subseteq 1 .. MaxFiles
  BY TreeFields, BackupTypes
<1>2. \A c \in Tx \cup {Old} : WithBackup(t, i, c) \in [DOMAIN b \cup {i} -> Tx \cup {Old}]
  BY <1>1 DEF WithBackup
<1>3. WithoutBackup(t, i) \in [DOMAIN b \ {i} -> Tx \cup {Old}]
  BY <1>1 DEF WithoutBackup
<1>4. \A ns \in SUBSET (1 .. MaxFiles) : [ns -> Tx \cup {Old}] \subseteq Backups
  BY BackupTypes
<1>5. DOMAIN b \cup {i} \in SUBSET (1 .. MaxFiles) /\ DOMAIN b \ {i} \in SUBSET (1 .. MaxFiles)
  BY <1>1
<1>6. (\A c \in Tx \cup {Old} : WithBackup(t, i, c) \in Backups) /\ WithoutBackup(t, i) \in Backups
  BY <1>2, <1>3, <1>4, <1>5
<1>7. /\ \A c : DOMAIN WithBackup(t, i, c) = DOMAIN b \cup {i}
      /\ \A c : WithBackup(t, i, c)[i] = c
      /\ \A c : \A n \in DOMAIN b \ {i} : WithBackup(t, i, c)[n] = b[n]
  BY DEF WithBackup
<1>8. /\ DOMAIN WithoutBackup(t, i) = DOMAIN b \ {i}
      /\ \A n \in DOMAIN b \ {i} : WithoutBackup(t, i)[n] = b[n]
  BY DEF WithoutBackup
<1> QED
  BY <1>6, <1>7, <1>8

\* The fields of a job are those of its phase.
LEMMA JobFields ==
    ASSUME NEW j \in Job
    PROVE  /\ j # None
           /\ j.phase \in {"journal", "apply", "rollback", "restore", "remove"}
           /\ j.phase = "journal" => j \in JournalJob
           /\ j.phase = "apply" => j \in ApplyJob
           /\ j.phase = "rollback" => j \in RollbackJob
           /\ j.phase = "restore" => j \in RestoreJob
           /\ j.phase = "remove" => j \in RemoveJob
<1>1. j # None
  BY MarkAssumption
<1>2. CASE j \in JournalJob
  BY <1>1, <1>2 DEF JournalJob
<1>3. CASE j \in ApplyJob
  BY <1>1, <1>3 DEF ApplyJob
<1>4. CASE j \in RollbackJob
  BY <1>1, <1>4 DEF RollbackJob
<1>5. CASE j \in RestoreJob
  BY <1>1, <1>5 DEF RestoreJob
<1>6. CASE j \in RemoveJob
  BY <1>1, <1>6 DEF RemoveJob
<1> QED
  BY <1>2, <1>3, <1>4, <1>5, <1>6 DEF Job

\* The phase, and the types its job has.
LEMMA JobTypes ==
    ASSUME TypeOK
    PROVE  /\ Phase \in {"idle", "journal", "apply", "rollback", "restore", "remove"}
           /\ Phase = "idle" <=> job = None
           /\ Phase = "journal" => job \in JournalJob /\ job.tx \in Tx /\ job.files \in FileLists
           /\ Phase = "apply" => /\ job \in ApplyJob /\ job.tx \in Tx /\ job.files \in FileLists
                                 /\ job.at \in Nat /\ job.moved \in BOOLEAN
                                 /\ job.applied \in Seq(Action)
           /\ Phase = "rollback" => /\ job \in RollbackJob /\ job.tx \in Tx
                                    /\ job.files \in FileLists /\ job.applied \in Seq(Action)
           /\ Phase = "restore" => /\ job \in RestoreJob /\ job.tx \in Tx
                                   /\ job.files \in FileLists /\ job.at \in Nat
           /\ Phase = "remove" => /\ job \in RemoveJob /\ job.trees \subseteq Tx
                                  /\ job.then \in {"up", "starting", "down"}
<1>1. job # None => job \in Job
  BY DEF TypeOK
<1>2. CASE job = None
  BY <1>2 DEF Phase
<1>3. CASE job # None
  <2>1. Phase = job.phase /\ job \in Job
    BY <1>1, <1>3 DEF Phase
  <2>2. Phase \in {"journal", "apply", "rollback", "restore", "remove"}
    BY <2>1, JobFields
  <2>3. CASE Phase = "journal"
    BY <2>1, <2>3, JobFields, <1>3 DEF JournalJob
  <2>4. CASE Phase = "apply"
    BY <2>1, <2>4, JobFields, <1>3 DEF ApplyJob
  <2>5. CASE Phase = "rollback"
    BY <2>1, <2>5, JobFields, <1>3 DEF RollbackJob
  <2>6. CASE Phase = "restore"
    BY <2>1, <2>6, JobFields, <1>3 DEF RestoreJob
  <2>7. CASE Phase = "remove"
    BY <2>1, <2>7, JobFields, <1>3 DEF RemoveJob
  <2> QED
    BY <2>2, <2>3, <2>4, <2>5, <2>6, <2>7
<1> QED
  BY <1>2, <1>3

\* A change of one field of a directory is a change of the directory.
LEMMA Edits ==
    ASSUME TypeOK, NEW t \in Tx, Kept(t)
    PROVE  LET r == tree[t] IN
           /\ r \in Tree
           /\ \A j : [tree EXCEPT ![t].journal = j]
                     = [tree EXCEPT ![t] = Made(r.reserved, j, r.staged, r.backup)]
           /\ \A s : [tree EXCEPT ![t].staged = s]
                     = [tree EXCEPT ![t] = Made(r.reserved, r.journal, s, r.backup)]
           /\ \A b : [tree EXCEPT ![t].backup = b]
                     = [tree EXCEPT ![t] = Made(r.reserved, r.journal, r.staged, b)]
           /\ \A s, a : [tree EXCEPT ![t].staged = s, ![t].reserved = a]
                        = [tree EXCEPT ![t] = Made(a, r.journal, s, r.backup)]
<1> DEFINE r == tree[t]
<1>1. r \in Tree /\ tree \in [Tx -> Tree \cup {None}]
  BY DEF TypeOK, Kept
<1>2. r = Made(r.reserved, r.journal, r.staged, r.backup)
  BY <1>1, TreeFields DEF Made
<1>3. ASSUME NEW j
      PROVE  [r EXCEPT !.journal = j] = Made(r.reserved, j, r.staged, r.backup)
  BY <1>2 DEF Made
<1>4. ASSUME NEW s
      PROVE  [r EXCEPT !.staged = s] = Made(r.reserved, r.journal, s, r.backup)
  BY <1>2 DEF Made
<1>5. ASSUME NEW b
      PROVE  [r EXCEPT !.backup = b] = Made(r.reserved, r.journal, r.staged, b)
  BY <1>2 DEF Made
<1>6. ASSUME NEW s, NEW a
      PROVE  [r EXCEPT !.staged = s, !.reserved = a] = Made(a, r.journal, s, r.backup)
  <2> DEFINE q == Made(r.reserved, r.journal, s, r.backup)
  <2>1. [r EXCEPT !.staged = s, !.reserved = a] = [[r EXCEPT !.staged = s] EXCEPT !.reserved = a]
    OBVIOUS
  <2>2. [r EXCEPT !.staged = s] = q
    BY <1>4
  <2>3. [q EXCEPT !.reserved = a] = Made(a, r.journal, s, r.backup)
    BY DEF Made
  <2> QED
    BY <2>1, <2>2, <2>3, Zenon
<1>7. ASSUME NEW j, NEW s, NEW b
      PROVE  /\ [tree EXCEPT ![t].journal = j] = [tree EXCEPT ![t] = [r EXCEPT !.journal = j]]
             /\ [tree EXCEPT ![t].staged = s] = [tree EXCEPT ![t] = [r EXCEPT !.staged = s]]
             /\ [tree EXCEPT ![t].backup = b] = [tree EXCEPT ![t] = [r EXCEPT !.backup = b]]
  <2>1. [tree EXCEPT ![t].journal = j] = [tree EXCEPT ![t] = [r EXCEPT !.journal = j]]
    OBVIOUS
  <2>2. [tree EXCEPT ![t].staged = s] = [tree EXCEPT ![t] = [r EXCEPT !.staged = s]]
    OBVIOUS
  <2>3. [tree EXCEPT ![t].backup = b] = [tree EXCEPT ![t] = [r EXCEPT !.backup = b]]
    OBVIOUS
  <2> QED
    BY <2>1, <2>2, <2>3
<1>8. ASSUME NEW s, NEW a
      PROVE  [tree EXCEPT ![t].staged = s, ![t].reserved = a]
             = [tree EXCEPT ![t] = [r EXCEPT !.staged = s, !.reserved = a]]
  <2> DEFINE f == [tree EXCEPT ![t].staged = s]
  <2>1. f = [tree EXCEPT ![t] = [r EXCEPT !.staged = s]]
    BY <1>7
  <2>2. DOMAIN f = Tx /\ f[t] = [r EXCEPT !.staged = s] /\ \A x \in Tx \ {t} : f[x] = tree[x]
    BY <2>1, <1>1
  <2>3. [tree EXCEPT ![t].staged = s, ![t].reserved = a] = [f EXCEPT ![t].reserved = a]
    OBVIOUS
  <2>4. [f EXCEPT ![t].reserved = a] = [f EXCEPT ![t] = [f[t] EXCEPT !.reserved = a]]
    BY <2>2
  <2>5. [f[t] EXCEPT !.reserved = a] = [r EXCEPT !.staged = s, !.reserved = a]
    BY <2>2
  <2>6. [f EXCEPT ![t] = [f[t] EXCEPT !.reserved = a]]
        = [tree EXCEPT ![t] = [f[t] EXCEPT !.reserved = a]]
    BY <2>2, <1>1
  <2> QED
    BY <2>3, <2>4, <2>5, <2>6
<1>9. \A j : [tree EXCEPT ![t].journal = j]
              = [tree EXCEPT ![t] = Made(r.reserved, j, r.staged, r.backup)]
  BY <1>3, <1>7
<1>10. \A s : [tree EXCEPT ![t].staged = s]
               = [tree EXCEPT ![t] = Made(r.reserved, r.journal, s, r.backup)]
  BY <1>4, <1>7
<1>11. \A b : [tree EXCEPT ![t].backup = b]
               = [tree EXCEPT ![t] = Made(r.reserved, r.journal, r.staged, b)]
  BY <1>5, <1>7
<1>12. ASSUME NEW s, NEW a
       PROVE  [tree EXCEPT ![t].staged = s, ![t].reserved = a]
              = [tree EXCEPT ![t] = Made(a, r.journal, s, r.backup)]
  <2>1. [tree EXCEPT ![t].staged = s, ![t].reserved = a]
        = [tree EXCEPT ![t] = [r EXCEPT !.staged = s, !.reserved = a]]
    BY <1>8
  <2>2. [r EXCEPT !.staged = s, !.reserved = a] = Made(a, r.journal, s, r.backup)
    BY <1>6
  <2> QED
    BY <2>1, <2>2, Zenon
<1> QED
  BY <1>1, <1>9, <1>10, <1>11, <1>12

\* The action an entry of applied records, with another outcome.
LEMMA Installs ==
    ASSUME NEW s \in Seq(Action), s # <<>>, NEW put \in BOOLEAN
    PROVE  LET k == Len(s)
               a == [at |-> s[k].at, installed |-> put, backed_up |-> s[k].backed_up]
           IN  /\ k \in Nat \ {0} /\ a \in Action
               /\ [s EXCEPT ![k].installed = put] = [s EXCEPT ![k] = a]
               /\ [s EXCEPT ![k] = a] \in Seq(Action) /\ Len([s EXCEPT ![k] = a]) = k
               /\ [s EXCEPT ![k] = a][k] = a
               /\ \A i \in 1 .. k : i # k => [s EXCEPT ![k] = a][i] = s[i]
<1> DEFINE k == Len(s)
           a == [at |-> s[k].at, installed |-> put, backed_up |-> s[k].backed_up]
<1>1. k \in Nat \ {0}
  BY EmptySeq
<1>2. s[k] \in Action
  BY <1>1, ElementOfSeq
<1>3. a \in Action
  BY <1>2 DEF Action
<1>4. [s[k] EXCEPT !.installed = put] = a
  BY <1>2 DEF Action
<1>5. [s EXCEPT ![k].installed = put] = [s EXCEPT ![k] = [s[k] EXCEPT !.installed = put]]
  OBVIOUS
<1>6. [s EXCEPT ![k].installed = put] = [s EXCEPT ![k] = a]
  BY <1>4, <1>5, Zenon
<1> HIDE DEF a
<1>7. k \in 1 .. Len(s)
  BY <1>1
<1>8. /\ [s EXCEPT ![k] = a] \in Seq(Action) /\ Len([s EXCEPT ![k] = a]) = k
      /\ \A i \in 1 .. Len(s) : [s EXCEPT ![k] = a][i] = IF i = k THEN a ELSE s[i]
  BY <1>3, <1>7, ExceptSeq
<1>9. a = [at |-> s[k].at, installed |-> put, backed_up |-> s[k].backed_up]
  BY DEF a
<1> QED
  BY <1>1, <1>3, <1>6, <1>7, <1>8, <1>9

\* All but the last.
LEMMA Fronts ==
    ASSUME NEW s \in Seq(Action), s # <<>>
    PROVE  /\ Front(s) \in Seq(Action) /\ Len(Front(s)) = Len(s) - 1 /\ Len(s) \in Nat \ {0}
           /\ \A i \in 1 .. Len(s) - 1 : Front(s)[i] = s[i]
           /\ Last(s) = s[Len(s)] /\ Last(s) \in Action
<1>1. Len(s) \in Nat /\ Len(s) >= 1
  BY EmptySeq
<1>2. \A i \in 1 .. Len(s) : s[i] \in Action
  BY ElementOfSeq
<1> DEFINE n == Len(s) - 1
           t == SubSeq(s, 1, n)
<1>3. n \in Nat
  BY <1>1
<1>4. \A i \in 1 .. n : s[i] \in Action
  BY <1>1, <1>2
<1> HIDE DEF n
<1>5. /\ t \in Seq(Action)
      /\ Len(t) = IF 1 <= n THEN n - 1 + 1 ELSE 0
      /\ \A i \in 1 .. n - 1 + 1 : t[i] = s[1 + i - 1]
  BY <1>3, <1>4, SubSeqProperties
<1> HIDE DEF t
<1>6. Len(t) = n /\ \A i \in 1 .. n : t[i] = s[i]
  BY <1>3, <1>5
<1>7. Len(s) \in Nat \ {0} /\ s[Len(s)] \in Action
  BY <1>1, <1>2
<1> QED
  BY <1>5, <1>6, <1>7 DEF Front, Last, n, t

\* What the changes of a job give.
LEMMA ApplyEdits ==
    ASSUME NEW j \in ApplyJob
    PROVE  /\ \A m, s : [j EXCEPT !.moved = m, !.applied = s]
                        = [phase |-> "apply", tx |-> j.tx, files |-> j.files, at |-> j.at,
                           moved |-> m, applied |-> s]
           /\ \A n, m, s : [j EXCEPT !.at = n, !.moved = m, !.applied = s]
                           = [phase |-> "apply", tx |-> j.tx, files |-> j.files, at |-> n,
                              moved |-> m, applied |-> s]
<1> DEFINE M(n, m, s) == [phase |-> "apply", tx |-> j.tx, files |-> j.files, at |-> n,
                          moved |-> m, applied |-> s]
<1>1. j = M(j.at, j.moved, j.applied)
  BY DEF ApplyJob
<1>2. ASSUME NEW n, NEW m, NEW s, NEW v
      PROVE  /\ [M(n, m, s) EXCEPT !.at = v] = M(v, m, s)
             /\ [M(n, m, s) EXCEPT !.moved = v] = M(n, v, s)
             /\ [M(n, m, s) EXCEPT !.applied = v] = M(n, m, v)
  OBVIOUS
<1>3. ASSUME NEW m, NEW s
      PROVE  [j EXCEPT !.moved = m, !.applied = s] = M(j.at, m, s)
  <2>1. [j EXCEPT !.moved = m, !.applied = s] = [[j EXCEPT !.moved = m] EXCEPT !.applied = s]
    OBVIOUS
  <2>2. [j EXCEPT !.moved = m] = M(j.at, m, j.applied)
    BY <1>1, <1>2
  <2>3. [M(j.at, m, j.applied) EXCEPT !.applied = s] = M(j.at, m, s)
    BY <1>2
  <2> HIDE DEF M
  <2> QED
    BY <2>1, <2>2, <2>3
<1>4. ASSUME NEW n, NEW m, NEW s
      PROVE  [j EXCEPT !.at = n, !.moved = m, !.applied = s] = M(n, m, s)
  <2>1. [j EXCEPT !.at = n, !.moved = m, !.applied = s]
        = [[[j EXCEPT !.at = n] EXCEPT !.moved = m] EXCEPT !.applied = s]
    OBVIOUS
  <2>2. [j EXCEPT !.at = n] = M(n, j.moved, j.applied)
    BY <1>1, <1>2
  <2>3. [M(n, j.moved, j.applied) EXCEPT !.moved = m] = M(n, m, j.applied)
    BY <1>2
  <2>4. [M(n, m, j.applied) EXCEPT !.applied = s] = M(n, m, s)
    BY <1>2
  <2> HIDE DEF M
  <2> QED
    BY <2>1, <2>2, <2>3, <2>4
<1> QED
  BY <1>3, <1>4
-----------------------------------------------------------------------------
(***************************************************************************)
(* What the steps do                                                       *)
(***************************************************************************)
DirectoryBecomes(t, a, j, s, b) ==
    /\ tree' \in [Tx -> Tree \cup {None}]
    /\ tree'[t] \in Tree /\ tree'[t] # None
    /\ tree'[t].reserved = a /\ tree'[t].journal = j
    /\ tree'[t].staged = s /\ tree'[t].backup = b
    /\ \A x \in Tx \ {t} : tree'[x] = tree[x]

\* One directory is written, the others stay.
LEMMA Becomes ==
    ASSUME TypeOK, NEW t \in Tx, NEW a \in BOOLEAN, NEW j \in FileLists \cup {None, Torn},
           NEW s \in SUBSET (1 .. MaxFiles), NEW b \in Backups,
           tree' = [tree EXCEPT ![t] = Made(a, j, s, b)]
    PROVE  DirectoryBecomes(t, a, j, s, b)
<1> DEFINE r == Made(a, j, s, b)
<1>1. r \in Tree /\ r # None
  BY TreeMade, MarkAssumption
<1>2. r.reserved = a /\ r.journal = j /\ r.staged = s /\ r.backup = b
  BY DEF Made
<1> HIDE DEF r
<1>3. tree \in [Tx -> Tree \cup {None}]
  BY DEF TypeOK
<1>4. tree' = [tree EXCEPT ![t] = r]
  BY DEF r
<1>5. tree' \in [Tx -> Tree \cup {None}] /\ tree'[t] = r /\ \A x \in Tx \ {t} : tree'[x] = tree[x]
  BY <1>1, <1>3, <1>4
<1> QED
  BY <1>1, <1>2, <1>5 DEF DirectoryBecomes

\* The phase after a step that leaves a job.
LEMMA NextPhase ==
    ASSUME job' \in Job
    PROVE  Phase' = job'.phase
BY JobFields DEF Phase

\* The directory a commit works on.
LEMMA Working ==
    ASSUME Shape, Phase \in {"journal", "apply", "rollback", "restore"}
    PROVE  /\ job.tx \in Tx /\ Kept(job.tx) /\ tree[job.tx] \in Tree
           /\ tree[job.tx].reserved \in BOOLEAN
           /\ tree[job.tx].journal \in FileLists \cup {None, Torn}
           /\ tree[job.tx].staged \in SUBSET (1 .. MaxFiles) /\ tree[job.tx].backup \in Backups
           /\ job.files \in FileLists
<1>1. job.tx \in Tx /\ job.files \in FileLists
  BY JobTypes DEF Shape
<1>2. Kept(job.tx)
  BY DEF Shape, Directories, JobMatches
<1>3. tree[job.tx] \in Tree
  BY <1>1, <1>2 DEF Shape, TypeOK, Kept
<1> QED
  BY <1>1, <1>2, <1>3, TreeFields

\* Begin makes an empty directory.
LEMMA BeginEffect ==
    ASSUME Shape, NEW t \in Tx, NEW p \in Plugin, Begin(t, p)
    PROVE  /\ DirectoryBecomes(t, FALSE, None, {}, <<>>)
           /\ ~ Kept(t) /\ t \notin Owned
           /\ Owned' = Owned \cup {t} /\ \A x \in Owned' : owner'[x] \in Plugin
<1>1. EmptyTree = Made(FALSE, None, {}, <<>>)
  BY DEF EmptyTree, Made
<1>2. DirectoryBecomes(t, FALSE, None, {}, <<>>)
  BY <1>1, Becomes, BackupTypes DEF Begin, Shape
<1>3. ~ Kept(t) /\ t \notin Owned
  BY DEF Begin, Shape, Directories, Owned
<1>4. Owned' = Owned \cup {t} /\ \A x \in Owned' : owner'[x] \in Plugin
  BY DEF Begin, Owned, Shape, TypeOK
<1> QED
  BY <1>2, <1>3, <1>4

\* Commit fills the directory of its transaction.
LEMMA CommitEffect ==
    ASSUME Shape, NEW t \in Tx, NEW fs \in FileLists, Commit(t, fs)
    PROVE  /\ t \in Owned /\ Kept(t) /\ tree[t] \in Tree
           /\ DirectoryBecomes(t, TRUE, tree[t].journal, Puts(fs), tree[t].backup)
           /\ job' \in JournalJob /\ job' \in Job /\ Phase' = "journal"
           /\ job'.tx = t /\ job'.files = fs
<1>1. t \in Owned /\ Kept(t)
  BY DEF Commit, Owned, Shape, Directories
<1>2. tree[t] \in Tree
  BY <1>1 DEF Shape, TypeOK, Kept
<1>3. tree' = [tree EXCEPT ![t] = Made(TRUE, tree[t].journal, Puts(fs), tree[t].backup)]
  <2>1. tree' = [tree EXCEPT ![t].staged = Puts(fs), ![t].reserved = TRUE]
    BY DEF Commit
  <2>2. \A s, a : [tree EXCEPT ![t].staged = s, ![t].reserved = a]
                  = [tree EXCEPT ![t] = Made(a, tree[t].journal, s, tree[t].backup)]
    BY <1>1, Edits DEF Shape
  <2>3. [tree EXCEPT ![t].staged = Puts(fs), ![t].reserved = TRUE]
        = [tree EXCEPT ![t] = Made(TRUE, tree[t].journal, Puts(fs), tree[t].backup)]
    BY <2>2, Zenon
  <2> QED
    BY <2>1, <2>3, Zenon
<1>4. DirectoryBecomes(t, TRUE, tree[t].journal, Puts(fs), tree[t].backup)
  BY <1>2, <1>3, Becomes, TreeFields, Lists DEF Shape
<1>5. job' \in JournalJob /\ job'.phase = "journal" /\ job'.tx = t /\ job'.files = fs
  BY DEF Commit, JournalJob
<1>6. job' \in Job
  BY <1>5 DEF Job
<1> QED
  BY <1>1, <1>2, <1>4, <1>5, <1>6, NextPhase

\* The journal is opened, then complete, and the files are begun.
LEMMA WriteJournalEffect ==
    ASSUME Shape, WriteJournal
    PROVE  LET t == job.tx
               r == tree[t]
           IN  \/ /\ r.journal = None /\ job' = job /\ UNCHANGED <<undecided, before>>
                  /\ DirectoryBecomes(t, r.reserved, Torn, r.staged, r.backup)
               \/ /\ r.journal # None /\ undecided' = t /\ before' = live
                  /\ DirectoryBecomes(t, r.reserved, job.files, r.staged, r.backup)
                  /\ job' \in ApplyJob /\ job' \in Job /\ Phase' = "apply"
                  /\ job'.tx = t /\ job'.files = job.files /\ job'.at = 1
                  /\ job'.moved = FALSE /\ job'.applied = <<>>
<1>1. Phase = "journal"
  BY DEF WriteJournal
<1> DEFINE t == job.tx
           r == tree[t]
<1>2. CASE r.journal = None
  <2>1. tree' = [tree EXCEPT ![t] = Made(r.reserved, Torn, r.staged, r.backup)]
    BY <1>1, <1>2, Working, Edits DEF WriteJournal, Shape
  <2>2. DirectoryBecomes(t, r.reserved, Torn, r.staged, r.backup)
    BY <1>1, <2>1, Working, Becomes DEF Shape
  <2> QED
    BY <1>2, <2>2 DEF WriteJournal
<1>3. CASE r.journal # None
  <2>1. tree' = [tree EXCEPT ![t] = Made(r.reserved, job.files, r.staged, r.backup)]
    BY <1>1, <1>3, Working, Edits DEF WriteJournal, Shape
  <2>2. DirectoryBecomes(t, r.reserved, job.files, r.staged, r.backup)
    BY <1>1, <2>1, Working, Becomes DEF Shape
  <2>3. job' = [phase |-> "apply", tx |-> t, files |-> job.files, at |-> 1, moved |-> FALSE,
                applied |-> <<>>]
    BY <1>3 DEF WriteJournal
  <2>4. <<>> \in Seq(Action) /\ t \in Tx /\ job.files \in FileLists
    BY <1>1, Working
  <2>5. job' \in ApplyJob
    BY <2>3, <2>4 DEF ApplyJob
  <2>6. /\ job'.phase = "apply" /\ job'.tx = t /\ job'.files = job.files /\ job'.at = 1
        /\ job'.moved = FALSE /\ job'.applied = <<>>
    BY <2>3
  <2>7. job' \in Job
    BY <2>5 DEF Job
  <2>8. undecided' = t /\ before' = live
    BY <1>3 DEF WriteJournal
  <2> QED
    BY <1>3, <2>2, <2>5, <2>6, <2>7, <2>8, NextPhase
<1> QED
  BY <1>2, <1>3

\* A commit that fails leaves the directory, perhaps with all of the journal.
LEMMA JournalFailsEffect ==
    ASSUME Shape, JournalFails
    PROVE  LET t == job.tx
               r == tree[t]
           IN  /\ Phase = "journal" /\ "journal" \in FailIn /\ job' = None /\ Phase' = "idle"
               /\ \/ tree' = tree
                  \/ DirectoryBecomes(t, r.reserved, job.files, r.staged, r.backup)
<1>1. Phase = "journal" /\ "journal" \in FailIn
  BY DEF JournalFails, MayFail
<1> DEFINE t == job.tx
           r == tree[t]
<1>2. ASSUME tree' = [tree EXCEPT ![job.tx].journal = job.files]
      PROVE  DirectoryBecomes(t, r.reserved, job.files, r.staged, r.backup)
  <2>1. tree' = [tree EXCEPT ![t] = Made(r.reserved, job.files, r.staged, r.backup)]
    BY <1>1, <1>2, Working, Edits DEF Shape
  <2> QED
    BY <1>1, <2>1, Working, Becomes DEF Shape
<1>3. job' = None /\ Phase' = "idle"
  BY DEF JournalFails, Phase
<1> QED
  BY <1>1, <1>2, <1>3 DEF JournalFails

\* The file the job is at.
LEMMA Targets ==
    ASSUME Shape, Phase \in {"apply", "restore"}, job.at \in 1 .. Len(job.files)
    PROVE  /\ Target = job.files[job.at].path /\ Target \in Path
           /\ job.at \in 1 .. MaxFiles /\ job.at \in DOMAIN job.files
           /\ job.files[job.at].remove \in BOOLEAN
<1>1. job.files \in FileLists
  BY Working
<1> QED
  BY <1>1, Lists, BoundAssumption DEF Target

\* The target goes to its backup, if it exists, and is noted as begun.
LEMMA MoveToBackupEffect ==
    ASSUME Shape, MoveToBackup
    PROVE  LET t == job.tx
               r == tree[t]
               exists == live[Target] # Absent
           IN  /\ Phase = "apply" /\ job.at \in 1 .. Len(job.files) /\ ~ job.moved
               /\ IF exists
                  THEN DirectoryBecomes(t, r.reserved, r.journal, r.staged,
                                        WithBackup(t, job.at, live[Target]))
                  ELSE tree' = tree
               /\ job' \in ApplyJob /\ job' \in Job /\ Phase' = "apply"
               /\ job'.tx = t /\ job'.files = job.files /\ job'.at = job.at /\ job'.moved = TRUE
               /\ Len(job'.applied) = job.at
               /\ job'.applied[job.at]
                  = [at |-> job.at, installed |-> FALSE, backed_up |-> exists]
               /\ \A k \in 1 .. job.at - 1 : job'.applied[k] = job.applied[k]
<1> DEFINE t == job.tx
           r == tree[t]
           exists == live[Target] # Absent
           a == [at |-> job.at, installed |-> FALSE, backed_up |-> exists]
<1>1. Phase = "apply" /\ job.at <= Len(job.files) /\ ~ job.moved
  BY DEF MoveToBackup
<1>2. /\ job \in ApplyJob /\ job.at \in Nat /\ job.applied \in Seq(Action)
      /\ job.moved \in BOOLEAN /\ job.tx \in Tx /\ job.files \in FileLists
  BY <1>1, JobTypes DEF Shape
<1>3. job.at \in 1 .. Len(job.files) /\ Len(job.applied) = job.at - 1
  <2>1. job.at \in 1 .. Len(job.files) + 1
    BY <1>1 DEF Shape, JobMatches
  <2>2. Len(job.applied) = IF job.moved THEN job.at ELSE job.at - 1
    BY <1>1 DEF Shape, JobMatches
  <2>3. Len(job.applied) = job.at - 1
    BY <1>1, <2>2, Zenon
  <2> QED
    BY <1>1, <1>2, <2>1, <2>3, Lists
<1>4. Target \in Path /\ job.at \in 1 .. MaxFiles
  BY <1>1, <1>3, Targets
<1>5. ASSUME exists
      PROVE  DirectoryBecomes(t, r.reserved, r.journal, r.staged,
                              WithBackup(t, job.at, live[Target]))
  <2>1. live[Target] \in Tx \cup {Old}
    BY <1>4, <1>5 DEF Shape, TypeOK
  <2>2. WithBackup(t, job.at, live[Target]) \in Backups
    BY <1>1, <1>4, <2>1, Working, BackupEdits
  <2>3. tree' = [tree EXCEPT ![t].backup = WithBackup(t, job.at, live[Target])]
    BY <1>5 DEF MoveToBackup
  <2> DEFINE b == WithBackup(t, job.at, live[Target])
  <2> HIDE DEF b
  <2>4. tree' = [tree EXCEPT ![t] = Made(r.reserved, r.journal, r.staged, b)]
    <3>1. \A c : [tree EXCEPT ![t].backup = c]
                  = [tree EXCEPT ![t] = Made(r.reserved, r.journal, r.staged, c)]
      BY <1>1, Working, Edits DEF Shape
    <3>2. tree' = [tree EXCEPT ![t].backup = b]
      BY <2>3 DEF b
    <3> QED
      BY <3>1, <3>2, Zenon
  <2>5. DirectoryBecomes(t, r.reserved, r.journal, r.staged, b)
    BY <1>1, <2>2, <2>4, Working, Becomes DEF Shape, b
  <2> QED
    BY <2>5 DEF b
<1>6. ~ exists => tree' = tree
  BY DEF MoveToBackup
<1> DEFINE s == Append(job.applied, a)
<1>7. job' = [job EXCEPT !.moved = TRUE, !.applied = s]
  BY DEF MoveToBackup
<1>8. job' = [phase |-> "apply", tx |-> t, files |-> job.files, at |-> job.at, moved |-> TRUE,
              applied |-> s]
  <2> HIDE DEF s
  <2> QED
    BY <1>2, <1>7, ApplyEdits, Zenon
<1>9. exists \in BOOLEAN
  OBVIOUS
<1>10. a \in Action
  BY <1>4, <1>9 DEF Action
<1>11. /\ s \in Seq(Action) /\ Len(s) = Len(job.applied) + 1
       /\ \A i \in 1 .. Len(job.applied) : s[i] = job.applied[i]
       /\ s[Len(job.applied) + 1] = a
  <2> HIDE DEF a
  <2> QED
    BY <1>2, <1>10, AppendProperties
<1>12. /\ s \in Seq(Action) /\ Len(s) = job.at /\ s[job.at] = a
       /\ \A k \in 1 .. job.at - 1 : s[k] = job.applied[k]
  <2> HIDE DEF s, a
  <2> QED
    BY <1>2, <1>3, <1>11
<1> HIDE DEF s, a
<1>13. job' \in ApplyJob
  BY <1>2, <1>8, <1>12 DEF ApplyJob
<1>14. job' \in Job
  BY <1>13 DEF Job
<1>15. /\ job'.phase = "apply" /\ job'.tx = t /\ job'.files = job.files /\ job'.at = job.at
       /\ job'.moved = TRUE /\ job'.applied = s
  BY <1>8
<1>16. Phase' = "apply"
  BY <1>14, <1>15, NextPhase
<1> QED
  BY <1>1, <1>2, <1>3, <1>5, <1>6, <1>12, <1>13, <1>14, <1>15, <1>16 DEF a

\* The payload goes to its target, and the job to the next file.
LEMMA InstallPayloadEffect ==
    ASSUME Shape, InstallPayload
    PROVE  LET t == job.tx
               r == tree[t]
               put == ~ job.files[job.at].remove
           IN  /\ Phase = "apply" /\ job.at \in 1 .. Len(job.files) /\ job.moved
               /\ live' = IF put THEN [live EXCEPT ![Target] = t] ELSE live
               /\ DirectoryBecomes(t, r.reserved, r.journal, r.staged \ {job.at}, r.backup)
               /\ job' \in ApplyJob /\ job' \in Job /\ Phase' = "apply"
               /\ job'.tx = t /\ job'.files = job.files /\ job'.at = job.at + 1
               /\ job'.moved = FALSE
               /\ Len(job.applied) = job.at /\ Len(job'.applied) = job.at
               /\ job'.applied[job.at] = [at |-> job.applied[job.at].at, installed |-> put,
                                          backed_up |-> job.applied[job.at].backed_up]
               /\ \A k \in 1 .. job.at - 1 : job'.applied[k] = job.applied[k]
<1> DEFINE t == job.tx
           r == tree[t]
           put == ~ job.files[job.at].remove
           k == Len(job.applied)
           a == [at |-> job.applied[k].at, installed |-> put,
                 backed_up |-> job.applied[k].backed_up]
<1>1. Phase = "apply" /\ job.at <= Len(job.files) /\ job.moved
  BY DEF InstallPayload
<1>2. /\ job \in ApplyJob /\ job.at \in Nat /\ job.applied \in Seq(Action)
      /\ job.moved \in BOOLEAN /\ job.tx \in Tx /\ job.files \in FileLists
  BY <1>1, JobTypes DEF Shape
<1>3. job.at \in 1 .. Len(job.files) /\ Len(job.applied) = job.at
  <2>1. job.at \in 1 .. Len(job.files) + 1
    BY <1>1 DEF Shape, JobMatches
  <2>2. Len(job.applied) = IF job.moved THEN job.at ELSE job.at - 1
    BY <1>1 DEF Shape, JobMatches
  <2>3. Len(job.applied) = job.at
    BY <1>1, <2>2, Zenon
  <2> QED
    BY <1>1, <1>2, <2>1, <2>3, Lists
<1>4. Target \in Path /\ job.at \in 1 .. MaxFiles
  BY <1>1, <1>3, Targets
<1>5. DirectoryBecomes(t, r.reserved, r.journal, r.staged \ {job.at}, r.backup)
  <2>1. tree' = [tree EXCEPT ![t].staged = r.staged \ {job.at}]
    BY DEF InstallPayload
  <2>2. \A s : [tree EXCEPT ![t].staged = s]
               = [tree EXCEPT ![t] = Made(r.reserved, r.journal, s, r.backup)]
    BY <1>1, Working, Edits DEF Shape
  <2>3. tree' = [tree EXCEPT ![t] = Made(r.reserved, r.journal, r.staged \ {job.at}, r.backup)]
    BY <2>1, <2>2, Zenon
  <2>4. r.staged \ {job.at} \in SUBSET (1 .. MaxFiles)
    BY <1>1, Working
  <2> QED
    BY <1>1, <2>3, <2>4, Working, Becomes DEF Shape
<1>6. job.applied # <<>>
  BY <1>2, <1>3, EmptySeq
<1>7. put \in BOOLEAN
  OBVIOUS
<1> DEFINE s == [job.applied EXCEPT ![k] = a]
<1>8. /\ [job.applied EXCEPT ![k].installed = put] = s
      /\ s \in Seq(Action) /\ Len(s) = k /\ s[k] = a
      /\ \A i \in 1 .. k : i # k => s[i] = job.applied[i]
  <2> HIDE DEF put
  <2> QED
    BY <1>2, <1>6, <1>7, Installs
<1>9. job' = [job EXCEPT !.at = job.at + 1, !.moved = FALSE,
                !.applied = [job.applied EXCEPT ![k].installed = put]]
  BY DEF InstallPayload
<1>10. job' = [phase |-> "apply", tx |-> t, files |-> job.files, at |-> job.at + 1,
               moved |-> FALSE, applied |-> s]
  <2> DEFINE u == [job.applied EXCEPT ![k].installed = put]
  <2>1. u = s
    BY <1>8
  <2>2. job' = [job EXCEPT !.at = job.at + 1, !.moved = FALSE, !.applied = u]
    BY <1>9
  <2>3. \A n, m, v : [job EXCEPT !.at = n, !.moved = m, !.applied = v]
                     = [phase |-> "apply", tx |-> t, files |-> job.files, at |-> n,
                        moved |-> m, applied |-> v]
    BY <1>2, ApplyEdits
  <2> HIDE DEF u, s, t
  <2> QED
    BY <2>1, <2>2, <2>3, Zenon
<1>11. live' = IF put THEN [live EXCEPT ![Target] = t] ELSE live
  BY DEF InstallPayload
<1>12. /\ s \in Seq(Action) /\ Len(s) = job.at
       /\ s[job.at] = [at |-> job.applied[job.at].at, installed |-> put,
                       backed_up |-> job.applied[job.at].backed_up]
       /\ \A i \in 1 .. job.at - 1 : s[i] = job.applied[i]
  <2>1. k = job.at
    BY <1>3
  <2>2. a = [at |-> job.applied[job.at].at, installed |-> put,
             backed_up |-> job.applied[job.at].backed_up]
    BY <2>1
  <2>3. \A i \in 1 .. job.at - 1 : i \in 1 .. k /\ i # k
    BY <1>2, <2>1
  <2> HIDE DEF s, a, k, put
  <2> QED
    BY <1>8, <2>1, <2>2, <2>3
<1> HIDE DEF s, a, k, put
<1>13. job' \in ApplyJob
  BY <1>2, <1>10, <1>12 DEF ApplyJob
<1>14. job' \in Job
  BY <1>13 DEF Job
<1>15. /\ job'.phase = "apply" /\ job'.tx = t /\ job'.files = job.files
       /\ job'.at = job.at + 1 /\ job'.moved = FALSE /\ job'.applied = s
  BY <1>10
<1>16. Phase' = "apply"
  BY <1>14, <1>15, NextPhase
<1> QED
  BY <1>1, <1>3, <1>5, <1>11, <1>12, <1>13, <1>14, <1>15, <1>16 DEF put

\* A rollback that has files left, with other files left.
LEMMA RollbackEdits ==
    ASSUME NEW j \in RollbackJob, NEW s \in Seq(Action), job' = [j EXCEPT !.applied = s]
    PROVE  /\ job' \in RollbackJob /\ job' \in Job /\ Phase' = "rollback"
           /\ job'.tx = j.tx /\ job'.files = j.files /\ job'.applied = s
<1>1. j.tx \in Tx /\ j.files \in FileLists /\ j.phase = "rollback"
  BY DEF RollbackJob
<1>2. job' = [phase |-> "rollback", tx |-> j.tx, files |-> j.files, applied |-> s]
  BY DEF RollbackJob
<1>3. job' \in RollbackJob
  BY <1>1, <1>2 DEF RollbackJob
<1>4. job' \in Job
  BY <1>3 DEF Job
<1>5. job'.phase = "rollback" /\ job'.tx = j.tx /\ job'.files = j.files /\ job'.applied = s
  BY <1>2
<1> QED
  BY <1>3, <1>4, <1>5, NextPhase

\* The last file begun, as a rollback finds it.
LEMMA RollbackLast ==
    ASSUME Shape, Phase = "rollback", job.applied # <<>>
    PROVE  LET k == Len(job.applied) IN
           /\ job \in RollbackJob /\ job.tx \in Tx /\ job.files \in FileLists
           /\ job.applied \in Seq(Action)
           /\ k \in 1 .. Len(job.files) /\ k \in 1 .. MaxFiles
           /\ Last(job.applied) = job.applied[k] /\ job.applied[k] \in Action
           /\ job.applied[k].at = k
           /\ job.applied[k].installed \in BOOLEAN /\ job.applied[k].backed_up \in BOOLEAN
           /\ job.applied[k].backed_up => HasBackup(job.tx, k)
           /\ job.files[k].path \in Path
           /\ Front(job.applied) \in Seq(Action) /\ Len(Front(job.applied)) = k - 1
           /\ \A i \in 1 .. k - 1 : Front(job.applied)[i] = job.applied[i]
<1> DEFINE k == Len(job.applied)
<1>1. /\ job \in RollbackJob /\ job.tx \in Tx /\ job.files \in FileLists
      /\ job.applied \in Seq(Action)
  BY JobTypes DEF Shape
<1>2. /\ Front(job.applied) \in Seq(Action) /\ Len(Front(job.applied)) = k - 1 /\ k \in Nat \ {0}
      /\ \A i \in 1 .. k - 1 : Front(job.applied)[i] = job.applied[i]
      /\ Last(job.applied) = job.applied[k] /\ Last(job.applied) \in Action
  BY <1>1, Fronts
<1>3. k <= Len(job.files) /\ AppliedMatches
  BY DEF Shape, JobMatches
<1>4. k \in 1 .. k
  BY <1>2
<1>5. job.applied[k].at = k /\ (job.applied[k].backed_up => HasBackup(job.tx, k))
  BY <1>3, <1>4 DEF AppliedMatches
<1>6. k \in 1 .. Len(job.files) /\ k \in 1 .. MaxFiles /\ job.files[k].path \in Path
  BY <1>1, <1>2, <1>3, Lists, BoundAssumption
<1>7. job.applied[k].installed \in BOOLEAN /\ job.applied[k].backed_up \in BOOLEAN
  BY <1>2 DEF Action
<1> QED
  BY <1>1, <1>2, <1>5, <1>6, <1>7

\* What was installed is removed; or the backup goes back, if there is one.
LEMMA RollbackFileEffect ==
    ASSUME Shape, RollbackFile
    PROVE  LET t == job.tx
               r == tree[t]
               k == Len(job.applied)
               path == job.files[k].path
           IN  /\ Phase = "rollback" /\ job.applied # <<>>
               /\ job' \in RollbackJob /\ job' \in Job /\ Phase' = "rollback"
               /\ job'.tx = t /\ job'.files = job.files
               /\ \A i \in 1 .. k - 1 : job'.applied[i] = job.applied[i]
               /\ IF job.applied[k].installed
                  THEN /\ live' = [live EXCEPT ![path] = Absent]
                       /\ tree' = tree
                       /\ Len(job'.applied) = k
                       /\ job'.applied[k] = [at |-> job.applied[k].at, installed |-> FALSE,
                                             backed_up |-> job.applied[k].backed_up]
                  ELSE /\ live' = IF job.applied[k].backed_up
                                  THEN [live EXCEPT ![path] = r.backup[k]] ELSE live
                       /\ DirectoryBecomes(t, r.reserved, r.journal, r.staged,
                                           WithoutBackup(t, k))
                       /\ Len(job'.applied) = k - 1
<1> DEFINE t == job.tx
           r == tree[t]
           k == Len(job.applied)
           path == job.files[k].path
<1>1. Phase = "rollback" /\ job.applied # <<>>
  BY DEF RollbackFile
<1>2. /\ job \in RollbackJob /\ job.tx \in Tx /\ job.files \in FileLists
      /\ job.applied \in Seq(Action)
      /\ k \in 1 .. Len(job.files) /\ k \in 1 .. MaxFiles
      /\ Last(job.applied) = job.applied[k] /\ job.applied[k].at = k
      /\ Front(job.applied) \in Seq(Action) /\ Len(Front(job.applied)) = k - 1
      /\ \A i \in 1 .. k - 1 : Front(job.applied)[i] = job.applied[i]
  BY <1>1, RollbackLast
<1>3. CASE job.applied[k].installed
  <2>1. /\ live' = [live EXCEPT ![path] = Absent]
        /\ job' = [job EXCEPT !.applied[k].installed = FALSE]
        /\ tree' = tree
    BY <1>2, <1>3 DEF RollbackFile
  <2> DEFINE a == [at |-> job.applied[k].at, installed |-> FALSE,
                   backed_up |-> job.applied[k].backed_up]
             s == [job.applied EXCEPT ![k] = a]
  <2>2. /\ [job.applied EXCEPT ![k].installed = FALSE] = s
        /\ s \in Seq(Action) /\ Len(s) = k /\ s[k] = a
        /\ \A i \in 1 .. k : i # k => s[i] = job.applied[i]
    BY <1>1, <1>2, Installs
  <2>3. job' = [job EXCEPT !.applied = [job.applied EXCEPT ![k].installed = FALSE]]
    BY <2>1
  <2>4. job' = [job EXCEPT !.applied = s]
    BY <2>2, <2>3, Zenon
  <2>5. \A i \in 1 .. k - 1 : i \in 1 .. k /\ i # k
    BY <1>2
  <2> HIDE DEF s, a
  <2>6. /\ job' \in RollbackJob /\ job' \in Job /\ Phase' = "rollback"
        /\ job'.tx = t /\ job'.files = job.files /\ job'.applied = s
    BY <1>2, <2>2, <2>4, RollbackEdits
  <2>7. a = [at |-> job.applied[k].at, installed |-> FALSE,
             backed_up |-> job.applied[k].backed_up]
    BY DEF a
  <2> QED
    BY <1>1, <1>3, <2>1, <2>2, <2>5, <2>6, <2>7
<1>4. CASE ~ job.applied[k].installed
  <2>1. /\ live' = RolledBack(job.applied[k])
        /\ tree' = [tree EXCEPT ![t].backup = WithoutBackup(t, k)]
        /\ job' = [job EXCEPT !.applied = Front(job.applied)]
    BY <1>2, <1>4 DEF RollbackFile
  <2>2. live' = IF job.applied[k].backed_up
                THEN [live EXCEPT ![path] = r.backup[k]] ELSE live
    BY <1>2, <2>1 DEF RolledBack
  <2>3. /\ job' \in RollbackJob /\ job' \in Job /\ Phase' = "rollback"
        /\ job'.tx = t /\ job'.files = job.files /\ job'.applied = Front(job.applied)
    BY <1>2, <2>1, RollbackEdits
  <2>4. DirectoryBecomes(t, r.reserved, r.journal, r.staged, WithoutBackup(t, k))
    <3>1. \A c : [tree EXCEPT ![t].backup = c]
                  = [tree EXCEPT ![t] = Made(r.reserved, r.journal, r.staged, c)]
      BY <1>1, Working, Edits DEF Shape
    <3>2. tree' = [tree EXCEPT ![t] = Made(r.reserved, r.journal, r.staged, WithoutBackup(t, k))]
      BY <2>1, <3>1, Zenon
    <3>3. WithoutBackup(t, k) \in Backups
      BY <1>1, <1>2, Working, BackupEdits
    <3> QED
      BY <1>1, <3>2, <3>3, Working, Becomes DEF Shape
  <2> QED
    BY <1>1, <1>2, <1>4, <2>2, <2>3, <2>4
<1> QED
  BY <1>3, <1>4

\* A file that fails is given up.
LEMMA RollbackFailsEffect ==
    ASSUME Shape, RollbackFails
    PROVE  LET k == Len(job.applied)
           IN  /\ Phase = "rollback" /\ job.applied # <<>> /\ "rollback" \in FailIn
               /\ job' \in RollbackJob /\ job' \in Job /\ Phase' = "rollback"
               /\ job'.tx = job.tx /\ job'.files = job.files
               /\ Len(job'.applied) = k - 1
               /\ \A i \in 1 .. k - 1 : job'.applied[i] = job.applied[i]
<1>1. Phase = "rollback" /\ job.applied # <<>> /\ "rollback" \in FailIn
  BY DEF RollbackFails, MayFail
<1>2. job' = [job EXCEPT !.applied = Front(job.applied)]
  BY DEF RollbackFails
<1>3. /\ job \in RollbackJob
      /\ Front(job.applied) \in Seq(Action) /\ Len(Front(job.applied)) = Len(job.applied) - 1
      /\ \A i \in 1 .. Len(job.applied) - 1 : Front(job.applied)[i] = job.applied[i]
  BY <1>1, RollbackLast
<1>4. /\ job' \in RollbackJob /\ job' \in Job /\ Phase' = "rollback"
      /\ job'.tx = job.tx /\ job'.files = job.files /\ job'.applied = Front(job.applied)
  BY <1>2, <1>3, RollbackEdits
<1> QED
  BY <1>1, <1>3, <1>4

\* A job that removes directories.
LEMMA RemovingJob ==
    ASSUME NEW ts \in SUBSET Tx, NEW then \in {"up", "starting", "down"}
    PROVE  /\ Removing(ts, then) \in RemoveJob /\ Removing(ts, then) \in Job
           /\ Removing(ts, then).phase = "remove"
           /\ Removing(ts, then).trees = ts /\ Removing(ts, then).then = then
<1>1. Removing(ts, then) \in RemoveJob
  BY DEF Removing, RemoveJob
<1>2. Removing(ts, then) \in Job
  BY <1>1 DEF Job
<1> QED
  BY <1>1, <1>2 DEF Removing

\* Removal takes one entry from one of the job's directories.
LEMMA RemoveEntryEffect ==
    ASSUME Shape, NEW t \in Tx, RemoveEntry(t)
    PROVE  /\ Phase = "remove" /\ t \in job.trees /\ Kept(t)
           /\ \E j, s, b : DirectoryBecomes(t, tree[t].reserved, j, s, b)
<1>1. Phase = "remove" /\ t \in job.trees
  BY DEF RemoveEntry
<1>2. Kept(t)
  BY <1>1 DEF Shape, JobMatches
<1>3. tree[t] \in Tree
  BY <1>2 DEF Shape, TypeOK, Kept
<1> DEFINE r == tree[t]
<1>4. /\ r.reserved \in BOOLEAN /\ r.journal \in FileLists \cup {None, Torn}
      /\ r.staged \in SUBSET (1 .. MaxFiles) /\ r.backup \in Backups
  BY <1>3, TreeFields
<1>5. CASE tree' = [tree EXCEPT ![t].journal = None]
  <2>1. tree' = [tree EXCEPT ![t] = Made(r.reserved, None, r.staged, r.backup)]
    BY <1>2, <1>5, Edits DEF Shape
  <2>2. DirectoryBecomes(t, r.reserved, None, r.staged, r.backup)
    BY <1>4, <2>1, Becomes DEF Shape
  <2> QED
    BY <1>1, <1>2, <2>2
<1>6. ASSUME NEW i \in r.staged, tree' = [tree EXCEPT ![t].staged = @ \ {i}]
      PROVE  \E j, s, b : DirectoryBecomes(t, r.reserved, j, s, b)
  <2>1. tree' = [tree EXCEPT ![t].staged = r.staged \ {i}]
    BY <1>6
  <2>2. \A s : [tree EXCEPT ![t].staged = s]
               = [tree EXCEPT ![t] = Made(r.reserved, r.journal, s, r.backup)]
    BY <1>2, Edits DEF Shape
  <2>3. tree' = [tree EXCEPT ![t] = Made(r.reserved, r.journal, r.staged \ {i}, r.backup)]
    BY <2>1, <2>2, Zenon
  <2>4. r.staged \ {i} \in SUBSET (1 .. MaxFiles)
    BY <1>4
  <2>5. DirectoryBecomes(t, r.reserved, r.journal, r.staged \ {i}, r.backup)
    BY <1>4, <2>3, <2>4, Becomes DEF Shape
  <2> QED
    BY <2>5
<1>7. ASSUME NEW i \in DOMAIN r.backup, tree' = [tree EXCEPT ![t].backup = WithoutBackup(t, i)]
      PROVE  \E j, s, b : DirectoryBecomes(t, r.reserved, j, s, b)
  <2>1. i \in 1 .. MaxFiles
    BY <1>4, BackupTypes
  <2>2. WithoutBackup(t, i) \in Backups
    BY <1>3, <2>1, BackupEdits
  <2>3. \A c : [tree EXCEPT ![t].backup = c]
                = [tree EXCEPT ![t] = Made(r.reserved, r.journal, r.staged, c)]
    BY <1>2, Edits DEF Shape
  <2>4. tree' = [tree EXCEPT ![t] = Made(r.reserved, r.journal, r.staged, WithoutBackup(t, i))]
    BY <1>7, <2>3, Zenon
  <2>5. DirectoryBecomes(t, r.reserved, r.journal, r.staged, WithoutBackup(t, i))
    BY <1>4, <2>2, <2>4, Becomes DEF Shape
  <2> QED
    BY <2>5
<1> QED
  BY <1>1, <1>2, <1>5, <1>6, <1>7 DEF RemoveEntry

\* A directory leaves the job, removed or given up.
LEMMA LeavesRemoval ==
    ASSUME Shape, NEW t \in Tx, RemoveRoot(t) \/ RemoveFails(t)
    PROVE  /\ Phase = "remove" /\ t \in job.trees /\ Kept(t)
           /\ job' \in RemoveJob /\ job' \in Job /\ Phase' = "remove"
           /\ job'.trees = job.trees \ {t} /\ job'.then = job.then
           /\ Decide(t)
           /\ tree' \in [Tx -> Tree \cup {None}] /\ \A x \in Tx \ {t} : tree'[x] = tree[x]
           /\ \/ tree'[t] = None
              \/ tree' = tree /\ "remove" \in FailIn
<1>1. Phase = "remove" /\ t \in job.trees /\ Decide(t)
  BY DEF RemoveRoot, RemoveFails
<1>2. Kept(t)
  BY <1>1 DEF Shape, JobMatches
<1>3. job \in RemoveJob /\ job.trees \subseteq Tx /\ job.then \in {"up", "starting", "down"}
  BY <1>1, JobTypes DEF Shape
<1>4. job' = [job EXCEPT !.trees = job.trees \ {t}]
  BY DEF RemoveRoot, RemoveFails
<1>5. job' = Removing(job.trees \ {t}, job.then)
  BY <1>3, <1>4 DEF RemoveJob, Removing
<1>6. job.trees \ {t} \in SUBSET Tx
  BY <1>3
<1>7. /\ job' \in RemoveJob /\ job' \in Job /\ job'.phase = "remove"
      /\ job'.trees = job.trees \ {t} /\ job'.then = job.then
  BY <1>3, <1>5, <1>6, RemovingJob
<1>8. Phase' = "remove"
  BY <1>7, NextPhase
<1>9. tree \in [Tx -> Tree \cup {None}]
  BY DEF Shape, TypeOK
<1>10. CASE RemoveRoot(t)
  <2>1. tree' = [tree EXCEPT ![t] = None]
    BY <1>10 DEF RemoveRoot
  <2> QED
    BY <1>1, <1>2, <1>7, <1>8, <1>9, <2>1
<1>11. CASE RemoveFails(t)
  <2>1. tree' = tree /\ "remove" \in FailIn
    BY <1>1, <1>11 DEF RemoveFails, MayFail
  <2> QED
    BY <1>1, <1>2, <1>7, <1>8, <1>9, <2>1
<1> QED
  BY <1>10, <1>11

\* A directory is recovered, removed or, with its torn journal, kept.
LEMMA RecoverNextEffect ==
    ASSUME Shape, NEW t \in Tx, RecoverNext(t)
    PROVE  /\ up = "starting" /\ job = None /\ Phase = "idle" /\ t \in todo /\ Kept(t)
           /\ todo' = todo \ {t} /\ tree[t] \in Tree
           /\ \/ tree[t].journal = Torn /\ job' = None /\ Phase' = "idle" /\ up' = "down"
              \/ /\ tree[t].journal \in {None, Torn} /\ up' = up
                 /\ job' \in RemoveJob /\ job' \in Job /\ Phase' = "remove"
                 /\ job'.trees = {t} /\ job'.then = "starting"
              \/ /\ Journaled(t) /\ tree[t].journal \in FileLists /\ up' = up
                 /\ job' \in RestoreJob /\ job' \in Job /\ Phase' = "restore"
                 /\ job'.tx = t /\ job'.files = tree[t].journal
                 /\ job'.at = Len(tree[t].journal)
<1>1. up = "starting" /\ job = None /\ Phase = "idle" /\ t \in todo /\ todo' = todo \ {t}
  BY DEF RecoverNext, Phase
<1>2. Kept(t)
  BY <1>1 DEF Shape, Directories
<1>3. tree[t] \in Tree
  BY <1>2 DEF Shape, TypeOK, Kept
<1>4. tree[t].journal \in FileLists \cup {None, Torn}
  BY <1>3, TreeFields
<1>5. CASE tree[t].journal = Torn /\ job' = None /\ up' = "down"
  <2>1. Phase' = "idle"
    BY <1>5 DEF Phase
  <2> QED
    BY <1>1, <1>2, <1>3, <1>5, <2>1
<1>6. CASE /\ tree[t].journal \in {None, Torn}
           /\ job' = Removing({t}, "starting") /\ up' = up
  <2>1. {t} \in SUBSET Tx
    OBVIOUS
  <2>2. /\ job' \in RemoveJob /\ job' \in Job /\ job'.phase = "remove"
        /\ job'.trees = {t} /\ job'.then = "starting"
    BY <1>6, <2>1, RemovingJob
  <2> QED
    BY <1>1, <1>2, <1>3, <1>6, <2>2, NextPhase
<1>7. CASE Journaled(t) /\ job' = Restoring(t) /\ up' = up
  <2>1. tree[t].journal \in FileLists
    BY <1>4, <1>7 DEF Journaled
  <2>2. Len(tree[t].journal) \in Nat
    BY <2>1, Lists, BoundAssumption
  <2>3. job' \in RestoreJob
    BY <1>7, <2>1, <2>2 DEF Restoring, RestoreJob
  <2>4. job' \in Job
    BY <2>3 DEF Job
  <2>5. /\ job'.phase = "restore" /\ job'.tx = t /\ job'.files = tree[t].journal
        /\ job'.at = Len(tree[t].journal)
    BY <1>7 DEF Restoring
  <2>6. Phase' = "restore"
    BY <2>4, <2>5, NextPhase
  <2> QED
    BY <1>1, <1>2, <1>3, <1>7, <2>1, <2>3, <2>4, <2>5, <2>6
<1> QED
  BY <1>5, <1>6, <1>7 DEF RecoverNext

\* A file is recovered: its target is removed, then the backup put back; or,
\* without a backup, an installed payload is removed.
LEMMA RestoreEffect ==
    ASSUME Shape, Restore
    PROVE  LET t == job.tx
               r == tree[t]
               i == job.at
               Moves == /\ job'.at = i - 1 /\ job' \in RestoreJob /\ job' \in Job
                        /\ Phase' = "restore" /\ job'.tx = t /\ job'.files = job.files
           IN  /\ Phase = "restore" /\ i \in 1 .. Len(job.files)
               /\ \/ /\ HasBackup(t, i) /\ live[Target] # Absent
                     /\ live' = [live EXCEPT ![Target] = Absent]
                     /\ tree' = tree /\ job' = job /\ Phase' = Phase
                  \/ /\ HasBackup(t, i) /\ live[Target] = Absent
                     /\ live' = [live EXCEPT ![Target] = r.backup[i]]
                     /\ DirectoryBecomes(t, r.reserved, r.journal, r.staged,
                                         WithoutBackup(t, i))
                     /\ Moves
                  \/ /\ ~ HasBackup(t, i)
                     /\ live' = IF ~ job.files[i].remove /\ i \notin r.staged
                                THEN [live EXCEPT ![Target] = Absent] ELSE live
                     /\ tree' = tree
                     /\ Moves
<1> DEFINE t == job.tx
           r == tree[t]
           i == job.at
           Moves == /\ job'.at = i - 1 /\ job' \in RestoreJob /\ job' \in Job
                    /\ Phase' = "restore" /\ job'.tx = t /\ job'.files = job.files
<1>1. Phase = "restore" /\ i >= 1
  BY DEF Restore
<1>2. job \in RestoreJob /\ t \in Tx /\ job.files \in FileLists /\ i \in Nat
  BY <1>1, JobTypes DEF Shape
<1>3. i \in 1 .. Len(job.files)
  BY <1>1, <1>2, Lists DEF Shape, JobMatches
<1>4. i \in 1 .. MaxFiles
  BY <1>1, <1>3, Targets
<1>5. ASSUME job' = [job EXCEPT !.at = @ - 1]
      PROVE  Moves
  <2>1. job' = [phase |-> "restore", tx |-> t, files |-> job.files, at |-> i - 1]
    BY <1>2, <1>5 DEF RestoreJob
  <2>2. i - 1 \in Nat
    BY <1>1, <1>2
  <2>3. job' \in RestoreJob
    BY <1>2, <2>1, <2>2 DEF RestoreJob
  <2>4. job' \in Job
    BY <2>3 DEF Job
  <2>5. job'.phase = "restore" /\ job'.tx = t /\ job'.files = job.files /\ job'.at = i - 1
    BY <2>1
  <2> QED
    BY <2>3, <2>4, <2>5, NextPhase
<1>6. CASE HasBackup(t, i) /\ live[Target] # Absent
  <2>1. live' = [live EXCEPT ![Target] = Absent] /\ tree' = tree /\ job' = job
    BY <1>6 DEF Restore
  <2>2. Phase' = Phase
    BY <2>1 DEF Phase
  <2> QED
    BY <1>1, <1>3, <1>6, <2>1, <2>2
<1>7. CASE HasBackup(t, i) /\ live[Target] = Absent
  <2>1. /\ live' = [live EXCEPT ![Target] = r.backup[i]]
        /\ tree' = [tree EXCEPT ![t].backup = WithoutBackup(t, i)]
        /\ job' = [job EXCEPT !.at = @ - 1]
    BY <1>7 DEF Restore
  <2>2. \A c : [tree EXCEPT ![t].backup = c]
                = [tree EXCEPT ![t] = Made(r.reserved, r.journal, r.staged, c)]
    BY <1>1, Working, Edits DEF Shape
  <2>3. tree' = [tree EXCEPT ![t] = Made(r.reserved, r.journal, r.staged, WithoutBackup(t, i))]
    BY <2>1, <2>2, Zenon
  <2>4. WithoutBackup(t, i) \in Backups
    BY <1>1, <1>4, Working, BackupEdits
  <2>5. DirectoryBecomes(t, r.reserved, r.journal, r.staged, WithoutBackup(t, i))
    BY <1>1, <2>3, <2>4, Working, Becomes DEF Shape
  <2> QED
    BY <1>1, <1>3, <1>5, <1>7, <2>1, <2>5
<1>8. CASE ~ HasBackup(t, i)
  <2>1. /\ live' = IF ~ job.files[i].remove /\ i \notin r.staged
                   THEN [live EXCEPT ![Target] = Absent] ELSE live
        /\ tree' = tree
        /\ job' = [job EXCEPT !.at = @ - 1]
    BY <1>8 DEF Restore
  <2> QED
    BY <1>1, <1>3, <1>5, <1>8, <2>1
<1> QED
  BY <1>6, <1>7, <1>8

\* A commit that fails is rolled back.
LEMMA ApplyFailsEffect ==
    ASSUME Shape, ApplyFails
    PROVE  /\ Phase = "apply" /\ "apply" \in FailIn
           /\ job' \in RollbackJob /\ job' \in Job /\ Phase' = "rollback"
           /\ job'.tx = job.tx /\ job'.files = job.files /\ job'.applied = job.applied
<1>1. Phase = "apply" /\ "apply" \in FailIn
  BY DEF ApplyFails, MayFail
<1>2. job.tx \in Tx /\ job.files \in FileLists /\ job.applied \in Seq(Action)
  BY <1>1, JobTypes DEF Shape
<1>3. job' = [phase |-> "rollback", tx |-> job.tx, files |-> job.files, applied |-> job.applied]
  BY DEF ApplyFails
<1>4. job' \in RollbackJob
  BY <1>2, <1>3 DEF RollbackJob
<1>5. job' \in Job
  BY <1>4 DEF Job
<1>6. /\ job'.phase = "rollback" /\ job'.tx = job.tx /\ job'.files = job.files
      /\ job'.applied = job.applied
  BY <1>3
<1> QED
  BY <1>1, <1>4, <1>5, <1>6, NextPhase

\* A transaction that ends leaves memory, and its directory is removed.
LEMMA EndEffect ==
    ASSUME Shape, CommitDone \/ RollbackDone
    PROVE  /\ Phase \in {"apply", "rollback"} /\ job.tx \in Tx
           /\ job' \in RemoveJob /\ job' \in Job /\ Phase' = "remove"
           /\ job'.trees = {job.tx} /\ job'.then = "up"
           /\ Owned' = Owned \ {job.tx} /\ \A x \in Owned' : owner'[x] = owner[x]
<1>1. Phase \in {"apply", "rollback"}
  BY DEF CommitDone, RollbackDone
<1>2. {job.tx} \in SUBSET Tx
  BY <1>1, Working
<1>3. job' = Removing({job.tx}, "up")
  BY DEF CommitDone, RollbackDone, EndTransaction
<1>4. /\ job' \in RemoveJob /\ job' \in Job /\ job'.phase = "remove"
      /\ job'.trees = {job.tx} /\ job'.then = "up"
  BY <1>2, <1>3, RemovingJob
<1>5. owner' = [x \in DOMAIN owner \ {job.tx} |-> owner[x]]
  BY DEF CommitDone, RollbackDone, EndTransaction
<1>6. Owned' = Owned \ {job.tx} /\ \A x \in Owned' : owner'[x] = owner[x]
  BY <1>5 DEF Owned
<1> QED
  BY <1>1, <1>2, <1>4, <1>6, NextPhase

\* A recovered directory is removed.
LEMMA RestoreDoneEffect ==
    ASSUME Shape, RestoreDone
    PROVE  /\ Phase = "restore" /\ job.tx \in Tx /\ job.at = 0
           /\ job' \in RemoveJob /\ job' \in Job /\ Phase' = "remove"
           /\ job'.trees = {job.tx} /\ job'.then = "starting"
<1>1. Phase = "restore" /\ job.at = 0
  BY DEF RestoreDone
<1>2. {job.tx} \in SUBSET Tx
  BY <1>1, Working
<1>3. job' = Removing({job.tx}, "starting")
  BY DEF RestoreDone
<1> QED
  BY <1>1, <1>2, <1>3, RemovingJob, NextPhase

\* An abort takes transactions from memory, and removes their directories.
LEMMA AbortEffect ==
    ASSUME Shape, NEW ts \in SUBSET Owned, NEW then \in {"up", "down"}, AbortAll(ts, then)
    PROVE  /\ up = "up" /\ job = None /\ Phase = "idle"
           /\ job' \in RemoveJob /\ job' \in Job /\ Phase' = "remove"
           /\ job'.trees = ts /\ job'.then = then
           /\ Owned' = Owned \ ts /\ \A x \in Owned' : owner'[x] = owner[x]
<1>1. up = "up" /\ job = None /\ Phase = "idle"
  BY DEF AbortAll, Phase
<1>2. ts \in SUBSET Tx
  BY DEF Shape, TypeOK, Owned
<1>3. job' = Removing(ts, then)
  BY DEF AbortAll
<1>4. owner' = [x \in DOMAIN owner \ ts |-> owner[x]]
  BY DEF AbortAll
<1>5. Owned' = Owned \ ts /\ \A x \in Owned' : owner'[x] = owner[x]
  BY <1>4 DEF Owned
<1> QED
  BY <1>1, <1>2, <1>3, <1>5, RemovingJob, NextPhase
-----------------------------------------------------------------------------
(***************************************************************************)
(* The shape is kept                                                       *)
(***************************************************************************)
\* Nothing is there at first but files.
LEMMA ShapeInit == Init => Shape
<1> SUFFICES ASSUME Init PROVE Shape
  OBVIOUS
<1> USE DEF Init
<1>1. Phase = "idle"
  BY DEF Phase
<1>2. tree \in [Tx -> Tree \cup {None}]
  OBVIOUS
<1>3. Owned = {}
  BY DEF Owned
<1>4. TypeOK
  BY <1>2, <1>3, BoundAssumption DEF TypeOK, Owned
<1>5. Directories
  BY <1>3 DEF Directories, Kept
<1>6. JobMatches
  BY <1>1 DEF JobMatches
<1> QED
  BY <1>4, <1>5, <1>6 DEF Shape

\* The sets of transactions.
LEMMA Members ==
    ASSUME TypeOK
    PROVE  Owned \subseteq Tx /\ Owned \subseteq used /\ todo \subseteq Tx /\ used \subseteq Tx
BY DEF TypeOK, Owned

\* Begin, Commit and the aborts keep the shape.
LEMMA CallShape ==
    ASSUME Shape,
           \/ \E t \in Tx, p \in Plugin : Begin(t, p)
           \/ \E t \in Tx, fs \in FileLists : Commit(t, fs)
           \/ \E t \in Tx : Abort(t)
           \/ \E p \in Plugin : AbortPlugin(p)
           \/ Shutdown
    PROVE  Shape'
<1> USE DEF Shape
<1>1. ASSUME NEW t \in Tx, NEW p \in Plugin, Begin(t, p)
      PROVE  Shape'
  <2>1. /\ DirectoryBecomes(t, FALSE, None, {}, <<>>)
        /\ ~ Kept(t) /\ t \notin Owned
        /\ Owned' = Owned \cup {t} /\ \A x \in Owned' : owner'[x] \in Plugin
    BY <1>1, BeginEffect
  <2>2. /\ up = "up" /\ job = None /\ used' = used \cup {t}
        /\ UNCHANGED <<live, job, up, todo, crashes, plan, done, undecided, before>>
    BY <1>1 DEF Begin, ghostVars
  <2>3. TypeOK'
    BY <2>1, <2>2 DEF TypeOK, DirectoryBecomes, Owned
  <2>4. Directories'
    BY <2>1, <2>2, Members DEF Directories, DirectoryBecomes, Kept
  <2>5. Phase' = "idle"
    BY <2>2 DEF Phase
  <2>6. JobMatches'
    BY <2>5 DEF JobMatches
  <2> QED
    BY <2>3, <2>4, <2>6
<1>2. ASSUME NEW t \in Tx, NEW fs \in FileLists, Commit(t, fs)
      PROVE  Shape'
  <2>1. /\ t \in Owned /\ Kept(t) /\ tree[t] \in Tree
        /\ DirectoryBecomes(t, TRUE, tree[t].journal, Puts(fs), tree[t].backup)
        /\ job' \in JournalJob /\ job' \in Job /\ Phase' = "journal"
        /\ job'.tx = t /\ job'.files = fs
    BY <1>2, CommitEffect
  <2>2. up = "up" /\ UNCHANGED <<live, owner, used, up, todo, crashes, done, undecided, before>>
    BY <1>2 DEF Commit
  <2>3. Owned' = Owned
    BY <2>2 DEF Owned
  <2>4. TypeOK'
    BY <2>1, <2>2, <2>3 DEF TypeOK, DirectoryBecomes, Owned
  <2>5. Directories'
    BY <2>1, <2>2, <2>3, Members DEF Directories, DirectoryBecomes, Kept
  <2>6. JobMatches'
    BY <2>1, <2>2, <2>3 DEF JobMatches
  <2> QED
    BY <2>4, <2>5, <2>6
<1>3. ASSUME NEW ts \in SUBSET Owned, NEW then \in {"up", "down"}, AbortAll(ts, then),
             then = "down" => ts = Owned
      PROVE  Shape'
  <2>1. /\ up = "up" /\ job = None /\ Phase = "idle"
        /\ job' \in RemoveJob /\ job' \in Job /\ Phase' = "remove"
        /\ job'.trees = ts /\ job'.then = then
        /\ Owned' = Owned \ ts /\ \A x \in Owned' : owner'[x] = owner[x]
    BY <1>3, AbortEffect
  <2>2. UNCHANGED <<live, tree, used, up, todo, crashes, plan, done, undecided, before>>
    BY <1>3 DEF AbortAll, ghostVars
  <2>3. TypeOK'
    BY <2>1, <2>2 DEF TypeOK, Owned
  <2>4. Directories'
    BY <2>1, <2>2 DEF Directories, Kept
  <2>5. \A t \in ts : Kept(t)' /\ t \notin (Owned \cup todo)'
    BY <2>1, <2>2 DEF Directories, Kept
  <2>6. then # "starting" /\ (then = "down" => Owned' = {})
    BY <1>3, <2>1
  <2>7. JobMatches'
    BY <2>1, <2>2, <2>5, <2>6 DEF JobMatches
  <2> QED
    BY <2>3, <2>4, <2>7
<1>4. ASSUME NEW t \in Tx, Abort(t)
      PROVE  Shape'
  <2>1. {t} \in SUBSET Owned /\ AbortAll({t}, "up")
    BY <1>4 DEF Abort, Owned
  <2> QED
    BY <1>3, <2>1
<1>5. ASSUME NEW p \in Plugin, AbortPlugin(p)
      PROVE  Shape'
  <2> DEFINE ts == {t \in DOMAIN owner : owner[t] = p}
  <2>1. ts \in SUBSET Owned /\ AbortAll(ts, "up")
    BY <1>5 DEF AbortPlugin, Owned
  <2> QED
    BY <1>3, <2>1
<1>6. ASSUME Shutdown
      PROVE  Shape'
  <2>1. Owned \in SUBSET Owned /\ AbortAll(Owned, "down")
    BY <1>6 DEF Shutdown, Owned
  <2> QED
    BY <1>3, <2>1
<1> QED
  BY <1>1, <1>2, <1>4, <1>5, <1>6

\* A commit keeps the shape up to its first file, and after its last.
LEMMA CommitShape ==
    ASSUME Shape,
           WriteJournal \/ JournalFails \/ ApplyFails \/ CommitDone \/ RollbackDone
    PROVE  Shape'
<1> USE DEF Shape
<1> DEFINE t == job.tx
           r == tree[t]
<1>1. /\ Phase \in {"journal", "apply", "rollback"}
      /\ UNCHANGED <<used, up, todo, crashes, plan, done>>
  BY DEF WriteJournal, JournalFails, ApplyFails, CommitDone, RollbackDone, ghostVars
<1>2. up = "up" /\ t \in Owned /\ Kept(t) /\ t \in Tx /\ job.files \in FileLists /\ job # None
  BY <1>1, Working, JobTypes DEF JobMatches
<1>3. Len(job.files) \in Nat /\ Len(job.files) >= 1
  BY <1>2, Lists, BoundAssumption
<1>4. CASE WriteJournal
  <2>1. UNCHANGED <<live, owner>> /\ Owned' = Owned
    BY <1>4 DEF WriteJournal, Owned
  <2>2. CASE /\ r.journal = None /\ job' = job /\ UNCHANGED <<undecided, before>>
             /\ DirectoryBecomes(t, r.reserved, Torn, r.staged, r.backup)
    <3>1. TypeOK'
      BY <1>1, <1>2, <2>1, <2>2, Members DEF TypeOK, DirectoryBecomes, Owned
    <3>2. Directories'
      BY <1>1, <1>2, <2>1, <2>2, Members DEF Directories, DirectoryBecomes, Kept
    <3>3. Phase = "journal" /\ Phase' = "journal"
      BY <1>4, <2>2 DEF WriteJournal, Phase
    <3>4. JobMatches'
      BY <1>1, <1>2, <2>1, <2>2, <3>3 DEF JobMatches
    <3> QED
      BY <3>1, <3>2, <3>4
  <2>3. CASE /\ r.journal # None /\ undecided' = t /\ before' = live
             /\ DirectoryBecomes(t, r.reserved, job.files, r.staged, r.backup)
             /\ job' \in ApplyJob /\ job' \in Job /\ Phase' = "apply"
             /\ job'.tx = t /\ job'.files = job.files /\ job'.at = 1
             /\ job'.moved = FALSE /\ job'.applied = <<>>
    <3>1. TypeOK'
      BY <1>1, <1>2, <2>1, <2>3, Members DEF TypeOK, DirectoryBecomes, Owned
    <3>2. Directories'
      BY <1>1, <1>2, <2>1, <2>3, Members DEF Directories, DirectoryBecomes, Kept
    <3>3. tree'[t].journal = job'.files /\ Kept(t)'
      BY <2>3 DEF DirectoryBecomes, Kept
    <3>4. Len(job'.applied) = 0
      BY <2>3
    <3>5. AppliedMatches'
      BY <3>4 DEF AppliedMatches
    <3>6. job'.at \in 1 .. Len(job'.files) + 1 /\ ~ job'.moved /\ job'.at - 1 = 0
      BY <1>3, <2>3
    <3>7. Len(job'.applied) = IF job'.moved THEN job'.at ELSE job'.at - 1
      BY <3>4, <3>6
    <3>8. JobMatches'
      BY <1>1, <1>2, <2>1, <2>3, <3>3, <3>5, <3>6, <3>7, Zenon DEF JobMatches
    <3> QED
      BY <3>1, <3>2, <3>8
  <2> QED
    BY <1>4, <2>2, <2>3, WriteJournalEffect
<1>5. CASE JournalFails
  <2>1. job' = None /\ Phase' = "idle" /\ UNCHANGED <<live, owner, undecided, before>>
    BY <1>5, JournalFailsEffect DEF JournalFails, ghostVars
  <2>2. tree' \in [Tx -> Tree \cup {None}] /\ \A x \in Tx : Kept(x) <=> Kept(x)'
    <3>1. CASE tree' = tree
      BY <3>1 DEF TypeOK, Kept
    <3>2. CASE DirectoryBecomes(t, r.reserved, job.files, r.staged, r.backup)
      BY <1>2, <3>2 DEF DirectoryBecomes, Kept
    <3> QED
      BY <1>5, <3>1, <3>2, JournalFailsEffect
  <2>3. Owned' = Owned
    BY <2>1 DEF Owned
  <2>4. TypeOK'
    BY <1>1, <2>1, <2>2, <2>3 DEF TypeOK, Owned
  <2>5. Directories'
    BY <1>1, <1>2, <2>1, <2>2, <2>3, Members DEF Directories
  <2>6. JobMatches'
    BY <2>1 DEF JobMatches
  <2> QED
    BY <2>4, <2>5, <2>6
<1>6. CASE ApplyFails
  <2>1. /\ Phase = "apply"
        /\ job' \in RollbackJob /\ job' \in Job /\ Phase' = "rollback"
        /\ job'.tx = job.tx /\ job'.files = job.files /\ job'.applied = job.applied
    BY <1>6, ApplyFailsEffect
  <2>2. UNCHANGED <<live, tree, owner, undecided, before>>
    BY <1>6 DEF ApplyFails, ghostVars
  <2>3. Owned' = Owned
    BY <2>2 DEF Owned
  <2>4. TypeOK'
    BY <1>1, <2>1, <2>2, <2>3 DEF TypeOK, Owned
  <2>5. Directories'
    BY <1>1, <1>2, <2>1, <2>2, <2>3 DEF Directories, Kept
  <2>6. AppliedMatches'
    BY <2>1, <2>2 DEF JobMatches, AppliedMatches, HasBackup
  <2>7. Len(job'.applied) <= Len(job'.files)
    <3>1. /\ job.at \in 1 .. Len(job.files) + 1 /\ (job.moved => job.at <= Len(job.files))
          /\ Len(job.applied) = IF job.moved THEN job.at ELSE job.at - 1
      BY <2>1 DEF JobMatches
    <3> QED
      BY <1>3, <2>1, <3>1
  <2>8. tree'[job'.tx] # None /\ tree'[job'.tx].journal = job'.files
    BY <1>2, <2>1, <2>2 DEF JobMatches, Kept
  <2>9. JobMatches'
    BY <1>1, <1>2, <2>1, <2>3, <2>6, <2>7, <2>8 DEF JobMatches, Kept
  <2> QED
    BY <2>4, <2>5, <2>9
<1>7. CASE CommitDone \/ RollbackDone
  <2>1. /\ Phase \in {"apply", "rollback"}
        /\ job' \in RemoveJob /\ job' \in Job /\ Phase' = "remove"
        /\ job'.trees = {t} /\ job'.then = "up"
        /\ Owned' = Owned \ {t} /\ \A x \in Owned' : owner'[x] = owner[x]
    BY <1>7, EndEffect
  <2>2. UNCHANGED <<live, tree, before>> /\ undecided' \in {undecided, None}
    BY <1>7 DEF CommitDone, RollbackDone, EndTransaction
  <2>3. TypeOK'
    BY <1>1, <2>1, <2>2 DEF TypeOK, Owned
  <2>4. Directories'
    BY <1>1, <1>2, <2>1, <2>2 DEF Directories, Kept
  <2>5. JobMatches'
    BY <1>1, <1>2, <2>1, <2>2 DEF JobMatches, Directories, Kept
  <2> QED
    BY <2>3, <2>4, <2>5
<1> QED
  BY <1>4, <1>5, <1>6, <1>7

\* So it does file by file, and so does its rollback.
LEMMA FileShape ==
    ASSUME Shape,
           MoveToBackup \/ InstallPayload \/ RollbackFile \/ RollbackFails
    PROVE  Shape'
<1> USE DEF Shape
<1> DEFINE t == job.tx
           r == tree[t]
<1>1. /\ Phase \in {"apply", "rollback"}
      /\ UNCHANGED <<owner, used, up, todo, crashes, plan, done, undecided, before>>
  BY DEF MoveToBackup, InstallPayload, RollbackFile, RollbackFails, ghostVars
<1>2. /\ up = "up" /\ t \in Owned /\ Kept(t) /\ t \in Tx /\ job.files \in FileLists /\ job # None
      /\ r.journal = job.files
  BY <1>1, Working, JobTypes DEF JobMatches
<1>3. Len(job.files) \in Nat /\ Len(job.files) >= 1
  BY <1>2, Lists, BoundAssumption
<1>4. Owned' = Owned
  BY <1>1 DEF Owned
<1>5. ASSUME live' \in [Path -> Tx \cup {Absent, Old}], job' \in Job,
             tree' = tree \/ \E s, b : DirectoryBecomes(t, r.reserved, r.journal, s, b)
      PROVE  TypeOK' /\ Directories' /\ tree'[t] # None /\ tree'[t].journal = job.files
  <2>1. /\ tree' \in [Tx -> Tree \cup {None}] /\ \A x \in Tx : Kept(x) <=> Kept(x)'
        /\ tree'[t] # None /\ tree'[t].journal = job.files
    <3>1. CASE tree' = tree
      BY <1>2, <3>1 DEF TypeOK, Kept
    <3>2. ASSUME NEW s, NEW b, DirectoryBecomes(t, r.reserved, r.journal, s, b)
          PROVE  /\ tree' \in [Tx -> Tree \cup {None}] /\ \A x \in Tx : Kept(x) <=> Kept(x)'
                 /\ tree'[t] # None /\ tree'[t].journal = job.files
      BY <1>2, <3>2 DEF DirectoryBecomes, Kept
    <3> QED
      BY <1>5, <3>1, <3>2
  <2>2. TypeOK'
    BY <1>1, <1>4, <1>5, <2>1 DEF TypeOK, Owned
  <2>3. Directories'
    BY <1>1, <1>2, <1>4, <2>1, Members DEF Directories
  <2> QED
    BY <2>1, <2>2, <2>3
<1>6. \A p \in Path : live[p] \in Tx \cup {Absent, Old} /\ DOMAIN live = Path
  BY DEF TypeOK
<1>7. CASE MoveToBackup
  <2> DEFINE exists == live[Target] # Absent
             a == [at |-> job.at, installed |-> FALSE, backed_up |-> exists]
  <2>1. /\ Phase = "apply" /\ job.at \in 1 .. Len(job.files) /\ ~ job.moved
        /\ IF exists
           THEN DirectoryBecomes(t, r.reserved, r.journal, r.staged,
                                 WithBackup(t, job.at, live[Target]))
           ELSE tree' = tree
        /\ job' \in ApplyJob /\ job' \in Job /\ Phase' = "apply"
        /\ job'.tx = t /\ job'.files = job.files /\ job'.at = job.at /\ job'.moved = TRUE
        /\ Len(job'.applied) = job.at
        /\ job'.applied[job.at] = a
        /\ \A k \in 1 .. job.at - 1 : job'.applied[k] = job.applied[k]
    BY <1>7, MoveToBackupEffect
  <2>2. live' = [live EXCEPT ![Target] = Absent]
    BY <1>7 DEF MoveToBackup
  <2>3. live' \in [Path -> Tx \cup {Absent, Old}]
    BY <2>2 DEF TypeOK
  <2>4. TypeOK' /\ Directories' /\ tree'[t] # None /\ tree'[t].journal = job.files
    BY <1>5, <2>1, <2>3
  <2>5. AppliedMatches /\ Len(job.applied) = job.at - 1
    <3>1. AppliedMatches /\ Len(job.applied) = IF job.moved THEN job.at ELSE job.at - 1
      BY <2>1 DEF JobMatches
    <3> QED
      BY <2>1, <3>1, Zenon
  <2>6. job.at \in 1 .. MaxFiles
    BY <2>1, Targets
  <2>7. \A k \in 1 .. job.at : /\ HasBackup(t, k) => k \in DOMAIN tree'[t].backup
                               /\ k = job.at /\ exists => k \in DOMAIN tree'[t].backup
    <3>1. exists => tree'[t].backup = WithBackup(t, job.at, live[Target])
      BY <2>1 DEF DirectoryBecomes
    <3>2. DOMAIN WithBackup(t, job.at, live[Target]) = DOMAIN r.backup \cup {job.at}
      BY DEF WithBackup
    <3>3. exists => DOMAIN tree'[t].backup = DOMAIN r.backup \cup {job.at}
      BY <3>1, <3>2, Zenon
    <3>4. ~ exists => tree' = tree
      BY <2>1
    <3> HIDE DEF exists
    <3> QED
      BY <3>3, <3>4 DEF HasBackup
  <2>8. ASSUME NEW k \in 1 .. job.at
        PROVE  /\ job'.applied[k].at = k
               /\ job'.applied[k].backed_up => k \in DOMAIN tree'[t].backup
    <3>1. CASE k = job.at
      <4>1. job'.applied[k] = a /\ a.at = job.at /\ (a.backed_up <=> exists)
        BY <2>1, <3>1
      <4>2. exists => k \in DOMAIN tree'[t].backup
        BY <2>7, <3>1
      <4> HIDE DEF a, exists
      <4> QED
        BY <3>1, <4>1, <4>2
    <3>2. CASE k # job.at
      <4>1. k \in 1 .. job.at - 1
        BY <2>1, <3>2
      <4> QED
        BY <2>1, <2>5, <2>7, <4>1 DEF AppliedMatches
    <3> QED
      BY <3>1, <3>2
  <2>9. AppliedMatches'
    BY <2>1, <2>8 DEF AppliedMatches, HasBackup
  <2>10. Len(job'.applied) = IF job'.moved THEN job'.at ELSE job'.at - 1
    BY <2>1
  <2>11. job'.at \in 1 .. Len(job'.files) + 1 /\ job'.at <= Len(job'.files)
    BY <1>3, <2>1
  <2>12. JobMatches'
    BY <1>1, <1>2, <1>4, <2>1, <2>4, <2>9, <2>10, <2>11, Zenon DEF JobMatches, Kept
  <2> QED
    BY <2>4, <2>12
<1>8. CASE InstallPayload
  <2> DEFINE put == ~ job.files[job.at].remove
  <2>1. /\ Phase = "apply" /\ job.at \in 1 .. Len(job.files) /\ job.moved
        /\ live' = IF put THEN [live EXCEPT ![Target] = t] ELSE live
        /\ DirectoryBecomes(t, r.reserved, r.journal, r.staged \ {job.at}, r.backup)
        /\ job' \in ApplyJob /\ job' \in Job /\ Phase' = "apply"
        /\ job'.tx = t /\ job'.files = job.files /\ job'.at = job.at + 1
        /\ job'.moved = FALSE
        /\ Len(job.applied) = job.at /\ Len(job'.applied) = job.at
        /\ job'.applied[job.at] = [at |-> job.applied[job.at].at, installed |-> put,
                                   backed_up |-> job.applied[job.at].backed_up]
        /\ \A k \in 1 .. job.at - 1 : job'.applied[k] = job.applied[k]
    BY <1>8, InstallPayloadEffect
  <2>2. live' \in [Path -> Tx \cup {Absent, Old}]
    BY <1>2, <2>1 DEF TypeOK
  <2>3. TypeOK' /\ Directories' /\ tree'[t] # None /\ tree'[t].journal = job.files
    BY <1>5, <2>1, <2>2
  <2>4. AppliedMatches
    BY <2>1 DEF JobMatches
  <2>5. tree'[t].backup = r.backup
    BY <2>1 DEF DirectoryBecomes
  <2>6. ASSUME NEW k \in 1 .. job.at
        PROVE  /\ job'.applied[k].at = k
               /\ job'.applied[k].backed_up => k \in DOMAIN tree'[t].backup
    <3>1. job.applied[k].at = k /\ (job.applied[k].backed_up => k \in DOMAIN r.backup)
      BY <2>1, <2>4 DEF AppliedMatches, HasBackup
    <3>2. CASE k = job.at
      BY <2>1, <2>5, <3>1, <3>2
    <3>3. CASE k # job.at
      <4>1. k \in 1 .. job.at - 1
        BY <2>1, <3>3
      <4> QED
        BY <2>1, <2>5, <3>1, <4>1
    <3> QED
      BY <3>2, <3>3
  <2>7. AppliedMatches'
    BY <2>1, <2>6 DEF AppliedMatches, HasBackup
  <2>8. job'.at - 1 = job.at /\ job'.at \in 1 .. Len(job'.files) + 1
    BY <1>3, <2>1
  <2>9. Len(job'.applied) = IF job'.moved THEN job'.at ELSE job'.at - 1
    BY <2>1, <2>8
  <2>10. JobMatches'
    BY <1>1, <1>2, <1>4, <2>1, <2>3, <2>7, <2>8, <2>9, Zenon DEF JobMatches, Kept
  <2> QED
    BY <2>3, <2>10
<1>9. ASSUME Phase = "rollback", job.applied # <<>>,
             Phase' = "rollback", job' \in RollbackJob,
             job'.tx = t, job'.files = job.files,
             Len(job'.applied) <= Len(job.applied),
             \A k \in 1 .. Len(job'.applied) :
                /\ job'.applied[k].at = k
                /\ job'.applied[k].backed_up => k \in DOMAIN tree'[t].backup,
             tree'[t] # None, tree'[t].journal = job.files
      PROVE  JobMatches'
  <2>1. Len(job.applied) <= Len(job.files)
    BY <1>9 DEF JobMatches
  <2>2. Len(job.applied) \in Nat /\ Len(job'.applied) \in Nat
    BY <1>9, JobTypes, LenProperties DEF RollbackJob
  <2>3. Len(job'.applied) <= Len(job'.files)
    BY <1>3, <1>9, <2>1, <2>2
  <2>4. AppliedMatches'
    BY <1>9 DEF AppliedMatches, HasBackup
  <2> QED
    BY <1>1, <1>2, <1>4, <1>9, <2>3, <2>4, Zenon DEF JobMatches, Kept
<1>10. CASE RollbackFile
  <2> DEFINE k == Len(job.applied)
             path == job.files[k].path
  <2>1. /\ Phase = "rollback" /\ job.applied # <<>>
        /\ job' \in RollbackJob /\ job' \in Job /\ Phase' = "rollback"
        /\ job'.tx = t /\ job'.files = job.files
        /\ \A i \in 1 .. k - 1 : job'.applied[i] = job.applied[i]
    BY <1>10, RollbackFileEffect
  <2>2. /\ k \in 1 .. Len(job.files) /\ k \in 1 .. MaxFiles /\ path \in Path
        /\ job.applied[k].at = k /\ (job.applied[k].backed_up => HasBackup(t, k))
    BY <2>1, RollbackLast
  <2>3. AppliedMatches
    BY <2>1 DEF JobMatches
  <2>4. CASE job.applied[k].installed
    <3>1. /\ live' = [live EXCEPT ![path] = Absent]
          /\ tree' = tree
          /\ Len(job'.applied) = k
          /\ job'.applied[k] = [at |-> job.applied[k].at, installed |-> FALSE,
                                backed_up |-> job.applied[k].backed_up]
      BY <1>10, <2>4, RollbackFileEffect
    <3>2. live' \in [Path -> Tx \cup {Absent, Old}]
      BY <3>1 DEF TypeOK
    <3>3. TypeOK' /\ Directories' /\ tree'[t] # None /\ tree'[t].journal = job.files
      BY <1>5, <2>1, <3>1, <3>2
    <3>4. ASSUME NEW i \in 1 .. k
          PROVE  /\ job'.applied[i].at = i
                 /\ job'.applied[i].backed_up => i \in DOMAIN tree'[t].backup
      <4>1. CASE i = k
        BY <2>2, <3>1, <4>1 DEF HasBackup
      <4>2. CASE i # k
        <5>1. i \in 1 .. k - 1
          BY <2>2, <4>2
        <5> QED
          BY <2>1, <2>3, <3>1, <5>1 DEF AppliedMatches, HasBackup
      <4> QED
        BY <4>1, <4>2
    <3>5. Len(job'.applied) <= Len(job.applied)
      BY <2>2, <3>1
    <3>6. JobMatches'
      BY <1>9, <2>1, <3>1, <3>3, <3>4, <3>5
    <3> QED
      BY <3>3, <3>6
  <2>5. CASE ~ job.applied[k].installed
    <3>1. /\ live' = IF job.applied[k].backed_up
                     THEN [live EXCEPT ![path] = r.backup[k]] ELSE live
          /\ DirectoryBecomes(t, r.reserved, r.journal, r.staged, WithoutBackup(t, k))
          /\ Len(job'.applied) = k - 1
      BY <1>10, <2>5, RollbackFileEffect
    <3>2. job.applied[k].backed_up => r.backup[k] \in Tx \cup {Old}
      BY <1>1, <2>2, Working, BackupTypes DEF HasBackup
    <3>3. live' \in [Path -> Tx \cup {Absent, Old}]
      BY <3>1, <3>2 DEF TypeOK
    <3>4. TypeOK' /\ Directories' /\ tree'[t] # None /\ tree'[t].journal = job.files
      BY <1>5, <2>1, <3>1, <3>3
    <3>5. DOMAIN tree'[t].backup = DOMAIN r.backup \ {k}
      <4>1. tree'[t].backup = WithoutBackup(t, k)
        BY <3>1 DEF DirectoryBecomes
      <4>2. DOMAIN WithoutBackup(t, k) = DOMAIN r.backup \ {k}
        BY DEF WithoutBackup
      <4> QED
        BY <4>1, <4>2, Zenon
    <3>6. ASSUME NEW i \in 1 .. k - 1
          PROVE  /\ job'.applied[i].at = i
                 /\ job'.applied[i].backed_up => i \in DOMAIN tree'[t].backup
      BY <2>1, <2>2, <2>3, <3>5 DEF AppliedMatches, HasBackup
    <3>7. Len(job'.applied) <= Len(job.applied)
      BY <2>2, <3>1
    <3>8. JobMatches'
      BY <1>9, <2>1, <3>1, <3>4, <3>6, <3>7
    <3> QED
      BY <3>4, <3>8
  <2> QED
    BY <2>4, <2>5
<1>11. CASE RollbackFails
  <2> DEFINE k == Len(job.applied)
  <2>1. /\ Phase = "rollback" /\ job.applied # <<>>
        /\ job' \in RollbackJob /\ job' \in Job /\ Phase' = "rollback"
        /\ job'.tx = t /\ job'.files = job.files
        /\ Len(job'.applied) = k - 1
        /\ \A i \in 1 .. k - 1 : job'.applied[i] = job.applied[i]
    BY <1>11, RollbackFailsEffect
  <2>2. k \in 1 .. Len(job.files)
    BY <2>1, RollbackLast
  <2>3. live' = live /\ tree' = tree
    BY <1>11 DEF RollbackFails
  <2>4. live' \in [Path -> Tx \cup {Absent, Old}]
    BY <2>3 DEF TypeOK
  <2>5. TypeOK' /\ Directories' /\ tree'[t] # None /\ tree'[t].journal = job.files
    BY <1>5, <2>1, <2>3, <2>4
  <2>6. AppliedMatches
    BY <2>1 DEF JobMatches
  <2>7. ASSUME NEW i \in 1 .. k - 1
        PROVE  /\ job'.applied[i].at = i
               /\ job'.applied[i].backed_up => i \in DOMAIN tree'[t].backup
    BY <2>1, <2>2, <2>3, <2>6 DEF AppliedMatches, HasBackup
  <2>8. Len(job'.applied) <= Len(job.applied)
    BY <2>1, <2>2
  <2>9. JobMatches'
    BY <1>9, <2>1, <2>5, <2>7, <2>8
  <2> QED
    BY <2>5, <2>9
<1> QED
  BY <1>7, <1>8, <1>10, <1>11

\* Removal keeps the shape, entry by entry and directory by directory.
LEMMA RemovalShape ==
    ASSUME Shape,
           \/ \E t \in Tx : RemoveEntry(t) \/ RemoveRoot(t) \/ RemoveFails(t)
           \/ RemovalDone
    PROVE  Shape'
<1> USE DEF Shape
<1>1. Phase = "remove" /\ UNCHANGED <<live, owner, used, todo, crashes, plan, before>>
  BY DEF RemoveEntry, RemoveRoot, RemoveFails, RemovalDone, Decide, ghostVars
<1>2. /\ job \in RemoveJob /\ job.trees \subseteq Tx /\ job.then \in {"up", "starting", "down"}
      /\ job # None
  BY <1>1, JobTypes
<1>3. /\ \A t \in job.trees : Kept(t) /\ t \notin Owned \cup todo
      /\ job.then = "starting" <=> up = "starting"
      /\ up # "up" => job.then = up
      /\ job.then = "down" => Owned = {}
      /\ up # "down"
  BY <1>1, <1>2 DEF JobMatches, Directories
<1>4. Owned' = Owned
  BY <1>1 DEF Owned
<1>5. ASSUME NEW t \in Tx, RemoveEntry(t)
      PROVE  Shape'
  <2>1. t \in job.trees /\ Kept(t) /\ \E j, s, b : DirectoryBecomes(t, tree[t].reserved, j, s, b)
    BY <1>5, RemoveEntryEffect
  <2>2. job' = job /\ up' = up /\ done' = done /\ undecided' = undecided
    BY <1>5 DEF RemoveEntry, ghostVars
  <2>3. tree' \in [Tx -> Tree \cup {None}] /\ \A x \in Tx : Kept(x)' <=> Kept(x)
    BY <2>1 DEF DirectoryBecomes, Kept
  <2>4. TypeOK'
    BY <1>1, <1>4, <2>2, <2>3 DEF TypeOK, Owned
  <2>5. Directories'
    BY <1>1, <1>4, <2>2, <2>3, Members DEF Directories
  <2>6. Phase' = "remove"
    BY <1>1, <2>2 DEF Phase
  <2>7. \A x \in job'.trees : Kept(x)' /\ x \notin (Owned \cup todo)'
    BY <1>1, <1>2, <1>3, <1>4, <2>2, <2>3
  <2>8. JobMatches'
    BY <1>3, <1>4, <2>2, <2>6, <2>7 DEF JobMatches
  <2> QED
    BY <2>4, <2>5, <2>8
<1>6. ASSUME NEW t \in Tx, RemoveRoot(t) \/ RemoveFails(t)
      PROVE  Shape'
  <2>1. /\ t \in job.trees /\ Kept(t)
        /\ job' \in RemoveJob /\ job' \in Job /\ Phase' = "remove"
        /\ job'.trees = job.trees \ {t} /\ job'.then = job.then
        /\ Decide(t)
        /\ tree' \in [Tx -> Tree \cup {None}] /\ \A x \in Tx \ {t} : tree'[x] = tree[x]
        /\ \/ tree'[t] = None
           \/ tree' = tree /\ "remove" \in FailIn
    BY <1>6, LeavesRemoval
  <2>2. up' = up
    BY <1>6 DEF RemoveRoot, RemoveFails
  <2>3. t \in used /\ t \notin Owned \cup todo
    BY <1>3, <2>1 DEF Directories
  <2>4. done' \subseteq used' /\ undecided' \in Tx \cup {None}
    BY <1>1, <2>1, <2>3 DEF Decide, TypeOK
  <2>5. TypeOK'
    BY <1>1, <1>4, <2>1, <2>2, <2>4 DEF TypeOK, Owned
  <2>6. \A x \in Tx : (Kept(x)' => Kept(x)) /\ (x # t /\ Kept(x) => Kept(x)')
    BY <2>1 DEF Kept
  <2>7. Directories'
    BY <1>1, <1>3, <1>4, <2>2, <2>3, <2>6, Members DEF Directories
  <2>8. \A x \in job'.trees : Kept(x)' /\ x \notin (Owned \cup todo)'
    BY <1>1, <1>2, <1>3, <1>4, <2>1, <2>6
  <2>9. JobMatches'
    BY <1>3, <1>4, <2>1, <2>2, <2>8 DEF JobMatches
  <2> QED
    BY <2>5, <2>7, <2>9
<1>7. CASE RemovalDone
  <2>1. job' = None /\ up' = job.then /\ UNCHANGED <<tree, done, undecided>>
    BY <1>7 DEF RemovalDone, ghostVars
  <2>2. Phase' = "idle"
    BY <2>1 DEF Phase
  <2>3. TypeOK'
    BY <1>1, <1>2, <1>4, <2>1 DEF TypeOK, Owned
  <2>4. Directories'
    BY <1>1, <1>2, <1>3, <1>4, <2>1 DEF Directories, Kept
  <2>5. JobMatches'
    BY <2>2 DEF JobMatches
  <2> QED
    BY <2>3, <2>4, <2>5
<1> QED
  BY <1>5, <1>6, <1>7

\* A start keeps the shape: what it visits, restores and leaves.
LEMMA RecoveryShape ==
    ASSUME Shape,
           \/ Start \/ (\E t \in Tx : RecoverNext(t))
           \/ Restore \/ RestoreFails \/ RestoreDone \/ Opened
    PROVE  Shape'
<1> USE DEF Shape
<1>1. UNCHANGED <<owner, used, crashes, plan, done, before>>
  BY DEF Start, RecoverNext, Restore, RestoreFails, RestoreDone, Opened, ghostVars
<1>2. Owned' = Owned
  BY <1>1 DEF Owned
<1>3. CASE Start
  <2>1. /\ up = "down" /\ up' = "starting" /\ todo' = {t \in Tx : tree[t] # None}
        /\ UNCHANGED <<live, tree, job, undecided>> /\ job = None
    BY <1>3 DEF Start, ghostVars, Directories
  <2>2. TypeOK'
    BY <1>1, <1>2, <2>1 DEF TypeOK, Owned
  <2>3. Directories'
    BY <1>1, <1>2, <2>1 DEF Directories, Kept
  <2>4. Phase' = "idle"
    BY <2>1 DEF Phase
  <2>5. JobMatches'
    BY <2>4 DEF JobMatches
  <2> QED
    BY <2>2, <2>3, <2>5
<1>4. ASSUME NEW t \in Tx, RecoverNext(t)
      PROVE  Shape'
  <2>1. UNCHANGED <<live, tree, undecided>>
    BY <1>4 DEF RecoverNext, ghostVars
  <2>2. /\ up = "starting" /\ job = None /\ Phase = "idle" /\ t \in todo /\ Kept(t)
        /\ todo' = todo \ {t} /\ tree[t] \in Tree
    BY <1>4, RecoverNextEffect
  <2>3. Owned = {} /\ todo \subseteq Tx
    BY <2>2, Members DEF Directories
  <2>4. ASSUME up' \in {"starting", "down"}, up' = "down" => job' = None, job' \in Job \cup {None}
        PROVE  TypeOK' /\ Directories'
    <3>1. TypeOK'
      BY <1>1, <1>2, <2>1, <2>2, <2>4 DEF TypeOK, Owned
    <3>2. Directories'
      BY <1>1, <1>2, <2>1, <2>2, <2>3, <2>4 DEF Directories, Kept
    <3> QED
      BY <3>1, <3>2
  <2>5. CASE tree[t].journal = Torn /\ job' = None /\ Phase' = "idle" /\ up' = "down"
    <3>1. JobMatches'
      BY <2>5 DEF JobMatches
    <3> QED
      BY <2>4, <2>5, <3>1
  <2>6. CASE /\ tree[t].journal \in {None, Torn} /\ up' = up
             /\ job' \in RemoveJob /\ job' \in Job /\ Phase' = "remove"
             /\ job'.trees = {t} /\ job'.then = "starting"
    <3>1. Kept(t)' /\ t \notin (Owned \cup todo)'
      BY <1>2, <2>1, <2>2, <2>3 DEF Kept
    <3>2. JobMatches'
      BY <1>2, <2>2, <2>3, <2>6, <3>1 DEF JobMatches
    <3> QED
      BY <2>2, <2>4, <2>6, <3>2
  <2>7. CASE /\ Journaled(t) /\ tree[t].journal \in FileLists /\ up' = up
             /\ job' \in RestoreJob /\ job' \in Job /\ Phase' = "restore"
             /\ job'.tx = t /\ job'.files = tree[t].journal
             /\ job'.at = Len(tree[t].journal)
    <3>1. Len(job'.files) \in Nat /\ job'.at = Len(job'.files)
      BY <2>7, Lists, BoundAssumption
    <3>2. job'.at \in 0 .. Len(job'.files)
      BY <3>1
    <3>3. tree'[job'.tx] # None /\ tree'[job'.tx].journal = job'.files /\ job'.tx \notin todo'
      BY <2>1, <2>2, <2>7 DEF Kept
    <3>4. JobMatches'
      BY <2>2, <2>7, <3>2, <3>3 DEF JobMatches, Kept
    <3> QED
      BY <2>2, <2>4, <2>7, <3>4
  <2> QED
    BY <1>4, <2>5, <2>6, <2>7, RecoverNextEffect
<1>5. CASE Restore
  <2> DEFINE t == job.tx
             r == tree[t]
             i == job.at
             Moves == /\ job'.at = i - 1 /\ job' \in RestoreJob /\ job' \in Job
                      /\ Phase' = "restore" /\ job'.tx = t /\ job'.files = job.files
  <2>1. Phase = "restore" /\ i \in 1 .. Len(job.files)
    BY <1>5, RestoreEffect
  <2>2. /\ job \in RestoreJob /\ t \in Tx /\ Kept(t) /\ r.journal = job.files /\ job # None
        /\ job.files \in FileLists /\ up = "starting" /\ t \notin todo
    BY <2>1, Working, JobTypes DEF JobMatches
  <2>3. UNCHANGED <<up, todo, undecided>>
    BY <1>5 DEF Restore, ghostVars
  <2>4. Target \in Path /\ Len(job.files) \in Nat
    BY <2>1, <2>2, Targets, Lists, BoundAssumption
  <2>5. ASSUME live' \in [Path -> Tx \cup {Absent, Old}],
               tree' = tree \/ \E s, b : DirectoryBecomes(t, r.reserved, r.journal, s, b),
               (job' = job /\ Phase' = Phase) \/ Moves
        PROVE  Shape'
    <3>1. /\ tree' \in [Tx -> Tree \cup {None}] /\ \A x \in Tx : Kept(x) <=> Kept(x)'
          /\ tree'[t] # None /\ tree'[t].journal = job.files
      <4>1. CASE tree' = tree
        BY <2>2, <4>1 DEF TypeOK, Kept
      <4>2. ASSUME NEW s, NEW b, DirectoryBecomes(t, r.reserved, r.journal, s, b)
            PROVE  /\ tree' \in [Tx -> Tree \cup {None}] /\ \A x \in Tx : Kept(x) <=> Kept(x)'
                   /\ tree'[t] # None /\ tree'[t].journal = job.files
        BY <2>2, <4>2 DEF DirectoryBecomes, Kept
      <4> QED
        BY <2>5, <4>1, <4>2
    <3>2. /\ job' \in Job /\ Phase' = "restore" /\ job'.tx = t /\ job'.files = job.files
          /\ job'.at \in {i, i - 1}
      BY <2>1, <2>2, <2>5 DEF TypeOK
    <3>3. job'.at \in 0 .. Len(job'.files)
      BY <2>1, <2>4, <3>2
    <3>4. TypeOK'
      BY <1>1, <1>2, <2>3, <2>5, <3>1, <3>2 DEF TypeOK, Owned
    <3>5. Directories'
      BY <1>1, <1>2, <2>2, <2>3, <3>1, Members DEF Directories
    <3>6. JobMatches'
      BY <2>2, <2>3, <3>1, <3>2, <3>3 DEF JobMatches, Kept
    <3> QED
      BY <3>4, <3>5, <3>6
  <2>6. CASE /\ HasBackup(t, i) /\ live[Target] # Absent
             /\ live' = [live EXCEPT ![Target] = Absent]
             /\ tree' = tree /\ job' = job /\ Phase' = Phase
    <3>1. live' \in [Path -> Tx \cup {Absent, Old}]
      BY <2>6 DEF TypeOK
    <3> QED
      BY <2>5, <2>6, <3>1
  <2>7. CASE /\ HasBackup(t, i) /\ live[Target] = Absent
             /\ live' = [live EXCEPT ![Target] = r.backup[i]]
             /\ DirectoryBecomes(t, r.reserved, r.journal, r.staged, WithoutBackup(t, i))
             /\ Moves
    <3>1. r.backup[i] \in Tx \cup {Old}
      BY <2>1, <2>7, Working, BackupTypes DEF HasBackup
    <3>2. live' \in [Path -> Tx \cup {Absent, Old}]
      BY <2>7, <3>1 DEF TypeOK
    <3> HIDE DEF Moves
    <3> QED
      BY <2>5, <2>7, <3>2
  <2>8. CASE /\ ~ HasBackup(t, i)
             /\ live' = IF ~ job.files[i].remove /\ i \notin r.staged
                        THEN [live EXCEPT ![Target] = Absent] ELSE live
             /\ tree' = tree
             /\ Moves
    <3>1. live' \in [Path -> Tx \cup {Absent, Old}]
      BY <2>8 DEF TypeOK
    <3> HIDE DEF Moves
    <3> QED
      BY <2>5, <2>8, <3>1
  <2> QED
    BY <1>5, <2>6, <2>7, <2>8, RestoreEffect
<1>6. CASE RestoreFails
  <2>1. /\ job' = None /\ up' = "down" /\ Phase = "restore"
        /\ UNCHANGED <<live, tree, todo, undecided>>
    BY <1>6 DEF RestoreFails, ghostVars
  <2>2. up = "starting"
    BY <2>1 DEF JobMatches
  <2>3. TypeOK'
    BY <1>1, <1>2, <2>1 DEF TypeOK, Owned
  <2>4. Directories'
    BY <1>1, <1>2, <2>1, <2>2 DEF Directories, Kept
  <2>5. Phase' = "idle"
    BY <2>1 DEF Phase
  <2>6. JobMatches'
    BY <2>5 DEF JobMatches
  <2> QED
    BY <2>3, <2>4, <2>6
<1>7. CASE RestoreDone
  <2>1. /\ Phase = "restore" /\ job.tx \in Tx /\ job.at = 0
        /\ job' \in RemoveJob /\ job' \in Job /\ Phase' = "remove"
        /\ job'.trees = {job.tx} /\ job'.then = "starting"
    BY <1>7, RestoreDoneEffect
  <2>2. UNCHANGED <<live, tree, up, todo>> /\ undecided' \in {undecided, None}
    BY <1>7 DEF RestoreDone
  <2>3. up = "starting" /\ job.tx \notin todo /\ Kept(job.tx) /\ Owned = {}
    BY <2>1 DEF JobMatches, Directories
  <2>4. TypeOK'
    BY <1>1, <1>2, <2>1, <2>2 DEF TypeOK, Owned
  <2>5. Directories'
    BY <1>1, <1>2, <2>2, <2>3 DEF Directories, Kept
  <2>6. \A x \in job'.trees : Kept(x)' /\ x \notin (Owned \cup todo)'
    BY <1>2, <2>1, <2>2, <2>3 DEF Kept
  <2>7. JobMatches'
    BY <1>2, <2>1, <2>2, <2>3, <2>6 DEF JobMatches
  <2> QED
    BY <2>4, <2>5, <2>7
<1>8. CASE Opened
  <2>1. /\ up = "starting" /\ job = None /\ todo = {} /\ up' = "up"
        /\ UNCHANGED <<live, tree, job, todo, undecided>>
    BY <1>8 DEF Opened, ghostVars
  <2>2. TypeOK'
    BY <1>1, <1>2, <2>1 DEF TypeOK, Owned
  <2>3. Directories'
    BY <1>1, <1>2, <2>1 DEF Directories, Kept
  <2>4. Phase' = "idle"
    BY <2>1 DEF Phase
  <2>5. JobMatches'
    BY <2>4 DEF JobMatches
  <2> QED
    BY <2>2, <2>3, <2>5
<1> QED
  BY <1>3, <1>4, <1>5, <1>6, <1>7, <1>8

\* A crash leaves the files.
LEMMA CrashShape ==
    ASSUME Shape, Crash
    PROVE  Shape'
<1> USE DEF Shape
<1>1. /\ crashes < MaxCrashes /\ crashes' = crashes + 1
      /\ up' = "down" /\ job' = None /\ owner' = <<>> /\ todo' = {}
      /\ UNCHANGED <<live, tree, used, plan, done, undecided, before>>
  BY DEF Crash, ghostVars
<1>2. Owned' = {} /\ DOMAIN owner' = {}
  BY <1>1 DEF Owned
<1>3. crashes' \in 0 .. MaxCrashes
  BY <1>1, BoundAssumption DEF TypeOK
<1>4. TypeOK'
  BY <1>1, <1>2, <1>3 DEF TypeOK
<1>5. Directories'
  BY <1>1, <1>2 DEF Directories, Kept
<1>6. Phase' = "idle"
  BY <1>1 DEF Phase
<1>7. JobMatches'
  BY <1>6 DEF JobMatches
<1> QED
  BY <1>4, <1>5, <1>7

\* Every step keeps the shape.
LEMMA ShapeNext == Shape /\ [Next]_vars => Shape'
<1> SUFFICES ASSUME Shape, [Next]_vars
             PROVE  Shape'
  OBVIOUS
<1>1. CASE UNCHANGED vars
  <2>1. /\ TypeOK' <=> TypeOK
        /\ Directories' <=> Directories
        /\ JobMatches' <=> JobMatches
    BY <1>1 DEF vars, TypeOK, Directories, JobMatches, AppliedMatches, HasBackup, Phase, Kept,
                Owned
  <2> QED
    BY <2>1 DEF Shape
<1>2. CASE Step
  BY <1>2, CommitShape, FileShape, RemovalShape, RecoveryShape DEF Step
<1>3. CASE Next /\ ~ Step
  BY <1>3, CallShape, RecoveryShape, CrashShape DEF Next
<1> QED
  BY <1>1, <1>2, <1>3

\* Every variable has its type.
THEOREM TypeCorrect == Spec => []TypeOK
<1>1. Shape => TypeOK
  BY DEF Shape
<1> QED
  BY <1>1, ShapeInit, ShapeNext, PTL DEF Spec
-----------------------------------------------------------------------------
(***************************************************************************)
(* A file changes only under a complete journal that names it              *)
(***************************************************************************)
\* The files of a job that moves files are named by a complete journal.
LEMMA JournalNames ==
    ASSUME Shape, Phase \in {"apply", "rollback", "restore"}, NEW k \in 1 .. Len(job.files)
    PROVE  \E t \in Tx : /\ Journaled(t)
                         /\ \E i \in DOMAIN tree[t].journal :
                               tree[t].journal[i].path = job.files[k].path
<1>1. job.tx \in Tx /\ Kept(job.tx) /\ job.files \in FileLists
  BY Working
<1>2. tree[job.tx].journal = job.files
  BY DEF Shape, JobMatches
<1>3. job.files # None /\ job.files # Torn /\ k \in DOMAIN job.files
  BY <1>1, Lists
<1>4. Journaled(job.tx)
  BY <1>1, <1>2, <1>3 DEF Journaled, Kept
<1> QED
  BY <1>1, <1>2, <1>3, <1>4

\* No step changes a file that no complete journal names.
LEMMA StepsAreJournaled ==
    ASSUME Shape, [Next]_vars, NEW p \in Path, live'[p] # live[p]
    PROVE  \E t \in Tx : /\ Journaled(t)
                         /\ \E i \in DOMAIN tree[t].journal : tree[t].journal[i].path = p
<1>1. live \in [Path -> Tx \cup {Absent, Old}]
  BY DEF Shape, TypeOK
<1>2. live' # live
  OBVIOUS
<1>3. CASE MoveToBackup
  <2>1. Phase = "apply" /\ job.at \in 1 .. Len(job.files)
    BY <1>3, MoveToBackupEffect
  <2>2. live' = [live EXCEPT ![Target] = Absent]
    BY <1>3 DEF MoveToBackup
  <2>3. p = job.files[job.at].path
    BY <1>1, <2>2 DEF Target
  <2> QED
    BY <2>1, <2>3, JournalNames
<1>4. CASE InstallPayload
  <2>1. Phase = "apply" /\ job.at \in 1 .. Len(job.files)
    BY <1>4, InstallPayloadEffect
  <2>2. live' = IF ~ job.files[job.at].remove THEN [live EXCEPT ![Target] = job.tx] ELSE live
    BY <1>4, InstallPayloadEffect
  <2>3. p = job.files[job.at].path
    BY <1>1, <2>2 DEF Target
  <2> QED
    BY <2>1, <2>3, JournalNames
<1>5. CASE RollbackFile
  <2> DEFINE k == Len(job.applied)
             path == job.files[k].path
  <2>1. Phase = "rollback" /\ job.applied # <<>>
    BY <1>5, RollbackFileEffect
  <2>2. k \in 1 .. Len(job.files)
    BY <2>1, RollbackLast
  <2>3. live' \in {[live EXCEPT ![path] = Absent], [live EXCEPT ![path] = tree[job.tx].backup[k]],
                   live}
    BY <1>5, RollbackFileEffect
  <2>4. p = path
    BY <1>1, <2>3
  <2> QED
    BY <2>1, <2>2, <2>4, JournalNames
<1>6. CASE Restore
  <2>1. Phase = "restore" /\ job.at \in 1 .. Len(job.files)
    BY <1>6, RestoreEffect
  <2>2. live' \in {[live EXCEPT ![Target] = Absent],
                   [live EXCEPT ![Target] = tree[job.tx].backup[job.at]], live}
    BY <1>6, RestoreEffect
  <2>3. p = job.files[job.at].path
    BY <1>1, <2>2 DEF Target
  <2> QED
    BY <2>1, <2>3, JournalNames
<1>7. CASE ~ (MoveToBackup \/ InstallPayload \/ RollbackFile \/ Restore)
  <2>1. CASE Step
    BY <1>2, <1>7, <2>1
       DEF Step, WriteJournal, JournalFails, ApplyFails, CommitDone, RollbackFails, RollbackDone,
           RemoveEntry, RemoveRoot, RemoveFails, RemovalDone, RecoverNext, RestoreFails,
           RestoreDone, Opened
  <2>2. CASE \/ \E t \in Tx, q \in Plugin : Begin(t, q)
             \/ \E t \in Tx, fs \in FileLists : Commit(t, fs)
             \/ Start \/ Crash
    BY <1>2, <2>2 DEF Begin, Commit, Start, Crash
  <2>3. CASE (\E t \in Tx : Abort(t)) \/ (\E q \in Plugin : AbortPlugin(q)) \/ Shutdown
    BY <1>2, <2>3 DEF Abort, AbortPlugin, Shutdown, AbortAll
  <2>4. CASE UNCHANGED vars
    BY <1>2, <2>4 DEF vars
  <2> QED
    BY <2>1, <2>2, <2>3, <2>4 DEF Next
<1> QED
  BY <1>3, <1>4, <1>5, <1>6, <1>7

\* A file changes only under a complete journal that names it.
THEOREM Journals == Spec => ChangesAreJournaled
<1> DEFINE IsNamed == \A p \in Path : live'[p] # live[p] =>
                        \E t \in Tx : /\ Journaled(t)
                                      /\ \E i \in DOMAIN tree[t].journal :
                                            tree[t].journal[i].path = p
<1>1. Shape /\ [Next]_vars => [IsNamed]_vars
  BY StepsAreJournaled
<1> QED
  BY <1>1, ShapeInit, ShapeNext, PTL DEF Spec, ChangesAreJournaled
-----------------------------------------------------------------------------
(***************************************************************************)
(* Files change by whole transactions                                      *)
(***************************************************************************)
\* No crash or failure cuts short a rollback, a recovery or a removal.  With one
\* in a recovery the theorem is false: PackageTransaction_recovery_crash.cfg.
RecoveryRuns == CrashIn \subseteq Guarded /\ FailIn \subseteq Guarded
Stutters == UNCHANGED <<Logical, plan, done>>

\* Nothing is there at first that could be undone.
LEMMA SafeInit == Init => Safe
<1> SUFFICES ASSUME Init PROVE Safe
  OBVIOUS
<1>1. Phase = "idle" /\ Owned = {} /\ undecided = None
  BY DEF Init, Phase, Owned
<1>2. Histories
  BY DEF Init, Histories
<1>3. AtRest
  BY <1>1 DEF Init, AtRest, Kept
<1>4. Journaling /\ Applying /\ RollingBack /\ RestoringIt /\ Undecided
  BY <1>1 DEF Journaling, Applying, RollingBack, RestoringIt, Undecided
<1> QED
  BY <1>2, <1>3, <1>4 DEF Safe

\* A store that is open has nothing undecided before the journal is written.
LEMMA NothingUndecided ==
    ASSUME Shape, Safe, up = "up", Phase \in {"idle", "journal"}
    PROVE  undecided = None
BY DEF Safe, Undecided

\* What holds of a transaction's files holds after a step that leaves them.
LEMMA StaysInterrupted ==
    ASSUME NEW t \in Tx, Interrupted(t), tree'[t] = tree[t], live' = live, before' = before
    PROVE  Interrupted(t)'
BY DEF Interrupted, Journaled, OthersKept, Recoverable, BackedUp, HasBackup

\* Begin, Commit and the aborts ask for transactions, and install nothing.
LEMMA CallSafe ==
    ASSUME Shape, Safe,
           \/ \E t \in Tx, p \in Plugin : Begin(t, p)
           \/ \E t \in Tx, fs \in FileLists : Commit(t, fs)
           \/ \E t \in Tx : Abort(t)
           \/ \E p \in Plugin : AbortPlugin(p)
           \/ Shutdown
    PROVE  /\ Safe'
           /\ Stutters \/ \E t \in Tx : Atomic!Submit(t)
<1>1. up = "up" /\ job = None /\ Phase = "idle" /\ up' = up
  BY DEF Begin, Commit, Abort, AbortPlugin, Shutdown, AbortAll, Phase
<1>2. undecided = None
  BY <1>1, NothingUndecided
<1>3. \A x \in Tx : Kept(x) => Untouched(x)
  BY <1>1, <1>2, MarkAssumption DEF Safe, AtRest, Resting
<1>4. ASSUME NEW t \in Tx, NEW p \in Plugin, Begin(t, p)
      PROVE  Safe' /\ Stutters
  <2>1. /\ DirectoryBecomes(t, FALSE, None, {}, <<>>)
        /\ ~ Kept(t) /\ t \notin Owned
        /\ Owned' = Owned \cup {t}
    BY <1>4, BeginEffect
  <2>2. /\ t \notin used
        /\ UNCHANGED <<live, job, up, todo, crashes, plan, done, undecided, before>>
    BY <1>4 DEF Begin, ghostVars
  <2>3. Phase' = "idle"
    BY <1>1, <2>2 DEF Phase
  <2>4. \A x \in Tx : Kept(x)' => Untouched(x)'
    <3>1. Untouched(t)'
      BY <2>1 DEF DirectoryBecomes, Untouched, Journaled
    <3>2. ASSUME NEW x \in Tx, x # t, Kept(x)'
          PROVE  Untouched(x)'
      BY <1>3, <2>1, <3>2 DEF DirectoryBecomes, Untouched, Journaled, Kept
    <3> QED
      BY <3>1, <3>2
  <2>5. \A x \in Owned' : ~ tree'[x].reserved => tree'[x].journal = None /\ tree'[x].backup = <<>>
    BY <2>1, Members DEF DirectoryBecomes, Safe, AtRest, Shape
  <2>6. Owned' \cap done' = {}
    BY <2>1, <2>2 DEF Shape, TypeOK, Safe, AtRest
  <2>7. AtRest'
    BY <2>4, <2>5, <2>6 DEF AtRest
  <2>8. Journaling' /\ Applying' /\ RollingBack' /\ RestoringIt'
    BY <2>3 DEF Journaling, Applying, RollingBack, RestoringIt
  <2>9. Undecided' /\ Histories'
    BY <1>2, <2>2 DEF Undecided, Histories, Safe
  <2> QED
    BY <2>2, <2>7, <2>8, <2>9 DEF Safe, Stutters, Logical
<1>5. ASSUME NEW t \in Tx, NEW fs \in FileLists, Commit(t, fs)
      PROVE  Safe' /\ Atomic!Submit(t)
  <2>1. /\ t \in Owned /\ Kept(t) /\ tree[t] \in Tree
        /\ DirectoryBecomes(t, TRUE, tree[t].journal, Puts(fs), tree[t].backup)
        /\ Phase' = "journal"
        /\ job'.tx = t /\ job'.files = fs
    BY <1>5, CommitEffect
  <2> DEFINE pl == [put |-> {fs[i].path : i \in Puts(fs)},
                    remove |-> {fs[i].path : i \in DOMAIN fs \ Puts(fs)}]
  <2>2. /\ ~ tree[t].reserved
        /\ plan' = [plan EXCEPT ![t] = pl]
        /\ UNCHANGED <<live, owner, used, up, todo, crashes, done, undecided, before>>
    BY <1>5 DEF Commit
  <2>3. tree[t].journal = None /\ tree[t].backup = <<>> /\ t \notin done
    BY <2>1, <2>2 DEF Safe, AtRest
  <2>4. Owned' = Owned
    BY <2>2 DEF Owned
  <2>5. Histories'
    BY <2>2 DEF Safe, Histories
  <2>6. Planned(t, fs)'
    BY <2>2 DEF Safe, Histories, Planned
  <2>7. \A x \in Tx : Kept(x)' => Untouched(x)'
    <3>1. Untouched(t)'
      BY <2>1, <2>3 DEF DirectoryBecomes, Untouched, Journaled
    <3>2. ASSUME NEW x \in Tx, x # t, Kept(x)'
          PROVE  Untouched(x)'
      BY <1>3, <2>1, <3>2 DEF DirectoryBecomes, Untouched, Journaled, Kept
    <3> QED
      BY <3>1, <3>2
  <2>8. \A x \in Owned' : ~ tree'[x].reserved => tree'[x].journal = None /\ tree'[x].backup = <<>>
    BY <2>1, <2>4, Members DEF DirectoryBecomes, Safe, AtRest, Shape
  <2>9. AtRest'
    BY <2>2, <2>4, <2>7, <2>8 DEF AtRest, Safe
  <2>10. Journaling'
    BY <1>2, <2>1, <2>2, <2>3, <2>6 DEF Journaling, DirectoryBecomes, Planned
  <2>11. Applying' /\ RollingBack' /\ RestoringIt'
    BY <2>1 DEF Applying, RollingBack, RestoringIt
  <2>12. Undecided'
    BY <1>2, <2>2 DEF Undecided
  <2>13. pl \in Atomic!Plan
    <3>1. \A i \in DOMAIN fs : fs[i].path \in Path
      BY Lists
    <3>2. {fs[i].path : i \in Puts(fs)} \in SUBSET Path
      BY <3>1 DEF Puts
    <3>3. {fs[i].path : i \in DOMAIN fs \ Puts(fs)} \in SUBSET Path
      BY <3>1
    <3>4. \A w, v \in SUBSET Path : [put |-> w, remove |-> v] \in Atomic!Plan
      BY DEF Atomic!Plan
    <3> QED
      BY <3>2, <3>3, <3>4, Zenon
  <2>14. Logical' = Logical
    BY <1>2, <2>2 DEF Logical
  <2>15. Atomic!Submit(t)
    BY <2>2, <2>3, <2>13, <2>14 DEF Atomic!Submit
  <2> QED
    BY <2>5, <2>9, <2>10, <2>11, <2>12, <2>15 DEF Safe
<1>6. ASSUME NEW ts \in SUBSET Owned, NEW then \in {"up", "down"}, AbortAll(ts, then)
      PROVE  Safe' /\ Stutters
  <2>1. /\ Phase' = "remove" /\ job'.trees = ts /\ job'.then = then
        /\ Owned' = Owned \ ts
    BY <1>6, AbortEffect
  <2>2. UNCHANGED <<live, tree, used, up, todo, crashes, plan, done, undecided, before>>
    BY <1>6 DEF AbortAll, ghostVars
  <2>3. \A x \in Tx : Kept(x)' => Untouched(x)'
    BY <1>3, <2>2 DEF Kept, Untouched, Journaled
  <2>4. AtRest'
    BY <2>1, <2>2, <2>3 DEF AtRest, Safe
  <2>5. Journaling' /\ Applying' /\ RollingBack' /\ RestoringIt'
    BY <2>1 DEF Journaling, Applying, RollingBack, RestoringIt
  <2>6. Undecided' /\ Histories'
    BY <1>2, <2>2 DEF Undecided, Histories, Safe
  <2> QED
    BY <2>2, <2>4, <2>5, <2>6 DEF Safe, Stutters, Logical
<1>7. ASSUME NEW t \in Tx, Abort(t)
      PROVE  Safe' /\ Stutters
  <2>1. {t} \in SUBSET Owned /\ AbortAll({t}, "up")
    BY <1>7 DEF Abort, Owned
  <2> QED
    BY <1>6, <2>1
<1>8. ASSUME NEW p \in Plugin, AbortPlugin(p)
      PROVE  Safe' /\ Stutters
  <2> DEFINE ts == {t \in DOMAIN owner : owner[t] = p}
  <2>1. ts \in SUBSET Owned /\ AbortAll(ts, "up")
    BY <1>8 DEF AbortPlugin, Owned
  <2> QED
    BY <1>6, <2>1
<1>9. ASSUME Shutdown
      PROVE  Safe' /\ Stutters
  <2>1. Owned \in SUBSET Owned /\ AbortAll(Owned, "down")
    BY <1>9 DEF Shutdown, Owned
  <2> QED
    BY <1>6, <2>1
<1> QED
  BY <1>4, <1>5, <1>7, <1>8, <1>9

\* A directory a step leaves alone stays as it is.
LEMMA OthersRest ==
    ASSUME Safe, NEW t \in Tx, \A x \in Tx \ {t} : tree'[x] = tree[x]
    PROVE  \A x \in Tx \ {t} : Resting(x) /\ Kept(x)' => Untouched(x)'
BY DEF Safe, AtRest, Untouched, Journaled, Kept

\* The journal is written, and the transaction in progress is undecided.
LEMMA JournalSafe ==
    ASSUME Shape, Safe, WriteJournal \/ JournalFails
    PROVE  Safe' /\ Stutters
<1>1. /\ Phase = "journal" /\ UNCHANGED <<live, owner, used, up, todo, plan, done>>
  BY DEF WriteJournal, JournalFails, ghostVars
<1>0. PICK t \in Tx, fs \in FileLists : t = job.tx /\ fs = job.files
  BY <1>1, Working
<1> DEFINE r == tree[t]
<1>2. t \in Owned /\ up = "up"
  BY <1>0, <1>1, Working DEF Shape, JobMatches
<1>3. /\ undecided = None /\ r.journal \in {None, Torn}
      /\ r.backup = <<>> /\ r.reserved /\ r.staged = Puts(fs)
      /\ Planned(t, fs)
  BY <1>0, <1>1 DEF Safe, Journaling
<1>4. Owned' = Owned /\ Owned \subseteq Tx
  BY <1>1, Members DEF Owned, Shape
<1>5. \A x \in Tx : Resting(x)
  BY <1>1, <1>3, MarkAssumption DEF Resting
<1>6. fs # None /\ fs # Torn /\ Len(fs) \in Nat /\ DOMAIN fs = 1 .. Len(fs)
  BY Lists, BoundAssumption
<1>7. ASSUME DirectoryBecomes(t, r.reserved, Torn, r.staged, r.backup) \/ tree' = tree
             \/ DirectoryBecomes(t, r.reserved, fs, r.staged, r.backup)
      PROVE  /\ \A x \in Tx \ {t} : Kept(x)' => Untouched(x)'
             /\ \A x \in Owned' : ~ tree'[x].reserved =>
                   tree'[x].journal = None /\ tree'[x].backup = <<>>
             /\ tree'[t].backup = <<>> /\ tree'[t].reserved
             /\ tree'[t].staged = Puts(fs)
  <2>1. /\ \A x \in Tx \ {t} : tree'[x] = tree[x]
        /\ tree'[t].reserved = r.reserved /\ tree'[t].staged = r.staged
        /\ tree'[t].backup = r.backup
    BY <1>7 DEF DirectoryBecomes
  <2>2. \A x \in Owned : ~ tree[x].reserved => tree[x].journal = None /\ tree[x].backup = <<>>
    BY DEF Safe, AtRest
  <2>3. \A x \in Tx \ {t} : Kept(x)' => Untouched(x)'
    BY <1>2, <1>5, <2>1, OthersRest
  <2> QED
    BY <1>3, <1>4, <2>1, <2>2, <2>3
<1>8. Owned' \cap done' = {}
  BY <1>1, <1>4 DEF Safe, AtRest
<1>9. CASE WriteJournal
  <2>1. CASE /\ r.journal = None /\ job' = job /\ UNCHANGED <<undecided, before>>
             /\ DirectoryBecomes(t, r.reserved, Torn, r.staged, r.backup)
    <3>1. Phase' = "journal"
      BY <1>1, <2>1 DEF Phase
    <3>2. tree'[t].journal = Torn
      BY <2>1 DEF DirectoryBecomes
    <3>3. Untouched(t)'
      BY <3>2 DEF Untouched, Journaled
    <3>4. AtRest'
      BY <1>7, <1>8, <2>1, <3>3 DEF AtRest
    <3>5. Journaling'
      BY <1>0, <1>1, <1>3, <1>7, <2>1, <3>2 DEF Journaling, Planned
    <3>6. Applying' /\ RollingBack' /\ RestoringIt'
      BY <3>1 DEF Applying, RollingBack, RestoringIt
    <3>7. Undecided' /\ Histories'
      BY <1>1, <1>3, <2>1 DEF Undecided, Histories, Safe
    <3> QED
      BY <1>1, <2>1, <3>4, <3>5, <3>6, <3>7 DEF Safe, Stutters, Logical
  <2>2. CASE /\ r.journal # None /\ undecided' = t /\ before' = live
             /\ DirectoryBecomes(t, r.reserved, fs, r.staged, r.backup)
             /\ job' \in ApplyJob /\ job' \in Job /\ Phase' = "apply"
             /\ job'.tx = t /\ job'.files = fs /\ job'.at = 1
             /\ job'.moved = FALSE /\ job'.applied = <<>>
    <3>1. AtRest'
      BY <1>7, <1>8, <2>2 DEF AtRest, Resting
    <3>2. Planned(t, fs)'
      BY <1>1, <1>3 DEF Planned
    <3>3. OthersKept(fs)'
      BY <1>1, <2>2 DEF OthersKept
    <3>4. \A i \in 1 .. Len(fs) : ~ fs[i].remove => i \in tree'[t].staged
      BY <1>6, <1>7, <2>2 DEF Puts
    <3>5. DOMAIN tree'[t].backup = {}
      BY <1>7, <2>2
    <3>6. \A i \in 1 .. Len(fs) : NotBegun(t, fs, i)'
      BY <1>1, <2>2, <3>4, <3>5 DEF NotBegun, HasBackup
    <3>7. Len(job'.applied) = 0
      BY <2>2
    <3>8. \A i \in 1 .. Len(fs) : ~ i <= Len(job'.applied)
      BY <1>6, <3>7
    <3>9. Applying'
      BY <2>2, <3>2, <3>3, <3>6, <3>8
         DEF Applying, FileApplying, Planned, OthersKept, NotBegun, HasBackup
    <3>10. Journaling' /\ RollingBack' /\ RestoringIt'
      BY <2>2 DEF Journaling, RollingBack, RestoringIt
    <3>11. Undecided'
      BY <1>2, <1>8, <1>4, <2>2 DEF Undecided
    <3>12. Histories'
      BY <1>1, <2>2 DEF Histories, Safe, Shape, TypeOK
    <3>13. Stutters
      BY <1>1, <1>2, <1>3, <2>2, MarkAssumption DEF Stutters, Logical
    <3> QED
      BY <3>1, <3>9, <3>10, <3>11, <3>12, <3>13 DEF Safe
  <2> QED
    BY <1>0, <1>9, <2>1, <2>2, WriteJournalEffect
<1>10. CASE JournalFails
  <2>1. /\ job' = None /\ Phase' = "idle" /\ UNCHANGED <<undecided, before>>
        /\ \/ tree' = tree
           \/ DirectoryBecomes(t, r.reserved, fs, r.staged, r.backup)
    BY <1>0, <1>10, JournalFailsEffect DEF JournalFails, ghostVars
  <2>2. Untouched(t)'
    <3>1. CASE tree' = tree
      BY <1>3, <3>1 DEF Untouched, Journaled
    <3>2. CASE DirectoryBecomes(t, r.reserved, fs, r.staged, r.backup)
      <4>1. tree'[t].journal = fs
        BY <3>2 DEF DirectoryBecomes
      <4>2. DOMAIN tree'[t].backup = {} /\ Puts(tree'[t].journal) \subseteq tree'[t].staged
        BY <1>7, <3>2, <4>1
      <4> QED
        BY <4>2 DEF Untouched
    <3> QED
      BY <2>1, <3>1, <3>2
  <2>3. AtRest'
    BY <1>7, <1>8, <2>1, <2>2 DEF AtRest
  <2>4. Journaling' /\ Applying' /\ RollingBack' /\ RestoringIt'
    BY <2>1 DEF Journaling, Applying, RollingBack, RestoringIt
  <2>5. Undecided' /\ Histories'
    BY <1>1, <1>3, <2>1 DEF Undecided, Histories, Safe
  <2> QED
    BY <1>1, <2>1, <2>3, <2>4, <2>5 DEF Safe, Stutters, Logical
<1> QED
  BY <1>9, <1>10

\* The files are moved one by one, each with its way back.
LEMMA ApplySafe ==
    ASSUME Shape, Safe, MoveToBackup \/ InstallPayload
    PROVE  Safe' /\ Stutters
<1>1. /\ Phase = "apply"
      /\ UNCHANGED <<owner, used, up, todo, plan, done, undecided, before>>
  BY DEF MoveToBackup, InstallPayload, ghostVars
<1>2. PICK t \in Tx, fs \in FileLists, at \in Nat : t = job.tx /\ fs = job.files /\ at = job.at
  BY <1>1, Working, JobTypes DEF Shape
<1> DEFINE r == tree[t]
<1>3. /\ undecided = t /\ Planned(t, fs) /\ OthersKept(fs)
      /\ \A i \in 1 .. Len(fs) : FileApplying(i)
  BY <1>1, <1>2 DEF Safe, Applying
<1>4. t \in Owned /\ r.journal = fs /\ Kept(t)
  BY <1>1, <1>2 DEF Shape, JobMatches
<1>5. /\ Len(fs) \in Nat /\ DOMAIN fs = 1 .. Len(fs) /\ fs # None
      /\ \A i \in 1 .. Len(fs) : fs[i].path \in Path /\ fs[i].remove \in BOOLEAN
      /\ \A i, j \in 1 .. Len(fs) : fs[i].path = fs[j].path => i = j
  BY Lists, BoundAssumption
<1>6. Owned' = Owned /\ Owned \subseteq Tx
  BY <1>1, Members DEF Owned, Shape
<1>7. live \in [Path -> Tx \cup {Absent, Old}] /\ t # None /\ t # Absent
  BY MarkAssumption DEF Shape, TypeOK
<1>8. at \in 1 .. Len(fs) /\ Phase' = "apply" /\ job'.tx = t /\ job'.files = fs
  <2>1. CASE MoveToBackup
    BY <1>2, <2>1, MoveToBackupEffect
  <2>2. CASE InstallPayload
    BY <1>2, <2>2, InstallPayloadEffect
  <2> QED
    BY <2>1, <2>2
<1>9. Target = fs[at].path /\ Target \in Path
  BY <1>1, <1>2, <1>8, Targets
<1>10. \A i \in 1 .. Len(fs) : i # at => fs[i].path # Target
  BY <1>5, <1>8, <1>9
<1>11. ASSUME tree' = tree \/ \E s, b : DirectoryBecomes(t, r.reserved, r.journal, s, b),
              \A p \in Path : p # Target => live'[p] = live[p],
              \A i \in 1 .. Len(fs) : FileApplying(i)'
       PROVE  Safe' /\ Stutters
  <2>1. \A x \in Tx \ {t} : tree'[x] = tree[x]
    BY <1>11 DEF DirectoryBecomes
  <2>2. tree'[t].reserved = r.reserved /\ tree'[t].journal = r.journal
    BY <1>11 DEF DirectoryBecomes
  <2>3. \A x \in Tx \ {t} : Kept(x)' => Untouched(x)'
    <3>1. \A x \in Tx \ {t} : Resting(x)
      BY <1>1, <1>3 DEF Resting
    <3> QED
      BY <2>1, <3>1, OthersRest
  <2>4. r.reserved
    BY <1>4, <1>5 DEF Safe, AtRest
  <2>5. \A x \in Owned' : ~ tree'[x].reserved => tree'[x].journal = None /\ tree'[x].backup = <<>>
    BY <1>6, <2>1, <2>2, <2>4 DEF Safe, AtRest
  <2>6. AtRest'
    BY <1>1, <1>3, <1>6, <2>3, <2>5 DEF AtRest, Resting, Safe
  <2>7. OthersKept(fs)'
    BY <1>1, <1>3, <1>5, <1>8, <1>9, <1>11 DEF OthersKept
  <2>8. Planned(t, fs)'
    BY <1>1, <1>3 DEF Planned
  <2>9. Applying'
    BY <1>1, <1>3, <1>8, <1>11, <2>7, <2>8 DEF Applying, OthersKept, Planned
  <2>10. Journaling' /\ RollingBack' /\ RestoringIt'
    BY <1>8 DEF Journaling, RollingBack, RestoringIt
  <2>11. undecided \notin done
    BY <1>3, <1>7 DEF Safe, Undecided
  <2>12. Undecided'
    BY <1>1, <1>3, <1>8, <2>11 DEF Undecided
  <2>13. Histories'
    BY <1>1 DEF Histories, Safe
  <2>14. Stutters
    BY <1>1, <1>3, <1>7 DEF Stutters, Logical
  <2> QED
    BY <2>6, <2>9, <2>10, <2>12, <2>13, <2>14 DEF Safe
<1>12. CASE MoveToBackup
  <2> DEFINE exists == live[Target] # Absent
             a == [at |-> at, installed |-> FALSE, backed_up |-> exists]
  <2>1. /\ ~ job.moved
        /\ IF exists
           THEN DirectoryBecomes(t, r.reserved, r.journal, r.staged,
                                 WithBackup(t, at, live[Target]))
           ELSE tree' = tree
        /\ job'.at = at /\ Len(job'.applied) = at /\ job'.applied[at] = a
        /\ \A k \in 1 .. at - 1 : job'.applied[k] = job.applied[k]
    BY <1>2, <1>12, MoveToBackupEffect
  <2>2. live' = [live EXCEPT ![Target] = Absent]
    BY <1>12 DEF MoveToBackup
  <2>3. Len(job.applied) = at - 1
    <3>1. Len(job.applied) = IF job.moved THEN job.at ELSE job.at - 1
      BY <1>1 DEF Shape, JobMatches
    <3> QED
      BY <1>2, <2>1, <3>1, Zenon
  <2>4. tree'[t].staged = r.staged
    BY <2>1 DEF DirectoryBecomes
  <2>5. /\ exists => /\ DOMAIN tree'[t].backup = DOMAIN r.backup \cup {at}
                     /\ tree'[t].backup[at] = live[Target]
                     /\ \A n \in DOMAIN r.backup \ {at} : tree'[t].backup[n] = r.backup[n]
        /\ ~ exists => tree'[t].backup = r.backup
    <3>1. CASE exists
      <4>1. tree'[t].backup = WithBackup(t, at, live[Target])
        BY <2>1, <3>1 DEF DirectoryBecomes
      <4>2. /\ DOMAIN WithBackup(t, at, live[Target]) = DOMAIN r.backup \cup {at}
            /\ WithBackup(t, at, live[Target])[at] = live[Target]
            /\ \A n \in DOMAIN r.backup \ {at} :
                  WithBackup(t, at, live[Target])[n] = r.backup[n]
        BY DEF WithBackup
      <4> QED
        BY <3>1, <4>1, <4>2, Zenon
    <3>2. CASE ~ exists
      BY <2>1, <3>2
    <3> QED
      BY <3>1, <3>2
  <2>6. \A p \in Path : p # Target => live'[p] = live[p]
    BY <1>7, <2>2
  <2>7. live'[Target] = Absent
    BY <1>7, <1>9, <2>2
  <2>8. live[Target] = before[Target] /\ ~ HasBackup(t, at)
        /\ (~ fs[at].remove => at \in r.staged)
    <3>1. FileApplying(at) /\ ~ at <= Len(job.applied)
      BY <1>3, <1>8, <2>3
    <3> QED
      BY <1>2, <1>9, <3>1 DEF FileApplying, NotBegun
  <2>9. ASSUME NEW i \in 1 .. Len(fs)
        PROVE  FileApplying(i)'
    <3>1. FileApplying(i)
      BY <1>3
    <3>2. CASE i = at
      <4>1. job'.applied[i] = a /\ a.installed = FALSE /\ (a.backed_up <=> exists)
        BY <2>1, <3>2
      <4> HIDE DEF a, exists
      <4>2. i \in DOMAIN tree'[t].backup <=> exists
        BY <2>5, <2>8, <3>2 DEF HasBackup
      <4>3. exists => tree'[t].backup[i] = before[fs[i].path]
        BY <1>9, <2>5, <2>8, <3>2
      <4>4. exists <=> before[fs[i].path] # Absent
        BY <1>9, <2>8, <3>2 DEF exists
      <4>5. live'[fs[i].path] = Absent
        BY <1>9, <2>7, <3>2
      <4>6. Begun(job.tx, job.files, i, job.applied[i])'
        BY <1>1, <1>8, <4>1, <4>2, <4>3, <4>4, <4>5 DEF Begun, BackedUp, HasBackup
      <4>7. ~ (i < job'.at) /\ i <= Len(job'.applied)
        BY <2>1, <3>2
      <4>8. ~ job'.applied[i].installed /\ (~ fs[i].remove => i \in tree'[t].staged)
        BY <2>4, <2>8, <3>2, <4>1
      <4> QED
        BY <1>8, <4>6, <4>7, <4>8 DEF FileApplying
    <3>3. CASE i < at
      <4>1. i \in 1 .. at - 1 /\ i <= Len(job.applied) /\ i <= Len(job'.applied) /\ i < job'.at
            /\ i # job'.at /\ i < job.at
        BY <1>2, <2>1, <2>3, <3>3
      <4>2. job'.applied[i] = job.applied[i]
        BY <2>1, <4>1
      <4>3. live'[fs[i].path] = live[fs[i].path]
        BY <1>5, <1>10, <2>6, <3>3
      <4>4. /\ i \in DOMAIN tree'[t].backup <=> HasBackup(t, i)
            /\ HasBackup(t, i) => tree'[t].backup[i] = r.backup[i]
        BY <2>5, <3>3 DEF HasBackup
      <4>5. /\ Begun(t, fs, i, job.applied[i])
            /\ job.applied[i].installed = ~ fs[i].remove
            /\ i \notin r.staged
        BY <1>2, <3>1, <4>1 DEF FileApplying
      <4>6. Begun(job.tx, job.files, i, job.applied[i])'
        BY <1>1, <1>8, <4>2, <4>3, <4>4, <4>5 DEF Begun, BackedUp, HasBackup
      <4> QED
        BY <1>8, <2>4, <4>1, <4>2, <4>5, <4>6 DEF FileApplying
    <3>4. CASE i > at
      <4>1. ~ i <= Len(job.applied) /\ ~ i <= Len(job'.applied)
        BY <2>1, <2>3, <3>4
      <4>2. NotBegun(t, fs, i)
        BY <1>2, <3>1, <4>1 DEF FileApplying
      <4>3. live'[fs[i].path] = live[fs[i].path]
        BY <1>5, <1>10, <2>6, <3>4
      <4>4. i \in DOMAIN tree'[t].backup <=> HasBackup(t, i)
        BY <2>5, <3>4 DEF HasBackup
      <4>5. NotBegun(job.tx, job.files, i)'
        BY <1>1, <1>8, <2>4, <4>2, <4>3, <4>4 DEF NotBegun, HasBackup
      <4> QED
        BY <4>1, <4>5 DEF FileApplying
    <3> QED
      BY <3>2, <3>3, <3>4
  <2>10. tree' = tree \/ \E s, b : DirectoryBecomes(t, r.reserved, r.journal, s, b)
    BY <2>1
  <2> QED
    BY <1>11, <2>6, <2>9, <2>10
<1>13. CASE InstallPayload
  <2> DEFINE put == ~ fs[at].remove
             a == [at |-> job.applied[at].at, installed |-> put,
                   backed_up |-> job.applied[at].backed_up]
  <2>1. /\ live' = IF put THEN [live EXCEPT ![Target] = t] ELSE live
        /\ DirectoryBecomes(t, r.reserved, r.journal, r.staged \ {at}, r.backup)
        /\ job'.at = at + 1
        /\ Len(job.applied) = at /\ Len(job'.applied) = at
        /\ job'.applied[at] = a
        /\ \A k \in 1 .. at - 1 : job'.applied[k] = job.applied[k]
    BY <1>2, <1>13, InstallPayloadEffect
  <2>2. tree'[t].staged = r.staged \ {at} /\ tree'[t].backup = r.backup
    BY <2>1 DEF DirectoryBecomes
  <2>3. \A p \in Path : p # Target => live'[p] = live[p]
    BY <1>7, <2>1
  <2>4. /\ Begun(t, fs, at, job.applied[at]) /\ ~ job.applied[at].installed
    <3>1. FileApplying(at) /\ at <= Len(job.applied)
      BY <1>3, <1>8, <2>1
    <3> QED
      BY <1>2, <3>1 DEF FileApplying
  <2>5. live'[Target] = IF put THEN t ELSE Absent
    <3>1. live[Target] = Absent
      BY <1>9, <2>4 DEF Begun
    <3> QED
      BY <1>7, <1>9, <2>1, <3>1
  <2>6. ASSUME NEW i \in 1 .. Len(fs)
        PROVE  FileApplying(i)'
    <3>1. FileApplying(i)
      BY <1>3
    <3>2. CASE i = at
      <4>1. job'.applied[i] = a /\ a.installed = put
            /\ a.backed_up = job.applied[at].backed_up
        BY <2>1, <3>2
      <4> HIDE DEF a
      <4>2. live'[fs[i].path] = IF put THEN t ELSE Absent
        BY <1>9, <2>5, <3>2
      <4>3. Begun(job.tx, job.files, i, job.applied[i])'
        BY <1>1, <1>8, <2>2, <2>4, <3>2, <4>1, <4>2 DEF Begun, BackedUp, HasBackup
      <4>4. i <= Len(job'.applied) /\ i # job'.at /\ i \notin tree'[t].staged
        BY <2>1, <2>2, <3>2
      <4>5. job'.applied[i].installed = ~ fs[i].remove
        BY <3>2, <4>1
      <4> QED
        BY <1>8, <4>3, <4>4, <4>5 DEF FileApplying
    <3>3. CASE i < at
      <4>1. i \in 1 .. at - 1 /\ i <= Len(job.applied) /\ i <= Len(job'.applied) /\ i < job'.at
            /\ i # job'.at /\ i < job.at
        BY <1>2, <2>1, <3>3
      <4>2. job'.applied[i] = job.applied[i]
        BY <2>1, <4>1
      <4>3. live'[fs[i].path] = live[fs[i].path]
        BY <1>5, <1>10, <2>3, <3>3
      <4>4. /\ Begun(t, fs, i, job.applied[i])
            /\ job.applied[i].installed = ~ fs[i].remove
            /\ i \notin r.staged
        BY <1>2, <3>1, <4>1 DEF FileApplying
      <4>5. Begun(job.tx, job.files, i, job.applied[i])'
        BY <1>1, <1>8, <2>2, <4>2, <4>3, <4>4 DEF Begun, BackedUp, HasBackup
      <4> QED
        BY <1>8, <2>2, <4>1, <4>2, <4>4, <4>5 DEF FileApplying
    <3>4. CASE i > at
      <4>1. ~ i <= Len(job.applied) /\ ~ i <= Len(job'.applied)
        BY <2>1, <3>4
      <4>2. NotBegun(t, fs, i)
        BY <1>2, <3>1, <4>1 DEF FileApplying
      <4>3. live'[fs[i].path] = live[fs[i].path]
        BY <1>5, <1>10, <2>3, <3>4
      <4>4. NotBegun(job.tx, job.files, i)'
        BY <1>1, <1>8, <2>2, <3>4, <4>2, <4>3 DEF NotBegun, HasBackup
      <4> QED
        BY <4>1, <4>4 DEF FileApplying
    <3> QED
      BY <3>2, <3>3, <3>4
  <2> QED
    BY <1>11, <2>1, <2>3, <2>6
<1> QED
  BY <1>12, <1>13

\* A commit that fails is rolled back to what it found; one that succeeds
\* leaves what it planned.
LEMMA EndSafe ==
    ASSUME Shape, Safe, ApplyFails \/ CommitDone \/ RollbackDone
    PROVE  Safe' /\ Stutters
<1>1. /\ Phase \in {"apply", "rollback"}
      /\ UNCHANGED <<live, tree, used, up, todo, plan, done, before>>
  BY DEF ApplyFails, CommitDone, RollbackDone, ghostVars
<1>2. PICK t \in Tx, fs \in FileLists : t = job.tx /\ fs = job.files
  BY <1>1, Working
<1>3. undecided = t /\ OthersKept(fs) /\ t \in Owned /\ up = "up" /\ t # None
  BY <1>1, <1>2, MarkAssumption DEF Safe, Applying, RollingBack, Shape, JobMatches
<1>4. undecided \notin done
  BY <1>3 DEF Safe, Undecided
<1>5. /\ Len(fs) \in Nat /\ DOMAIN fs = 1 .. Len(fs)
      /\ \A i \in 1 .. Len(fs) : fs[i].path \in Path /\ fs[i].remove \in BOOLEAN
  BY Lists, BoundAssumption
<1>6. live \in [Path -> Tx \cup {Absent, Old}] /\ before \in [Path -> Tx \cup {Absent, Old}]
  BY DEF Shape, TypeOK, Safe, Histories
<1>7. Histories'
  BY <1>1 DEF Histories, Safe
<1>8. \A x \in Tx \ {t} : Kept(x) => Untouched(x)
  BY <1>1, <1>3 DEF Safe, AtRest, Resting
<1>9. \A x \in Tx \ {t} : Kept(x)' => Untouched(x)'
  BY <1>1, <1>8 DEF Kept, Untouched, Journaled
<1>10. CASE ApplyFails
  <2>1. /\ Phase = "apply" /\ Phase' = "rollback"
        /\ job'.tx = t /\ job'.files = fs /\ job'.applied = job.applied
    BY <1>2, <1>10, ApplyFailsEffect
  <2>2. owner' = owner /\ undecided' = undecided
    BY <1>10 DEF ApplyFails, ghostVars
  <2>3. Owned' = Owned
    BY <2>2 DEF Owned
  <2>4. AtRest'
    BY <1>1, <1>3, <1>9, <2>2, <2>3 DEF AtRest, Resting, Safe
  <2>5. ASSUME NEW i \in 1 .. Len(fs)
        PROVE  FileRollingBack(i)'
    <3>1. FileApplying(i)
      BY <1>2, <2>1 DEF Safe, Applying
    <3> QED
      BY <1>1, <1>2, <2>1, <3>1
         DEF FileApplying, FileRollingBack, Begun, NotBegun, BackedUp, HasBackup
  <2>6. OthersKept(fs)'
    BY <1>1, <1>3 DEF OthersKept
  <2>7. RollingBack'
    BY <1>3, <2>1, <2>2, <2>5, <2>6 DEF RollingBack, OthersKept
  <2>8. Journaling' /\ Applying' /\ RestoringIt'
    BY <2>1 DEF Journaling, Applying, RestoringIt
  <2>9. Undecided'
    BY <1>1, <1>3, <1>4, <2>1, <2>2 DEF Undecided
  <2> QED
    BY <1>1, <1>7, <2>2, <2>4, <2>7, <2>8, <2>9 DEF Safe, Stutters, Logical
<1>11. ASSUME CommitDone \/ RollbackDone
       PROVE  /\ Phase' = "remove" /\ job'.trees = {t} /\ job'.then = "up"
              /\ Owned' = Owned \ {t}
              /\ (undecided' = t \/ undecided' = None) => AtRest'
              /\ Journaling' /\ Applying' /\ RollingBack' /\ RestoringIt'
  <2>1. /\ Phase' = "remove" /\ job'.trees = {t} /\ job'.then = "up" /\ Owned' = Owned \ {t}
    BY <1>2, <1>11, EndEffect
  <2>2. \A x \in Tx : Resting(x)' => x # t
    BY <2>1 DEF Resting
  <2>3. \A x \in Owned' : ~ tree'[x].reserved => tree'[x].journal = None /\ tree'[x].backup = <<>>
    BY <1>1, <2>1 DEF Safe, AtRest
  <2>4. Owned' \cap done' = {}
    BY <1>1, <2>1 DEF Safe, AtRest
  <2>5. AtRest'
    BY <1>9, <2>2, <2>3, <2>4 DEF AtRest
  <2>6. Journaling' /\ Applying' /\ RollingBack' /\ RestoringIt'
    BY <2>1 DEF Journaling, Applying, RollingBack, RestoringIt
  <2> QED
    BY <2>1, <2>5, <2>6
<1>12. CASE CommitDone
  <2>1. undecided' = undecided
    BY <1>12 DEF CommitDone, EndTransaction
  <2>2. Phase = "apply" /\ job.at > Len(fs)
    BY <1>2, <1>12 DEF CommitDone
  <2>3. Len(job.applied) = Len(fs) /\ job.at = Len(fs) + 1
    <3>1. /\ job.at \in 1 .. Len(fs) + 1 /\ (job.moved => job.at <= Len(fs))
          /\ Len(job.applied) = IF job.moved THEN job.at ELSE job.at - 1
      BY <1>2, <2>2 DEF Shape, JobMatches
    <3>2. job.at = Len(fs) + 1
      BY <1>5, <2>2, <3>1
    <3>3. ~ job.moved
      BY <1>5, <3>1, <3>2
    <3>4. Len(job.applied) = job.at - 1
      BY <3>1, <3>3, Zenon
    <3> QED
      BY <1>5, <3>2, <3>4
  <2>4. Planned(t, fs)
    BY <1>2, <2>2 DEF Safe, Applying
  <2>5. ASSUME NEW i \in 1 .. Len(fs)
        PROVE  live[fs[i].path] = IF ~ fs[i].remove THEN t ELSE Absent
    <3>1. FileApplying(i)
      BY <1>2, <2>2 DEF Safe, Applying
    <3>2. i <= Len(job.applied) /\ i < job.at
      BY <1>5, <2>3
    <3>3. Begun(t, fs, i, job.applied[i]) /\ job.applied[i].installed = ~ fs[i].remove
      BY <1>2, <3>1, <3>2 DEF FileApplying
    <3> QED
      BY <3>3 DEF Begun
  <2>6. ASSUME NEW p \in Path
        PROVE  live[p] = Outcome(t)[p]
    <3>1. plan[t].put = {fs[i].path : i \in Puts(fs)}
          /\ plan[t].remove = {fs[i].path : i \in DOMAIN fs \ Puts(fs)}
      BY <2>4 DEF Planned
    <3>2. Outcome(t)[p] = IF p \in plan[t].put THEN t
                          ELSE IF p \in plan[t].remove THEN Absent ELSE before[p]
      BY DEF Outcome
    <3>3. CASE p \in plan[t].put
      <4>1. PICK i \in Puts(fs) : p = fs[i].path
        BY <3>1, <3>3
      <4>2. i \in 1 .. Len(fs) /\ ~ fs[i].remove
        BY <1>5 DEF Puts
      <4> QED
        BY <2>5, <3>2, <3>3, <4>1, <4>2
    <3>4. CASE p \notin plan[t].put /\ p \in plan[t].remove
      <4>1. PICK i \in DOMAIN fs \ Puts(fs) : p = fs[i].path
        BY <3>1, <3>4
      <4>2. i \in 1 .. Len(fs) /\ fs[i].remove
        BY <1>5 DEF Puts
      <4> QED
        BY <2>5, <3>2, <3>4, <4>1, <4>2
    <3>5. CASE p \notin plan[t].put /\ p \notin plan[t].remove
      <4>1. \A i \in DOMAIN fs : fs[i].path # p
        BY <3>1, <3>5
      <4> QED
        BY <1>3, <3>2, <3>5, <4>1 DEF OthersKept
    <3> QED
      BY <3>3, <3>4, <3>5
  <2>7. live = Outcome(t)
    <3>1. DOMAIN live = Path /\ live = [p \in Path |-> live[p]]
      BY <1>6
    <3>2. Outcome(t) = [p \in Path |-> Outcome(t)[p]]
      BY DEF Outcome
    <3> QED
      BY <2>6, <3>1, <3>2
  <2>8. live' = Outcome(t)'
    BY <1>1, <2>7 DEF Outcome
  <2>9. t \in job'.trees /\ up' = "up" /\ Phase' = "remove" /\ t \notin done'
    BY <1>1, <1>3, <1>4, <1>11, <1>12
  <2>10. Undecided'
    BY <1>3, <2>1, <2>8, <2>9 DEF Undecided, Outcome
  <2>11. AtRest' /\ Journaling' /\ Applying' /\ RollingBack' /\ RestoringIt'
    BY <1>3, <1>11, <1>12, <2>1
  <2> QED
    BY <1>1, <1>7, <2>1, <2>10, <2>11 DEF Safe, Stutters, Logical
<1>13. CASE RollbackDone
  <2>1. undecided' = None
    BY <1>13 DEF RollbackDone, EndTransaction
  <2>2. Phase = "rollback" /\ Len(job.applied) = 0
    BY <1>13 DEF RollbackDone
  <2>3. ASSUME NEW i \in 1 .. Len(fs)
        PROVE  live[fs[i].path] = before[fs[i].path]
    <3>1. FileRollingBack(i)
      BY <1>2, <2>2 DEF Safe, RollingBack
    <3> QED
      BY <1>2, <2>2, <3>1 DEF FileRollingBack
  <2>4. \A p \in Path : live[p] = before[p]
    BY <1>3, <1>5, <2>3 DEF OthersKept
  <2>5. live = before
    BY <1>6, <2>4
  <2>6. Undecided'
    BY <2>1 DEF Undecided
  <2>7. AtRest' /\ Journaling' /\ Applying' /\ RollingBack' /\ RestoringIt'
    BY <1>11, <1>13, <2>1
  <2>8. Stutters
    BY <1>1, <1>3, <2>1, <2>5 DEF Stutters, Logical
  <2> QED
    BY <1>7, <2>6, <2>7, <2>8 DEF Safe
<1> QED
  BY <1>10, <1>12, <1>13

\* A rollback gets the files back one by one.
LEMMA RollbackSafe ==
    ASSUME Shape, Safe, RollbackFile
    PROVE  Safe' /\ Stutters
<1>1. /\ Phase = "rollback" /\ job.applied # <<>> /\ Phase' = "rollback"
      /\ UNCHANGED <<owner, used, up, todo, plan, done, undecided, before>>
  BY RollbackFileEffect DEF RollbackFile, ghostVars
<1>2. PICK t \in Tx, fs \in FileLists, k \in Nat :
         t = job.tx /\ fs = job.files /\ k = Len(job.applied)
  BY <1>1, Working, RollbackLast
<1> DEFINE r == tree[t]
           path == fs[k].path
<1>3. undecided = t /\ OthersKept(fs) /\ \A i \in 1 .. Len(fs) : FileRollingBack(i)
  BY <1>1, <1>2 DEF Safe, RollingBack
<1>4. t \in Owned /\ r.journal = fs /\ Kept(t) /\ t # None
  BY <1>1, <1>2, MarkAssumption DEF Shape, JobMatches
<1>5. /\ Len(fs) \in Nat /\ DOMAIN fs = 1 .. Len(fs) /\ fs # None
      /\ \A i \in 1 .. Len(fs) : fs[i].path \in Path /\ fs[i].remove \in BOOLEAN
      /\ \A i, j \in 1 .. Len(fs) : fs[i].path = fs[j].path => i = j
  BY Lists, BoundAssumption
<1>6. /\ k \in 1 .. Len(fs) /\ job.applied[k].at = k /\ path \in Path
      /\ job.applied[k].installed \in BOOLEAN /\ job.applied[k].backed_up \in BOOLEAN
  BY <1>1, <1>2, RollbackLast
<1>7. live \in [Path -> Tx \cup {Absent, Old}]
  BY DEF Shape, TypeOK
<1>8. Owned' = Owned /\ Owned \subseteq Tx
  BY <1>1, Members DEF Owned, Shape
<1>9. /\ job'.tx = t /\ job'.files = fs
      /\ \A i \in 1 .. k - 1 : job'.applied[i] = job.applied[i]
  BY <1>2, RollbackFileEffect
<1>10. Begun(t, fs, k, job.applied[k])
  BY <1>2, <1>3, <1>6 DEF FileRollingBack
<1>11. ASSUME tree' = tree \/ \E s, b : DirectoryBecomes(t, r.reserved, r.journal, s, b),
              \A p \in Path : p # path => live'[p] = live[p],
              \A i \in 1 .. Len(fs) : FileRollingBack(i)'
       PROVE  Safe' /\ Stutters
  <2>1. /\ \A x \in Tx \ {t} : tree'[x] = tree[x]
        /\ tree'[t].reserved = r.reserved /\ tree'[t].journal = r.journal
    BY <1>11 DEF DirectoryBecomes
  <2>2. \A x \in Tx \ {t} : Kept(x)' => Untouched(x)'
    <3>1. \A x \in Tx \ {t} : Resting(x)
      BY <1>1, <1>3 DEF Resting
    <3> QED
      BY <2>1, <3>1, OthersRest
  <2>3. r.reserved
    BY <1>4, <1>5 DEF Safe, AtRest
  <2>4. \A x \in Owned' : ~ tree'[x].reserved => tree'[x].journal = None /\ tree'[x].backup = <<>>
    BY <1>8, <2>1, <2>3 DEF Safe, AtRest
  <2>5. AtRest'
    BY <1>1, <1>3, <1>8, <2>2, <2>4 DEF AtRest, Resting, Safe
  <2>6. OthersKept(fs)'
    BY <1>1, <1>3, <1>5, <1>6, <1>11 DEF OthersKept
  <2>7. RollingBack'
    BY <1>1, <1>3, <1>9, <1>11, <2>6 DEF RollingBack, OthersKept
  <2>8. Journaling' /\ Applying' /\ RestoringIt'
    BY <1>1 DEF Journaling, Applying, RestoringIt
  <2>9. undecided \notin done
    BY <1>3, <1>4 DEF Safe, Undecided
  <2>10. Undecided'
    BY <1>1, <1>3, <1>9, <2>9 DEF Undecided
  <2>11. Histories'
    BY <1>1 DEF Histories, Safe
  <2>12. Stutters
    BY <1>1, <1>3, <1>4 DEF Stutters, Logical
  <2> QED
    BY <2>5, <2>7, <2>8, <2>10, <2>11, <2>12 DEF Safe
<1>12. ASSUME NEW i \in 1 .. Len(fs), i # k,
              \A p \in Path : p # path => live'[p] = live[p],
              \A n \in Nat : n # k => /\ n \in DOMAIN tree'[t].backup <=> HasBackup(t, n)
                                      /\ HasBackup(t, n) => tree'[t].backup[n] = r.backup[n],
              Len(job'.applied) \in {k, k - 1}
       PROVE  FileRollingBack(i)'
  <2>1. live'[fs[i].path] = live[fs[i].path]
    BY <1>5, <1>6, <1>12
  <2>2. FileRollingBack(i)
    BY <1>3
  <2>3. CASE i < k
    <3>1. i \in 1 .. k - 1 /\ i <= Len(job.applied) /\ i <= Len(job'.applied)
      BY <1>2, <1>12, <2>3
    <3>2. Begun(t, fs, i, job.applied[i]) /\ job'.applied[i] = job.applied[i]
      BY <1>2, <1>9, <2>2, <3>1 DEF FileRollingBack
    <3>3. i \in Nat
      OBVIOUS
    <3>4. /\ i \in DOMAIN tree'[t].backup <=> HasBackup(t, i)
          /\ HasBackup(t, i) => tree'[t].backup[i] = r.backup[i]
      BY <1>12, <3>3
    <3>5. Begun(job.tx, job.files, i, job.applied[i])'
      BY <1>1, <1>9, <2>1, <3>2, <3>4 DEF Begun, BackedUp, HasBackup
    <3> QED
      BY <3>1, <3>5 DEF FileRollingBack
  <2>4. CASE i > k
    <3>1. ~ i <= Len(job.applied) /\ ~ i <= Len(job'.applied)
      BY <1>2, <1>12, <2>4
    <3> QED
      BY <1>1, <1>2, <1>9, <2>1, <2>2, <3>1 DEF FileRollingBack
  <2> QED
    BY <1>12, <2>3, <2>4
<1>13. CASE job.applied[k].installed
  <2>1. /\ live' = [live EXCEPT ![path] = Absent]
        /\ tree' = tree
        /\ Len(job'.applied) = k
        /\ job'.applied[k] = [at |-> job.applied[k].at, installed |-> FALSE,
                              backed_up |-> job.applied[k].backed_up]
    BY <1>2, <1>13, RollbackFileEffect
  <2>2. (\A p \in Path : p # path => live'[p] = live[p]) /\ live'[path] = Absent
    BY <1>6, <1>7, <2>1
  <2>3. FileRollingBack(k)'
    <3>1. k <= Len(job'.applied)
      BY <2>1
    <3>2. Begun(job.tx, job.files, k, job.applied[k])'
      BY <1>1, <1>9, <1>10, <2>1, <2>2 DEF Begun, BackedUp, HasBackup
    <3> QED
      BY <3>1, <3>2 DEF FileRollingBack
  <2>4. \A n \in Nat : n # k => /\ n \in DOMAIN tree'[t].backup <=> HasBackup(t, n)
                                /\ HasBackup(t, n) => tree'[t].backup[n] = r.backup[n]
    BY <2>1 DEF HasBackup
  <2>5. \A i \in 1 .. Len(fs) : FileRollingBack(i)'
    BY <1>12, <2>1, <2>2, <2>3, <2>4
  <2> QED
    BY <1>11, <2>1, <2>2, <2>5
<1>14. CASE ~ job.applied[k].installed
  <2>1. /\ live' = IF job.applied[k].backed_up
                   THEN [live EXCEPT ![path] = r.backup[k]] ELSE live
        /\ DirectoryBecomes(t, r.reserved, r.journal, r.staged, WithoutBackup(t, k))
        /\ Len(job'.applied) = k - 1
    BY <1>2, <1>14, RollbackFileEffect
  <2>2. \A p \in Path : p # path => live'[p] = live[p]
    BY <1>6, <1>7, <2>1
  <2>3. live'[path] = before[path]
    <3>1. CASE job.applied[k].backed_up
      BY <1>6, <1>7, <1>10, <2>1, <3>1 DEF Begun, BackedUp
    <3>2. CASE ~ job.applied[k].backed_up
      BY <1>10, <1>14, <2>1, <3>2 DEF Begun
    <3> QED
      BY <3>1, <3>2
  <2>4. FileRollingBack(k)'
    <3>1. ~ k <= Len(job'.applied)
      BY <2>1
    <3> QED
      BY <1>1, <1>9, <2>3, <3>1 DEF FileRollingBack
  <2>5. \A n \in Nat : n # k => /\ n \in DOMAIN tree'[t].backup <=> HasBackup(t, n)
                                /\ HasBackup(t, n) => tree'[t].backup[n] = r.backup[n]
    <3>1. tree'[t].backup = WithoutBackup(t, k)
      BY <2>1 DEF DirectoryBecomes
    <3>2. /\ DOMAIN WithoutBackup(t, k) = DOMAIN r.backup \ {k}
          /\ \A n \in DOMAIN r.backup \ {k} : WithoutBackup(t, k)[n] = r.backup[n]
      BY DEF WithoutBackup
    <3> QED
      BY <3>1, <3>2 DEF HasBackup
  <2>6. Len(job'.applied) \in {k, k - 1}
    BY <2>1
  <2>7. \A i \in 1 .. Len(fs) : FileRollingBack(i)'
    BY <1>12, <2>2, <2>4, <2>5, <2>6
  <2>8. tree' = tree \/ \E s, b : DirectoryBecomes(t, r.reserved, r.journal, s, b)
    BY <2>1
  <2> QED
    BY <1>11, <2>2, <2>7, <2>8
<1> QED
  BY <1>13, <1>14

\* With its directory, a transaction that succeeded is decided.
LEMMA RemovalSafe ==
    ASSUME RecoveryRuns, Shape, Safe,
           \/ \E t \in Tx : RemoveEntry(t) \/ RemoveRoot(t) \/ RemoveFails(t)
           \/ RemovalDone
    PROVE  Safe' /\ (Stutters \/ \E t \in Tx : Atomic!Install(t))
<1>1. Phase = "remove" /\ UNCHANGED <<live, owner, used, todo, plan, before>>
  BY DEF RemoveEntry, RemoveRoot, RemoveFails, RemovalDone, Decide, ghostVars
<1>2. Owned' = Owned /\ Owned \subseteq Tx /\ todo \subseteq Tx
  BY <1>1, Members DEF Owned, Shape
<1>3. /\ \A t \in job.trees : t \in Tx /\ Kept(t) /\ t \notin Owned \cup todo
      /\ job.then = "starting" <=> up = "starting"
      /\ up # "up" => job.then = up
  BY <1>1, JobTypes DEF Shape, JobMatches
<1>4. undecided # None =>
         /\ undecided \notin done
         /\ \/ undecided \in job.trees /\ up = "up" /\ live = Outcome(undecided)
            \/ up = "starting" /\ undecided \in todo /\ Interrupted(undecided)
  BY <1>1, <1>3 DEF Safe, Undecided, Shape, Directories, Phase
<1>5. Histories'
  BY <1>1 DEF Histories, Safe
<1>6. \A x \in Owned : ~ tree[x].reserved => tree[x].journal = None /\ tree[x].backup = <<>>
  BY DEF Safe, AtRest
<1>7. ASSUME NEW t \in Tx, RemoveEntry(t)
      PROVE  Safe' /\ Stutters
  <2>1. t \in job.trees /\ \E j, s, b : DirectoryBecomes(t, tree[t].reserved, j, s, b)
    BY <1>7, RemoveEntryEffect
  <2>2. job' = job /\ up' = up /\ done' = done /\ undecided' = undecided
    BY <1>7 DEF RemoveEntry, ghostVars
  <2>3. \A x \in Tx \ {t} : tree'[x] = tree[x]
    BY <2>1 DEF DirectoryBecomes
  <2>4. Phase' = "remove"
    BY <1>1, <2>2 DEF Phase
  <2>5. \A x \in Tx : Resting(x)' => Resting(x) /\ x # t
    BY <1>1, <2>1, <2>2, <2>4 DEF Resting
  <2>6. \A x \in Tx : Kept(x)' /\ Resting(x)' => Untouched(x)'
    BY <2>3, <2>5, OthersRest
  <2>7. t \notin Owned
    BY <1>3, <2>1
  <2>8. AtRest'
    BY <1>2, <1>6, <2>2, <2>3, <2>6, <2>7 DEF AtRest, Safe
  <2>9. Journaling' /\ Applying' /\ RollingBack' /\ RestoringIt'
    BY <2>4 DEF Journaling, Applying, RollingBack, RestoringIt
  <2>10. Undecided'
    <3>1. CASE undecided = None
      BY <2>2, <3>1 DEF Undecided
    <3>2. CASE undecided # None /\ undecided \in job.trees /\ up = "up" /\ live = Outcome(undecided)
      <4>1. live' = Outcome(undecided)'
        BY <1>1, <2>2, <3>2 DEF Outcome
      <4> QED
        BY <1>4, <2>2, <2>4, <3>2, <4>1 DEF Undecided
    <3>3. CASE /\ undecided # None /\ up = "starting" /\ undecided \in todo
               /\ Interrupted(undecided)
      <4>1. PICK u \in Tx : u = undecided
        BY <1>2, <3>3
      <4>2. u # t
        BY <1>3, <2>1, <3>3, <4>1
      <4>3. Interrupted(u)'
        BY <1>1, <2>3, <3>3, <4>1, <4>2, StaysInterrupted
      <4> QED
        BY <1>1, <1>4, <2>2, <3>3, <4>1, <4>3 DEF Undecided
    <3> QED
      BY <1>4, <3>1, <3>2, <3>3
  <2> QED
    BY <1>1, <1>5, <2>2, <2>8, <2>9, <2>10 DEF Safe, Stutters, Logical
<1>8. ASSUME NEW t \in Tx, RemoveRoot(t) \/ RemoveFails(t)
      PROVE  Safe' /\ (Stutters \/ Atomic!Install(t))
  <2>1. /\ t \in job.trees /\ Phase' = "remove"
        /\ job'.trees = job.trees \ {t} /\ job'.then = job.then
        /\ Decide(t)
        /\ \A x \in Tx \ {t} : tree'[x] = tree[x]
        /\ tree'[t] = None
    <3>1. "remove" \notin FailIn
      BY DEF RecoveryRuns, Guarded
    <3> QED
      BY <1>8, <3>1, LeavesRemoval
  <2>2. up' = up
    BY <1>8 DEF RemoveRoot, RemoveFails
  <2>3. /\ done' = IF undecided = t THEN done \cup {t} ELSE done
        /\ undecided' = IF undecided = t THEN None ELSE undecided
    BY <2>1 DEF Decide
  <2>4. t # None /\ t \notin Owned /\ t \notin todo
    BY <1>3, <2>1, MarkAssumption
  <2>5. \A x \in Tx \ {t} : Resting(x)' => Resting(x)
    BY <1>1, <2>1, <2>3 DEF Resting
  <2>6. \A x \in Tx : Kept(x)' /\ Resting(x)' => Untouched(x)'
    <3>1. ~ Kept(t)'
      BY <2>1 DEF Kept
    <3> QED
      BY <2>1, <2>5, <3>1, OthersRest
  <2>7. AtRest'
    BY <1>2, <1>6, <2>1, <2>3, <2>4, <2>6 DEF AtRest, Safe
  <2>8. Journaling' /\ Applying' /\ RollingBack' /\ RestoringIt'
    BY <2>1 DEF Journaling, Applying, RollingBack, RestoringIt
  <2>9. CASE undecided = t
    <3>1. undecided' = None /\ done' = done \cup {t} /\ t \notin done /\ live = Outcome(t)
      BY <1>4, <2>3, <2>4, <2>9
    <3>2. Undecided'
      BY <3>1 DEF Undecided
    <3>3. Logical = before /\ Logical' = Outcome(t)
      BY <1>1, <2>4, <2>9, <3>1 DEF Logical
    <3>4. Atomic!Install(t)
      BY <1>1, <3>1, <3>3 DEF Atomic!Install, Outcome
    <3> QED
      BY <1>5, <2>7, <2>8, <3>2, <3>4 DEF Safe
  <2>10. CASE undecided # t
    <3>1. undecided' = undecided /\ done' = done
      BY <2>3, <2>10
    <3>2. Undecided'
      <4>1. CASE undecided = None
        BY <3>1, <4>1 DEF Undecided
      <4>2. CASE /\ undecided # None /\ undecided \in job.trees /\ up = "up"
                 /\ live = Outcome(undecided)
        <5>1. live' = Outcome(undecided)' /\ undecided \in job'.trees
          BY <1>1, <2>1, <2>10, <3>1, <4>2 DEF Outcome
        <5> QED
          BY <1>4, <2>1, <2>2, <3>1, <4>2, <5>1 DEF Undecided
      <4>3. CASE /\ undecided # None /\ up = "starting" /\ undecided \in todo
                 /\ Interrupted(undecided)
        <5>1. PICK u \in Tx : u = undecided
          BY <1>2, <4>3
        <5>2. Interrupted(u)'
          BY <1>1, <2>1, <2>10, <4>3, <5>1, StaysInterrupted
        <5> QED
          BY <1>1, <1>4, <2>2, <3>1, <4>3, <5>1, <5>2 DEF Undecided
      <4> QED
        BY <1>4, <4>1, <4>2, <4>3
    <3> QED
      BY <1>1, <1>5, <2>7, <2>8, <3>1, <3>2 DEF Safe, Stutters, Logical
  <2> QED
    BY <2>9, <2>10
<1>9. CASE RemovalDone
  <2>1. /\ job.trees = {} /\ job' = None /\ up' = job.then
        /\ UNCHANGED <<tree, done, undecided>>
    BY <1>9 DEF RemovalDone, ghostVars
  <2>2. Phase' = "idle"
    BY <2>1 DEF Phase
  <2>3. \A x \in Tx : Kept(x) /\ x # undecided => Untouched(x)
    BY <2>1 DEF Safe, AtRest, Resting
  <2>4. AtRest'
    BY <1>1, <1>2, <1>6, <2>1, <2>3 DEF AtRest, Resting, Safe, Untouched, Journaled, Kept
  <2>5. Journaling' /\ Applying' /\ RollingBack' /\ RestoringIt'
    BY <2>2 DEF Journaling, Applying, RollingBack, RestoringIt
  <2>6. Undecided'
    <3>1. CASE undecided = None
      BY <2>1, <3>1 DEF Undecided
    <3>2. CASE undecided # None
      <4>1. up = "starting" /\ undecided \in todo /\ Interrupted(undecided)
        BY <1>4, <2>1, <3>2
      <4>2. PICK u \in Tx : u = undecided
        BY <1>2, <4>1
      <4>3. Interrupted(u)'
        BY <1>1, <2>1, <4>1, <4>2, StaysInterrupted
      <4>4. up' = "starting"
        BY <1>3, <2>1, <4>1
      <4> QED
        BY <1>1, <1>4, <2>1, <3>2, <4>1, <4>2, <4>3, <4>4 DEF Undecided
    <3> QED
      BY <3>1, <3>2
  <2> QED
    BY <1>1, <1>5, <2>1, <2>4, <2>5, <2>6 DEF Safe, Stutters, Logical
<1> QED
  BY <1>7, <1>8, <1>9

\* Steps of a start that change no file and no directory.
LEMMA StartSafe ==
    ASSUME Shape, Safe, Start \/ Opened \/ \E t \in Tx : RecoverNext(t)
    PROVE  Safe' /\ Stutters
<1>1. /\ job = None /\ Phase = "idle" /\ up \in {"down", "starting"}
      /\ UNCHANGED <<live, tree, owner, used, plan, done, undecided, before>>
  BY DEF Start, Opened, RecoverNext, ghostVars, Shape, Directories, Phase
<1>2. Owned' = Owned /\ Owned \subseteq Tx /\ todo \subseteq Tx
  BY <1>1, Members DEF Owned, Shape
<1>3. undecided # None =>
         /\ undecided \notin done /\ Interrupted(undecided)
         /\ up = "starting" => undecided \in todo
  BY <1>1 DEF Safe, Undecided
<1>4. ASSUME undecided # None
      PROVE  undecided \in Tx /\ Journaled(undecided) /\ Kept(undecided)
  BY <1>3, <1>4 DEF Interrupted, Journaled, Kept, Shape, TypeOK
<1>5. ASSUME undecided # None
      PROVE  Interrupted(undecided)'
  <2>1. PICK u \in Tx : u = undecided
    BY <1>4, <1>5
  <2>2. Interrupted(u)'
    BY <1>1, <1>3, <1>5, <2>1, StaysInterrupted
  <2> QED
    BY <1>1, <2>1, <2>2 DEF Interrupted, Journaled, OthersKept, Recoverable, BackedUp, HasBackup
<1>6. \A x \in Tx : Kept(x) /\ x # undecided => Untouched(x)
  BY <1>1 DEF Safe, AtRest, Resting
<1>7. AtRest'
  <2>1. \A x \in Tx : Kept(x)' /\ x # undecided' => Untouched(x)'
    BY <1>1, <1>6 DEF Kept, Untouched, Journaled
  <2> QED
    BY <1>1, <1>2, <2>1 DEF AtRest, Resting, Safe
<1>8. Histories'
  BY <1>1 DEF Histories, Safe
<1>9. ASSUME Phase' \in {"idle", "remove"}
      PROVE  Journaling' /\ Applying' /\ RollingBack' /\ RestoringIt'
  BY <1>9 DEF Journaling, Applying, RollingBack, RestoringIt
<1>10. Stutters
  BY <1>1 DEF Stutters, Logical
<1>11. CASE Start
  <2>1. up' = "starting" /\ todo' = {t \in Tx : tree[t] # None} /\ job' = job
    BY <1>11 DEF Start
  <2>2. Phase' = "idle"
    BY <1>1, <2>1 DEF Phase
  <2>3. Undecided'
    BY <1>1, <1>3, <1>4, <1>5, <2>1 DEF Undecided, Kept
  <2> QED
    BY <1>7, <1>8, <1>9, <1>10, <2>2, <2>3 DEF Safe
<1>12. CASE Opened
  <2>1. up = "starting" /\ todo = {} /\ job' = job
    BY <1>12 DEF Opened
  <2>2. Phase' = "idle"
    BY <1>1, <2>1 DEF Phase
  <2>3. Undecided'
    BY <1>1, <1>3, <2>1 DEF Undecided
  <2> QED
    BY <1>7, <1>8, <1>9, <1>10, <2>2, <2>3 DEF Safe
<1>13. ASSUME NEW t \in Tx, RecoverNext(t)
       PROVE  Safe'
  <2>1. up = "starting" /\ todo' = todo \ {t}
    BY <1>13, RecoverNextEffect
  <2>2. CASE tree[t].journal = Torn /\ job' = None /\ Phase' = "idle" /\ up' = "down"
    <3>1. Undecided'
      BY <1>1, <1>3, <1>5, <2>2 DEF Undecided
    <3> QED
      BY <1>7, <1>8, <1>9, <2>2, <3>1 DEF Safe
  <2>3. CASE tree[t].journal \in {None, Torn} /\ up' = up /\ Phase' = "remove"
    <3>1. undecided # t
      BY <1>4, <2>3, MarkAssumption DEF Journaled
    <3>2. Undecided'
      BY <1>1, <1>3, <1>5, <2>1, <2>3, <3>1 DEF Undecided
    <3> QED
      BY <1>7, <1>8, <1>9, <2>3, <3>2 DEF Safe
  <2>4. CASE /\ Journaled(t) /\ tree[t].journal \in FileLists /\ up' = up /\ Phase' = "restore"
             /\ job'.tx = t /\ job'.files = tree[t].journal /\ job'.at = Len(tree[t].journal)
    <3>1. PICK fs \in FileLists : fs = tree[t].journal
      BY <2>4
    <3>2. DOMAIN fs = 1 .. Len(fs) /\ Len(fs) \in Nat
      BY Lists, BoundAssumption
    <3>3. Journaling' /\ Applying' /\ RollingBack'
      BY <2>4 DEF Journaling, Applying, RollingBack
    <3>4. CASE undecided = t
      <4>1. OthersKept(fs) /\ \A i \in 1 .. Len(fs) : Recoverable(t, fs, i)
        BY <1>3, <3>1, <3>2, <3>4, MarkAssumption DEF Interrupted
      <4>2. OthersKept(fs)' /\ \A i \in 1 .. Len(fs) : Recoverable(t, fs, i)'
        BY <1>1, <4>1 DEF OthersKept, Recoverable, BackedUp, HasBackup
      <4>3. ASSUME NEW i \in 1 .. Len(fs)
            PROVE  FileRestoring(i)'
        <5>1. i <= job'.at
          BY <2>4, <3>1, <3>2
        <5> QED
          BY <2>4, <3>1, <4>2, <5>1 DEF FileRestoring, Recoverable, BackedUp, HasBackup
      <4>4. RestoringIt'
        BY <2>4, <3>1, <4>2, <4>3 DEF RestoringIt, OthersKept
      <4>5. Undecided'
        BY <1>1, <1>3, <2>4, <3>4, MarkAssumption DEF Undecided
      <4> QED
        BY <1>7, <1>8, <3>3, <4>4, <4>5 DEF Safe
    <3>5. CASE undecided # t
      <4>1. RestoringIt'
        BY <1>1, <2>4, <3>5 DEF RestoringIt
      <4>2. Undecided'
        BY <1>1, <1>3, <1>5, <2>1, <2>4, <3>5 DEF Undecided
      <4> QED
        BY <1>7, <1>8, <3>3, <4>1, <4>2 DEF Safe
    <3> QED
      BY <3>4, <3>5
  <2> QED
    BY <1>13, <2>2, <2>3, <2>4, RecoverNextEffect
<1> QED
  BY <1>10, <1>11, <1>12, <1>13

\* A recovery gets the files back one by one; that of a directory at rest
\* changes nothing.
LEMMA RestoreSafe ==
    ASSUME RecoveryRuns, Shape, Safe, Restore \/ RestoreFails \/ RestoreDone
    PROVE  Safe' /\ Stutters
<1>1. /\ Phase = "restore" /\ UNCHANGED <<owner, used, up, todo, plan, done, before>>
      /\ Restore \/ RestoreDone
  BY DEF Restore, RestoreFails, RestoreDone, ghostVars, RecoveryRuns, Guarded, MayFail
<1>2. PICK t \in Tx, fs \in FileLists, at \in Nat : t = job.tx /\ fs = job.files /\ at = job.at
  BY <1>1, Working, JobTypes DEF Shape
<1> DEFINE r == tree[t]
<1>3. /\ up = "starting" /\ t \notin todo /\ t # None /\ Kept(t) /\ r.journal = fs
      /\ at \in 0 .. Len(fs) /\ Owned = {}
  BY <1>1, <1>2, MarkAssumption DEF Shape, JobMatches, Directories
<1>4. /\ Len(fs) \in Nat /\ DOMAIN fs = 1 .. Len(fs) /\ fs # None /\ fs # Torn
      /\ \A i \in 1 .. Len(fs) : fs[i].path \in Path /\ fs[i].remove \in BOOLEAN
      /\ \A i, j \in 1 .. Len(fs) : fs[i].path = fs[j].path => i = j
  BY Lists, BoundAssumption
<1>5. /\ live \in [Path -> Tx \cup {Absent, Old}] /\ before \in [Path -> Tx \cup {Absent, Old}]
      /\ todo \subseteq Tx
  BY DEF Shape, TypeOK, Safe, Histories
<1>6. Owned' = {}
  BY <1>1, <1>3 DEF Owned
<1>7. Histories'
  BY <1>1 DEF Histories, Safe
<1>8. undecided = t =>
         /\ undecided \notin done
         /\ OthersKept(fs) /\ \A i \in 1 .. Len(fs) : FileRestoring(i)
  BY <1>1, <1>2, <1>3 DEF Safe, Undecided, RestoringIt
<1>9. undecided # None /\ undecided # t =>
         undecided \notin done /\ undecided \in todo /\ Interrupted(undecided)
  BY <1>1, <1>2, <1>3 DEF Safe, Undecided
<1>10. undecided # t =>
         Puts(fs) \subseteq r.staged /\ DOMAIN r.backup = {}
  BY <1>1, <1>3, <1>4 DEF Safe, AtRest, Resting, Untouched, Journaled, Kept
<1>11. \A x \in Tx \ {t} : Resting(x)' /\ Kept(x) => Untouched(x)
  BY <1>1, <1>2, <1>3 DEF Safe, AtRest, Resting, RestoreDone, Restore, ghostVars
<1>12. ASSUME undecided # t, undecided' = undecided, tree' = tree, live' = live,
              Phase' # "restore" \/ job'.tx = t
       PROVE  Undecided'
  <2>1. CASE undecided = None
    BY <1>12, <2>1 DEF Undecided
  <2>2. CASE undecided # None
    <3>1. PICK u \in Tx : u = undecided
      BY <1>5, <1>9, <1>12, <2>2
    <3>2. Interrupted(u)'
      BY <1>1, <1>9, <1>12, <2>2, <3>1, StaysInterrupted
    <3>3. Interrupted(undecided)'
      BY <1>12, <3>1, <3>2 DEF Interrupted, Journaled, OthersKept, Recoverable, BackedUp, HasBackup
    <3> QED
      BY <1>1, <1>3, <1>9, <1>12, <2>2, <3>3 DEF Undecided
  <2> QED
    BY <2>1, <2>2
<1>13. CASE RestoreDone
  <2>1. /\ Phase' = "remove" /\ job'.trees = {t} /\ at = 0
        /\ undecided' = IF undecided = t THEN None ELSE undecided
        /\ live' = live /\ tree' = tree
    BY <1>2, <1>13, RestoreDoneEffect DEF RestoreDone
  <2>2. \A x \in Tx : Resting(x)' => x # t
    BY <2>1 DEF Resting
  <2>3. \A x \in Tx : Kept(x)' /\ Resting(x)' => Untouched(x)'
    BY <1>11, <2>1, <2>2 DEF Kept, Untouched, Journaled
  <2>4. AtRest'
    BY <1>6, <2>3 DEF AtRest
  <2>5. Journaling' /\ Applying' /\ RollingBack' /\ RestoringIt'
    BY <2>1 DEF Journaling, Applying, RollingBack, RestoringIt
  <2>6. CASE undecided = t
    <3>1. ASSUME NEW i \in 1 .. Len(fs)
          PROVE  live[fs[i].path] = before[fs[i].path]
      <4>1. ~ i <= job.at
        BY <1>2, <2>1
      <4> QED
        BY <1>2, <1>8, <2>6, <4>1 DEF FileRestoring
    <3>2. \A p \in Path : live[p] = before[p]
      BY <1>4, <1>8, <2>6, <3>1 DEF OthersKept
    <3>3. live = before
      BY <1>5, <3>2
    <3>4. Undecided'
      BY <2>1, <2>6 DEF Undecided
    <3>5. Stutters
      BY <1>1, <1>3, <2>1, <2>6, <3>3 DEF Stutters, Logical
    <3> QED
      BY <1>7, <2>4, <2>5, <3>4, <3>5 DEF Safe
  <2>7. CASE undecided # t
    <3>1. Undecided'
      BY <1>12, <2>1, <2>7
    <3>2. Stutters
      BY <1>1, <2>1, <2>7 DEF Stutters, Logical
    <3> QED
      BY <1>7, <2>4, <2>5, <3>1, <3>2 DEF Safe
  <2> QED
    BY <2>6, <2>7
<1>14. CASE Restore
  <2> DEFINE path == fs[at].path
  <2>1. /\ at \in 1 .. Len(fs) /\ Target = path /\ path \in Path
        /\ Phase' = "restore" /\ job'.tx = t /\ job'.files = fs
    BY <1>1, <1>2, <1>14, RestoreEffect, Targets
  <2>2. undecided' = undecided
    BY <1>14 DEF Restore, ghostVars
  <2>3. Journaling' /\ Applying' /\ RollingBack'
    BY <2>1 DEF Journaling, Applying, RollingBack
  <2>4. CASE undecided # t
    <3>1. ~ HasBackup(t, at)
      BY <1>10, <2>4 DEF HasBackup
    <3>2. fs[at].remove \/ at \in r.staged
      BY <1>4, <1>10, <2>1, <2>4 DEF Puts
    <3>3. live' = live /\ tree' = tree
      BY <1>2, <1>14, <3>1, <3>2, RestoreEffect
    <3>4. Undecided'
      BY <1>12, <2>1, <2>2, <2>4, <3>3
    <3>5. \A x \in Tx : Kept(x)' /\ Resting(x)' => Untouched(x)'
      <4>1. Untouched(t)
        BY <1>10, <1>3, <2>4 DEF Untouched
      <4> QED
        BY <1>11, <3>3, <4>1 DEF Kept, Untouched, Journaled
    <3>6. AtRest'
      BY <1>6, <3>5 DEF AtRest
    <3>7. RestoringIt'
      BY <2>1, <2>2, <2>4 DEF RestoringIt
    <3>8. Stutters
      BY <1>1, <2>2, <3>3 DEF Stutters, Logical
    <3> QED
      BY <1>7, <2>3, <3>4, <3>6, <3>7, <3>8 DEF Safe
  <2>5. CASE undecided = t
    <3>1. /\ OthersKept(fs)
          /\ \A i \in 1 .. Len(fs) : FileRestoring(i)
      BY <1>8, <2>5
    <3>2. ASSUME tree' = tree \/ DirectoryBecomes(t, r.reserved, r.journal, r.staged,
                                                  WithoutBackup(t, at)),
                 \A p \in Path : p # path => live'[p] = live[p],
                 \/ job'.at = at /\ Recoverable(t, fs, at)'
                 \/ job'.at = at - 1 /\ live'[path] = before[path]
          PROVE  Safe' /\ Stutters
      <4>1. /\ \A x \in Tx \ {t} : tree'[x] = tree[x]
            /\ tree'[t].staged = r.staged
            /\ \A n \in Nat : n # at => /\ n \in DOMAIN tree'[t].backup <=> HasBackup(t, n)
                                        /\ HasBackup(t, n) => tree'[t].backup[n] = r.backup[n]
        <5>1. CASE tree' = tree
          BY <5>1 DEF HasBackup
        <5>2. CASE DirectoryBecomes(t, r.reserved, r.journal, r.staged, WithoutBackup(t, at))
          <6>1. /\ DOMAIN WithoutBackup(t, at) = DOMAIN r.backup \ {at}
                /\ \A n \in DOMAIN r.backup \ {at} : WithoutBackup(t, at)[n] = r.backup[n]
            BY DEF WithoutBackup
          <6> QED
            BY <5>2, <6>1 DEF DirectoryBecomes, HasBackup
        <5> QED
          BY <3>2, <5>1, <5>2
      <4>2. ASSUME NEW i \in 1 .. Len(fs)
            PROVE  FileRestoring(i)'
        <5>1. CASE i = at
          <6>1. CASE job'.at = at /\ Recoverable(t, fs, at)'
            BY <1>4, <2>1, <5>1, <6>1
               DEF FileRestoring, Recoverable, BackedUp, HasBackup
          <6>2. CASE job'.at = at - 1 /\ live'[path] = before[path]
            <7>1. ~ i <= job'.at
              BY <5>1, <6>2
            <7> QED
              BY <1>1, <2>1, <5>1, <6>2, <7>1 DEF FileRestoring
          <6> QED
            BY <3>2, <6>1, <6>2
        <5>2. CASE i < at
          <6>1. i <= job.at /\ i <= job'.at /\ i \in Nat /\ i # at
            BY <1>2, <3>2, <5>2
          <6>2. Recoverable(t, fs, i)
            BY <1>2, <3>1, <6>1 DEF FileRestoring
          <6>3. live'[fs[i].path] = live[fs[i].path]
            BY <1>4, <2>1, <3>2, <6>1
          <6>4. /\ i \in DOMAIN tree'[t].backup <=> HasBackup(t, i)
                /\ HasBackup(t, i) => tree'[t].backup[i] = r.backup[i]
            BY <4>1, <6>1
          <6>5. Recoverable(job.tx, job.files, i)'
            BY <1>1, <2>1, <4>1, <6>2, <6>3, <6>4 DEF Recoverable, BackedUp, HasBackup
          <6> QED
            BY <6>1, <6>5 DEF FileRestoring
        <5>3. CASE i > at
          <6>1. ~ i <= job.at /\ ~ i <= job'.at /\ i # at
            BY <1>2, <3>2, <5>3
          <6>2. live[fs[i].path] = before[fs[i].path]
            BY <1>2, <3>1, <6>1 DEF FileRestoring
          <6>3. live'[fs[i].path] = live[fs[i].path]
            BY <1>4, <2>1, <3>2, <6>1
          <6> QED
            BY <1>1, <2>1, <6>1, <6>2, <6>3 DEF FileRestoring
        <5> QED
          BY <5>1, <5>2, <5>3
      <4>3. OthersKept(fs)'
        BY <1>1, <1>4, <2>1, <3>1, <3>2 DEF OthersKept
      <4>4. RestoringIt'
        BY <2>1, <4>2, <4>3 DEF RestoringIt, OthersKept
      <4>5. \A x \in Tx : Kept(x)' /\ Resting(x)' => Untouched(x)'
        BY <1>11, <2>2, <2>5, <4>1 DEF Kept, Untouched, Journaled, Resting
      <4>6. AtRest'
        BY <1>6, <4>5 DEF AtRest
      <4>7. Undecided'
        BY <1>1, <1>8, <2>1, <2>2, <2>5 DEF Undecided
      <4>8. Stutters
        BY <1>1, <1>3, <2>2, <2>5 DEF Stutters, Logical
      <4> QED
        BY <1>7, <2>3, <4>4, <4>6, <4>7, <4>8 DEF Safe
    <3>3. Recoverable(t, fs, at)
      <4>1. at <= job.at
        BY <1>2
      <4> QED
        BY <1>2, <2>1, <3>1, <4>1 DEF FileRestoring
    <3>4. CASE HasBackup(t, at) /\ live[path] # Absent
      <4>1. live' = [live EXCEPT ![path] = Absent] /\ tree' = tree /\ job' = job
        BY <1>2, <1>14, <2>1, <3>4, RestoreEffect
      <4>2. Recoverable(t, fs, at)'
        BY <1>1, <3>3, <3>4, <4>1 DEF Recoverable, BackedUp, HasBackup
      <4>3. \A p \in Path : p # path => live'[p] = live[p]
        BY <1>5, <4>1
      <4>4. job'.at = at
        BY <1>2, <4>1
      <4> QED
        BY <3>2, <4>1, <4>2, <4>3, <4>4
    <3>5. CASE HasBackup(t, at) /\ live[path] = Absent
      <4>1. /\ live' = [live EXCEPT ![path] = r.backup[at]]
            /\ DirectoryBecomes(t, r.reserved, r.journal, r.staged, WithoutBackup(t, at))
            /\ job'.at = at - 1
        BY <1>2, <1>14, <2>1, <3>5, RestoreEffect
      <4>2. r.backup[at] = before[path]
        BY <3>3, <3>5 DEF Recoverable, BackedUp
      <4>3. (\A p \in Path : p # path => live'[p] = live[p]) /\ live'[path] = before[path]
        BY <1>5, <2>1, <4>1, <4>2
      <4> QED
        BY <3>2, <4>1, <4>3
    <3>6. CASE ~ HasBackup(t, at)
      <4>1. /\ live' = IF ~ fs[at].remove /\ at \notin r.staged
                       THEN [live EXCEPT ![path] = Absent] ELSE live
            /\ tree' = tree /\ job'.at = at - 1
        BY <1>2, <1>14, <2>1, <3>6, RestoreEffect
      <4>2. \A p \in Path : p # path => live'[p] = live[p]
        BY <1>5, <4>1
      <4>3. live'[path] = before[path]
        <5>1. CASE ~ fs[at].remove /\ at \notin r.staged
          <6>1. live'[path] = Absent
            BY <1>5, <2>1, <4>1, <5>1
          <6>2. before[path] = Absent
            BY <3>3, <3>6, <5>1 DEF Recoverable, BackedUp
          <6> QED
            BY <6>1, <6>2
        <5>2. CASE ~ (~ fs[at].remove /\ at \notin r.staged)
          BY <3>3, <3>6, <4>1, <5>2 DEF Recoverable, BackedUp
        <5> QED
          BY <5>1, <5>2
      <4> QED
        BY <3>2, <4>1, <4>2, <4>3
    <3> QED
      BY <3>4, <3>5, <3>6
  <2> QED
    BY <2>4, <2>5
<1> QED
  BY <1>1, <1>13, <1>14

\* While the files are moved, each has its way back.
LEMMA ApplyingIsInterrupted ==
    ASSUME Shape, Safe, Phase = "apply"
    PROVE  job.tx = undecided /\ Interrupted(job.tx)
<1>1. PICK t \in Tx, fs \in FileLists, at \in Nat : t = job.tx /\ fs = job.files /\ at = job.at
  BY Working, JobTypes DEF Shape
<1>2. /\ undecided = t /\ OthersKept(fs)
      /\ \A i \in 1 .. Len(fs) : FileApplying(i)
  BY <1>1 DEF Safe, Applying
<1>3. DOMAIN fs = 1 .. Len(fs) /\ Len(fs) \in Nat /\ fs # None /\ fs # Torn
  BY Lists, BoundAssumption
<1>4. Kept(t) /\ tree[t].journal = fs /\ Len(job.applied) <= at
  <2>1. Kept(t) /\ tree[t].journal = fs
    BY <1>1 DEF Shape, JobMatches
  <2>2. Len(job.applied) = IF job.moved THEN at ELSE at - 1
    BY <1>1 DEF Shape, JobMatches
  <2>3. Len(job.applied) = at \/ Len(job.applied) = at - 1
    BY <2>2, Zenon
  <2> QED
    BY <2>1, <2>3
<1>5. ASSUME NEW i \in 1 .. Len(fs)
      PROVE  Recoverable(t, fs, i)
  <2>1. FileApplying(i)
    BY <1>2
  <2>2. CASE i <= Len(job.applied)
    <3>1. Begun(t, fs, i, job.applied[i])
      BY <1>1, <2>1, <2>2 DEF FileApplying
    <3>2. CASE job.applied[i].backed_up
      BY <3>1, <3>2 DEF Begun, Recoverable
    <3>3. CASE ~ job.applied[i].backed_up
      <4>1. ~ HasBackup(t, i) /\ before[fs[i].path] = Absent
        BY <3>1, <3>3 DEF Begun
      <4>2. i < at \/ i = at
        BY <1>4, <2>2
      <4>3. CASE i = at
        <5>1. ~ job.applied[i].installed
          BY <1>1, <2>1, <2>2, <4>3 DEF FileApplying
        <5>2. live[fs[i].path] = Absent
          BY <3>1, <5>1 DEF Begun
        <5> QED
          BY <4>1, <5>2 DEF Recoverable
      <4>4. CASE i < at
        <5>1. job.applied[i].installed = ~ fs[i].remove /\ i \notin tree[t].staged
          BY <1>1, <2>1, <2>2, <4>4 DEF FileApplying
        <5>2. CASE fs[i].remove
          <6>1. live[fs[i].path] = Absent
            BY <3>1, <5>1, <5>2 DEF Begun
          <6> QED
            BY <4>1, <6>1 DEF Recoverable
        <5>3. CASE ~ fs[i].remove
          BY <4>1, <5>1, <5>3 DEF Recoverable
        <5> QED
          BY <5>2, <5>3
      <4> QED
        BY <4>2, <4>3, <4>4
    <3> QED
      BY <3>2, <3>3
  <2>3. CASE ~ i <= Len(job.applied)
    <3>1. NotBegun(t, fs, i)
      BY <1>1, <2>1, <2>3 DEF FileApplying
    <3> QED
      BY <3>1 DEF NotBegun, Recoverable
  <2> QED
    BY <2>2, <2>3
<1>6. Interrupted(t)
  BY <1>2, <1>3, <1>4, <1>5, Zenon DEF Interrupted, Journaled, Kept
<1> QED
  BY <1>1, <1>2, <1>6

\* A crash leaves what is undecided to the next start.
LEMMA CrashSafe ==
    ASSUME RecoveryRuns, Shape, Safe, Crash
    PROVE  Safe' /\ Stutters
<1>1. /\ up # "down" /\ Phase \in Guarded
      /\ up' = "down" /\ job' = None /\ owner' = <<>> /\ todo' = {}
      /\ UNCHANGED <<live, tree, used, plan, done, undecided, before>>
  BY DEF Crash, ghostVars, RecoveryRuns
<1>2. Phase' = "idle" /\ Owned' = {} /\ DOMAIN owner' = {}
  BY <1>1 DEF Phase, Owned
<1>3. undecided # None => undecided \notin done /\ Interrupted(undecided)
  <2>1. CASE Phase = "idle"
    BY <1>1, <2>1 DEF Safe, Undecided
  <2>2. CASE Phase = "journal"
    BY <2>2 DEF Safe, Journaling
  <2>3. CASE Phase = "apply"
    BY <2>3, ApplyingIsInterrupted DEF Safe, Undecided
  <2> QED
    BY <1>1, <2>1, <2>2, <2>3 DEF Guarded
<1>4. \A x \in Tx : Resting(x)' /\ Kept(x) => Untouched(x)
  BY <1>1 DEF Safe, AtRest, Resting, Guarded
<1>5. AtRest'
  <2>1. \A x \in Tx : Kept(x)' /\ Resting(x)' => Untouched(x)'
    BY <1>1, <1>4 DEF Kept, Untouched, Journaled
  <2> QED
    BY <1>2, <2>1 DEF AtRest
<1>6. Undecided'
  <2>1. CASE undecided = None
    BY <1>1, <2>1 DEF Undecided
  <2>2. CASE undecided # None
    <3>1. PICK u \in Tx : u = undecided
      BY <2>2 DEF Shape, TypeOK
    <3>2. Interrupted(u)'
      BY <1>1, <1>3, <2>2, <3>1, StaysInterrupted
    <3>3. Interrupted(undecided)'
      BY <1>1, <3>1, <3>2 DEF Interrupted, Journaled, OthersKept, Recoverable, BackedUp, HasBackup
    <3> QED
      BY <1>1, <1>3, <2>2, <3>3 DEF Undecided
  <2> QED
    BY <2>1, <2>2
<1>7. Journaling' /\ Applying' /\ RollingBack' /\ RestoringIt'
  BY <1>2 DEF Journaling, Applying, RollingBack, RestoringIt
<1>8. Histories'
  BY <1>1 DEF Histories, Safe
<1>9. Stutters
  BY <1>1 DEF Stutters, Logical
<1> QED
  BY <1>5, <1>6, <1>7, <1>8, <1>9 DEF Safe

\* The first state of the store is one of the specification it implements.
LEMMA AtomicInit == Init => Atomic!Init
BY DEF Init, Atomic!Init, Logical

\* Every step installs a whole transaction, asks for one, or changes nothing
\* an outside reader sees.
LEMMA SafeNext ==
    ASSUME RecoveryRuns
    PROVE  Shape /\ Safe /\ [Next]_vars => Safe' /\ [Atomic!Next]_(Atomic!vars)
<1> SUFFICES ASSUME Shape, Safe, [Next]_vars
             PROVE  Safe' /\ [Atomic!Next]_(Atomic!vars)
  OBVIOUS
<1>1. ASSUME Stutters
      PROVE  [Atomic!Next]_(Atomic!vars)
  BY <1>1 DEF Stutters, Atomic!vars
<1>2. ASSUME NEW t \in Tx, Atomic!Submit(t) \/ Atomic!Install(t)
      PROVE  [Atomic!Next]_(Atomic!vars)
  BY <1>2 DEF Atomic!Next
<1>3. CASE \/ \E t \in Tx, p \in Plugin : Begin(t, p)
           \/ \E t \in Tx, fs \in FileLists : Commit(t, fs)
           \/ \E t \in Tx : Abort(t)
           \/ \E p \in Plugin : AbortPlugin(p)
           \/ Shutdown
  BY <1>1, <1>2, <1>3, CallSafe
<1>4. CASE WriteJournal \/ JournalFails
  BY <1>1, <1>4, JournalSafe
<1>5. CASE MoveToBackup \/ InstallPayload
  BY <1>1, <1>5, ApplySafe
<1>6. CASE ApplyFails \/ CommitDone \/ RollbackDone
  BY <1>1, <1>6, EndSafe
<1>7. CASE RollbackFile
  BY <1>1, <1>7, RollbackSafe
<1>8. CASE RollbackFails
  BY <1>8 DEF RollbackFails, MayFail, RecoveryRuns, Guarded
<1>9. CASE \/ \E t \in Tx : RemoveEntry(t) \/ RemoveRoot(t) \/ RemoveFails(t)
           \/ RemovalDone
  BY <1>1, <1>2, <1>9, RemovalSafe
<1>10. CASE Start \/ Opened \/ \E t \in Tx : RecoverNext(t)
  BY <1>1, <1>10, StartSafe
<1>11. CASE Restore \/ RestoreFails \/ RestoreDone
  BY <1>1, <1>11, RestoreSafe
<1>12. CASE Crash
  BY <1>1, <1>12, CrashSafe
<1>13. CASE UNCHANGED vars
  <2>1. UNCHANGED <<live, tree, owner, used, job, up, todo, plan, done, undecided, before>>
    BY <1>13 DEF vars
  <2>2. Histories' /\ AtRest'
    BY <2>1 DEF Safe, Histories, AtRest, Owned, Kept, Resting, Phase, Untouched, Journaled
  <2>3. Journaling'
    BY <2>1 DEF Safe, Journaling, Phase, Planned
  <2>4. Applying'
    BY <2>1
       DEF Safe, Applying, Phase, Planned, OthersKept, FileApplying, Begun, NotBegun, BackedUp,
           HasBackup
  <2>5. RollingBack'
    BY <2>1 DEF Safe, RollingBack, Phase, OthersKept, FileRollingBack, Begun, BackedUp, HasBackup
  <2>6. RestoringIt'
    BY <2>1 DEF Safe, RestoringIt, Phase, OthersKept, FileRestoring, Recoverable, BackedUp,
                HasBackup
  <2>7. Undecided'
    BY <2>1 DEF Safe, Undecided, Phase, Outcome, Interrupted, Journaled, OthersKept, Recoverable,
                BackedUp, HasBackup
  <2>8. Stutters
    BY <2>1 DEF Stutters, Logical
  <2> QED
    BY <1>1, <2>2, <2>3, <2>4, <2>5, <2>6, <2>7, <2>8 DEF Safe
<1> QED
  BY <1>3, <1>4, <1>5, <1>6, <1>7, <1>8, <1>9, <1>10, <1>11, <1>12, <1>13, Zenon DEF Next, Step

\* When no crash or failure cuts short a rollback, a recovery or a removal,
\* commits, failures, interruptions and recoveries together change the files
\* by whole transactions: the store implements AtomicInstall.
THEOREM AtomicInstalls ==
    ASSUME RecoveryRuns
    PROVE  Spec => ImplementsAtomicInstall
<1>1. Init => Shape /\ Safe
  BY ShapeInit, SafeInit
<1>2. Shape /\ Safe /\ [Next]_vars => (Shape /\ Safe)'
  BY ShapeNext, SafeNext
<1>3. Shape /\ Safe /\ [Next]_vars => [Atomic!Next]_(Atomic!vars)
  BY SafeNext
<1> QED
  BY <1>1, <1>2, <1>3, AtomicInit, PTL DEF Spec, ImplementsAtomicInstall, Atomic!Spec
=============================================================================
