------------------------ MODULE SubtitleHistoryProofs ------------------------
(***************************************************************************)
(* Theorems about SubtitleHistory, for every set of lines, texts and       *)
(* clients, every undo limit and every bound.                              *)
(***************************************************************************)
EXTENDS SubtitleHistory, SequenceTheorems, TLAPS

USE DocumentAssumption, ClientAssumption, LevelsAssumption, RevisionAssumption

(***************************************************************************)
(* The inductive invariant.  The live revision can be newer than the       *)
(* newest entry's, because merging in place keeps the entry's revision,    *)
(* but only when nothing is undone.                                        *)
(***************************************************************************)
LiveRevision ==
    /\ undo_stack # <<>> => Top(undo_stack).commit_id <= commit_id
    /\ redo_stack # <<>> => /\ undo_stack # <<>>
                            /\ Top(undo_stack).commit_id = commit_id

IInv == TypeOK /\ TopIsDocument /\ RevisionsOrdered /\ LiveRevision
-----------------------------------------------------------------------------
\* What Pop and Trim return.
LEMMA PopSeq ==
    ASSUME NEW S, NEW s \in Seq(S), s # <<>>
    PROVE  /\ Pop(s) \in Seq(S)
           /\ Len(Pop(s)) = Len(s) - 1
           /\ \A i \in 1 .. Len(s) - 1 : Pop(s)[i] = s[i]
<1>1. Len(s) \in Nat /\ Len(s) >= 1
  BY EmptySeq
<1>2. \A i \in 1 .. Len(s) - 1 : s[i] \in S
  BY <1>1, ElementOfSeq
<1> DEFINE n == Len(s) - 1
           t == SubSeq(s, 1, n)
<1>3. n \in Nat
  BY <1>1
<1>4. \A i \in 1 .. n : s[i] \in S
  BY <1>2
<1> HIDE DEF n
<1>5. /\ t \in Seq(S)
      /\ Len(t) = IF 1 <= n THEN n - 1 + 1 ELSE 0
      /\ \A i \in 1 .. n - 1 + 1 : t[i] = s[1 + i - 1]
  BY <1>3, <1>4, SubSeqProperties
<1> HIDE DEF t
<1>6. Len(t) = n /\ \A i \in 1 .. n : t[i] = s[i]
  BY <1>3, <1>5
<1> QED
  BY <1>5, <1>6 DEF Pop, n, t

\* Trim drops the oldest entries, and none unless there are too many.
LEMMA TrimSeq ==
    ASSUME NEW S, NEW s \in Seq(S), Len(s) >= 1
    PROVE  \E k \in 0 .. Len(s) - 1 :
             /\ Trim(s) \in Seq(S)
             /\ Len(Trim(s)) = Len(s) - k
             /\ \A i \in 1 .. Len(s) - k : Trim(s)[i] = s[i + k]
             /\ k > 0 => Len(s) - k = MaxOf(UndoLevels, 2)
             /\ k = 0 => Len(s) <= MaxOf(UndoLevels, 2)
<1> DEFINE limit == MaxOf(UndoLevels, 2)
<1>1. limit \in Nat /\ limit >= 2
  BY DEF MaxOf
<1>2. Len(s) \in Nat
  BY EmptySeq, LenProperties
<1>3. CASE Len(s) <= limit
  <2>1. Trim(s) = s
    BY <1>1, <1>2, <1>3 DEF Trim
  <2> QED
    BY <1>1, <1>2, <1>3, <2>1
<1>4. CASE Len(s) > limit
  <2> DEFINE k == Len(s) - limit
  <2>1. k \in 1 .. Len(s) - 1
    BY <1>1, <1>2, <1>4
  <2>2. Trim(s) = SubSeq(s, k + 1, Len(s))
    BY <1>1, <1>2, <1>4 DEF Trim
  <2>3. \A i \in k + 1 .. Len(s) : s[i] \in S
    BY <1>2, <2>1, ElementOfSeq
  <2> HIDE DEF k
  <2>4. /\ Trim(s) \in Seq(S)
        /\ Len(Trim(s)) = Len(s) - k
        /\ \A i \in 1 .. Len(s) - k : Trim(s)[i] = s[i + k]
    <3>1. k + 1 \in Int /\ Len(s) \in Int /\ k + 1 <= Len(s)
      BY <1>2, <2>1
    <3>2. /\ SubSeq(s, k + 1, Len(s)) \in Seq(S)
          /\ Len(SubSeq(s, k + 1, Len(s))) = Len(s) - (k + 1) + 1
          /\ \A i \in 1 .. Len(s) - (k + 1) + 1 :
                SubSeq(s, k + 1, Len(s))[i] = s[(k + 1) + i - 1]
      BY <2>3, <3>1, SubSeqProperties
    <3> QED
      BY <1>2, <2>1, <2>2, <3>2
  <2>5. Len(s) - k = limit
    BY <1>1, <1>2 DEF k
  <2> QED
    BY <1>1, <1>2, <2>1, <2>4, <2>5
<1> QED
  BY <1>1, <1>2, <1>3, <1>4

\* Normalising gives a document again.
LEMMA NormalisedDocument ==
    ASSUME NEW doc \in Document, NEW d \in Normalised(doc)
    PROVE  d \in Document
  BY DEF Normalised, Document

\* A new entry goes on top of what is kept of the stack below it.
LEMMA RecordEntryShape ==
    ASSUME TypeOK, NEW base \in Seq(Entry), NEW doc \in Document,
           RecordEntry(base, doc)
    PROVE  /\ file' \in Document
           /\ undo_stack' \in Seq(Entry)
           /\ undo_stack' # <<>>
           /\ Top(undo_stack)' = [commit_id |-> next_commit_id, events |-> file']
           /\ \E k \in 0 .. Len(base) :
                /\ Len(undo_stack') = Len(base) + 1 - k
                /\ \A i \in 1 .. Len(base) - k : undo_stack'[i] = base[i + k]
                /\ k > 0 => Len(undo_stack') = MaxOf(UndoLevels, 2)
                /\ k = 0 => Len(base) + 1 <= MaxOf(UndoLevels, 2)
<1> DEFINE e == [commit_id |-> next_commit_id, events |-> file']
           all == Append(base, e)
<1>1. file' \in Document
  BY NormalisedDocument DEF RecordEntry
<1>2. e \in Entry
  BY <1>1 DEF TypeOK, Entry
<1>3. /\ all \in Seq(Entry)
      /\ Len(all) = Len(base) + 1
      /\ \A i \in 1 .. Len(base) : all[i] = base[i]
      /\ all[Len(base) + 1] = e
  <2> HIDE DEF e
  <2> QED
    BY <1>2, AppendProperties
<1>4. Len(base) \in Nat
  BY LenProperties
<1>5. undo_stack' = Trim(all)
  BY DEF RecordEntry
<1> HIDE DEF all, e
<1>6. PICK k \in 0 .. Len(all) - 1 :
         /\ Trim(all) \in Seq(Entry)
         /\ Len(Trim(all)) = Len(all) - k
         /\ \A i \in 1 .. Len(all) - k : Trim(all)[i] = all[i + k]
         /\ k > 0 => Len(all) - k = MaxOf(UndoLevels, 2)
         /\ k = 0 => Len(all) <= MaxOf(UndoLevels, 2)
  <2>1. all \in Seq(Entry) /\ Len(all) >= 1
    BY <1>3, <1>4
  <2> QED
    BY <2>1, TrimSeq
<1>7. undo_stack' \in Seq(Entry) /\ Len(undo_stack') = Len(base) + 1 - k
  BY <1>3, <1>4, <1>5, <1>6
<1>8. Top(undo_stack)' = e
  <2>1. Len(base) + 1 - k \in 1 .. Len(all) - k
    BY <1>3, <1>4, <1>6
  <2>2. undo_stack'[Len(base) + 1 - k] = all[(Len(base) + 1 - k) + k]
    BY <1>5, <1>6, <2>1
  <2> QED
    BY <1>3, <1>4, <1>6, <1>7, <2>2 DEF Top
<1>9. \A i \in 1 .. Len(base) - k : undo_stack'[i] = base[i + k]
  BY <1>3, <1>4, <1>5, <1>6
<1>10. undo_stack' # <<>>
  BY <1>3, <1>4, <1>6, <1>7, EmptySeq
<1> QED
  BY <1>1, <1>3, <1>4, <1>6, <1>7, <1>8, <1>9, <1>10 DEF e
-----------------------------------------------------------------------------
\* The part of the invariant about the recorded versions: all of it except
\* the types of the saved mark and of the clients' ids.
Recorded ==
    /\ file \in Document
    /\ undo_stack \in Seq(Entry)
    /\ redo_stack \in Seq(Entry)
    /\ next_commit_id \in Nat \ {0}
    /\ commit_id \in 0 .. next_commit_id - 1
    /\ TopIsDocument
    /\ RevisionsOrdered
    /\ LiveRevision

\* Recording on top of the undo stack, or of the stack without its newest
\* entry, keeps the versions in order.
LEMMA RecordEntryInvariant ==
    ASSUME IInv, NEW base \in Seq(Entry), NEW doc \in Document,
           Len(base) <= Len(undo_stack),
           \A i \in 1 .. Len(base) : base[i] = undo_stack[i],
           RecordEntry(base, doc)
    PROVE  Recorded'
<1>1. TypeOK /\ RevisionsOrdered
  BY DEF IInv
<1>2. PICK k \in 0 .. Len(base) :
         /\ Len(undo_stack') = Len(base) + 1 - k
         /\ \A i \in 1 .. Len(base) - k : undo_stack'[i] = base[i + k]
  BY <1>1, RecordEntryShape
<1>3. /\ file' \in Document
      /\ undo_stack' \in Seq(Entry)
      /\ undo_stack' # <<>>
      /\ Top(undo_stack)' = [commit_id |-> next_commit_id, events |-> file']
  BY <1>1, RecordEntryShape
<1>4. /\ redo_stack' = <<>>
      /\ commit_id' = next_commit_id
      /\ next_commit_id' = next_commit_id + 1
      /\ next_commit_id \in Nat \ {0}
  BY <1>1 DEF RecordEntry, TypeOK
<1>5. Len(base) \in Nat /\ Len(undo_stack) \in Nat
  BY <1>1, LenProperties DEF TypeOK
<1>6. \A i \in 1 .. Len(undo_stack') - 1 :
         /\ i + k \in 1 .. Len(undo_stack)
         /\ undo_stack'[i] = undo_stack[i + k]
  BY <1>2, <1>5
<1>7. undo_stack'[Len(undo_stack')].commit_id = next_commit_id
  BY <1>3 DEF Top
<1>8. \A i \in 1 .. Len(undo_stack) :
         /\ undo_stack[i].commit_id < next_commit_id
         /\ undo_stack[i].commit_id \in Nat
  <2> TAKE i \in 1 .. Len(undo_stack)
  <2>1. undo_stack[i] \in Entry
    BY <1>1, ElementOfSeq DEF TypeOK
  <2>2. undo_stack[i].commit_id < next_commit_id
    BY <1>1 DEF RevisionsOrdered
  <2> QED
    BY <2>1, <2>2 DEF Entry
<1>9. RevisionsOrdered'
  <2>1. \A i, j \in 1 .. Len(undo_stack') :
           i < j => undo_stack'[i].commit_id < undo_stack'[j].commit_id
    <3> SUFFICES ASSUME NEW i \in 1 .. Len(undo_stack'),
                        NEW j \in 1 .. Len(undo_stack'), i < j
                 PROVE  undo_stack'[i].commit_id < undo_stack'[j].commit_id
      OBVIOUS
    <3>1. i \in 1 .. Len(undo_stack') - 1
      BY <1>2, <1>5
    <3>2. CASE j = Len(undo_stack')
      BY <1>6, <1>7, <1>8, <3>1, <3>2
    <3>3. CASE j # Len(undo_stack')
      <4>1. j \in 1 .. Len(undo_stack') - 1 /\ i + k < j + k
        BY <1>2, <1>5, <3>3
      <4> QED
        BY <1>1, <1>6, <3>1, <4>1 DEF RevisionsOrdered
    <3> QED
      BY <3>2, <3>3
  <2>2. \A i \in 1 .. Len(undo_stack') :
           undo_stack'[i].commit_id < next_commit_id'
    <3> SUFFICES ASSUME NEW i \in 1 .. Len(undo_stack')
                 PROVE  undo_stack'[i].commit_id < next_commit_id'
      OBVIOUS
    <3>1. CASE i = Len(undo_stack')
      BY <1>4, <1>7, <3>1
    <3>2. CASE i # Len(undo_stack')
      <4>1. i \in 1 .. Len(undo_stack') - 1
        BY <1>2, <1>5, <3>2
      <4>2. undo_stack'[i].commit_id < next_commit_id
               /\ undo_stack'[i].commit_id \in Nat
        BY <1>6, <1>8, <4>1
      <4> QED
        BY <1>4, <4>2
    <3> QED
      BY <3>1, <3>2
  <2>3. Len(redo_stack') = 0
    BY <1>4
  <2> QED
    BY <2>1, <2>2, <2>3 DEF RevisionsOrdered
<1>10. redo_stack' \in Seq(Entry)
  BY <1>4, EmptySeq
<1>11. TopIsDocument' /\ LiveRevision'
  BY <1>3, <1>4 DEF TopIsDocument, LiveRevision
<1> QED
  BY <1>3, <1>4, <1>9, <1>10, <1>11 DEF Recorded

\* The entries of both stacks and their revisions.
LEMMA StackEntries ==
    ASSUME IInv
    PROVE  /\ Len(undo_stack) \in Nat /\ Len(redo_stack) \in Nat
           /\ \A i \in 1 .. Len(undo_stack) :
                /\ undo_stack[i] \in Entry
                /\ undo_stack[i].commit_id \in Nat
                /\ undo_stack[i].commit_id < next_commit_id
           /\ \A i \in 1 .. Len(redo_stack) :
                /\ redo_stack[i] \in Entry
                /\ redo_stack[i].commit_id \in Nat
                /\ redo_stack[i].commit_id < next_commit_id
<1>1. undo_stack \in Seq(Entry) /\ redo_stack \in Seq(Entry) /\ RevisionsOrdered
  BY DEF IInv, TypeOK
<1>2. Len(undo_stack) \in Nat /\ Len(redo_stack) \in Nat
  BY <1>1, LenProperties
<1>3. ASSUME NEW i \in 1 .. Len(undo_stack)
      PROVE  /\ undo_stack[i] \in Entry
             /\ undo_stack[i].commit_id \in Nat
             /\ undo_stack[i].commit_id < next_commit_id
  <2>1. undo_stack[i] \in Entry
    BY <1>1, ElementOfSeq
  <2>2. undo_stack[i].commit_id < next_commit_id
    BY <1>1 DEF RevisionsOrdered
  <2> QED
    BY <2>1, <2>2 DEF Entry
<1>4. ASSUME NEW i \in 1 .. Len(redo_stack)
      PROVE  /\ redo_stack[i] \in Entry
             /\ redo_stack[i].commit_id \in Nat
             /\ redo_stack[i].commit_id < next_commit_id
  <2>1. redo_stack[i] \in Entry
    BY <1>1, ElementOfSeq
  <2>2. redo_stack[i].commit_id < next_commit_id
    BY <1>1 DEF RevisionsOrdered
  <2> QED
    BY <2>1, <2>2 DEF Entry
<1> QED
  BY <1>2, <1>3, <1>4

\* Merging in place changes the newest entry's lines and nothing else.
LEMMA RecordInPlaceShape ==
    ASSUME IInv, NEW doc \in Document, NEW id, NEW d, NEW changed,
           DOMAIN doc = DOMAIN file,
           \A l \in DOMAIN doc : doc[l] = file[l] \/ l \in changed,
           RecordInPlace(doc, id, d, changed)
    PROVE  /\ undo_stack' \in Seq(Entry)
           /\ Len(undo_stack') = Len(undo_stack)
           /\ Len(undo_stack) >= 1
           /\ \A i \in 1 .. Len(undo_stack) :
                /\ undo_stack'[i].commit_id = undo_stack[i].commit_id
                /\ i < Len(undo_stack) => undo_stack'[i] = undo_stack[i]
           /\ Top(undo_stack)'.events = doc
<1> DEFINE n == Len(undo_stack)
           old == undo_stack[n]
           amended == AmendSnapshot(old.events, doc, changed)
           e == [commit_id |-> old.commit_id, events |-> amended]
<1>1. undo_stack \in Seq(Entry) /\ undo_stack # <<>> /\ n \in Nat /\ n >= 1
  BY EmptySeq, StackEntries DEF IInv, TypeOK, RecordInPlace, Merges
<1>2. old \in Entry
  BY <1>1, StackEntries
<1>3. old.events = file
  BY <1>1 DEF IInv, TopIsDocument, Top
<1>4. amended = doc
  BY <1>3 DEF AmendSnapshot, Document
<1>5. e \in Entry
  BY <1>2, <1>4 DEF Entry
<1>6. undo_stack' = [undo_stack EXCEPT ![n] = e]
  BY DEF RecordInPlace
<1> HIDE DEF e
<1>7. /\ undo_stack' \in Seq(Entry)
      /\ Len(undo_stack') = n
      /\ \A i \in 1 .. n : undo_stack'[i] = IF i = n THEN e ELSE undo_stack[i]
  BY <1>1, <1>5, <1>6, ExceptSeq
<1>8. e.commit_id = old.commit_id /\ e.events = doc
  BY <1>4 DEF e
<1>9. Top(undo_stack)' = e
  BY <1>1, <1>7 DEF Top
<1>10. \A i \in 1 .. n : /\ undo_stack'[i].commit_id = undo_stack[i].commit_id
                          /\ i < n => undo_stack'[i] = undo_stack[i]
  BY <1>1, <1>7, <1>8
<1> QED
  BY <1>1, <1>7, <1>8, <1>9, <1>10

\* Merging in place keeps the invariant.
LEMMA RecordInPlaceInvariant ==
    ASSUME IInv, NEW doc \in Document, NEW id, NEW d, NEW changed,
           DOMAIN doc = DOMAIN file,
           \A l \in DOMAIN doc : doc[l] = file[l] \/ l \in changed,
           RecordInPlace(doc, id, d, changed)
    PROVE  Recorded'
<1>1. /\ undo_stack' \in Seq(Entry)
      /\ Len(undo_stack') = Len(undo_stack)
      /\ Len(undo_stack) >= 1
      /\ \A i \in 1 .. Len(undo_stack) :
           undo_stack'[i].commit_id = undo_stack[i].commit_id
      /\ Top(undo_stack)'.events = doc
  BY RecordInPlaceShape
<1>2. /\ redo_stack = <<>> /\ redo_stack' = <<>>
      /\ commit_id' = next_commit_id
      /\ next_commit_id' = next_commit_id + 1
      /\ file' = doc
  BY DEF RecordInPlace, Merges
<1>3. next_commit_id \in Nat \ {0} /\ RevisionsOrdered
  BY DEF IInv, TypeOK
<1>4. \A i \in 1 .. Len(undo_stack) :
         /\ undo_stack[i].commit_id \in Nat
         /\ undo_stack[i].commit_id < next_commit_id
  BY StackEntries
<1>5. Len(redo_stack') = 0 /\ Len(undo_stack) \in Nat
  BY <1>2, StackEntries
<1>6. RevisionsOrdered'
  <2>1. \A i, j \in 1 .. Len(undo_stack') :
           i < j => undo_stack'[i].commit_id < undo_stack'[j].commit_id
    BY <1>1, <1>3 DEF RevisionsOrdered
  <2>2. \A i \in 1 .. Len(undo_stack') :
           undo_stack'[i].commit_id < next_commit_id'
    BY <1>1, <1>2, <1>3, <1>4
  <2> QED
    BY <1>5, <2>1, <2>2 DEF RevisionsOrdered
<1>7. TopIsDocument'
  BY <1>1, <1>2 DEF TopIsDocument
<1>8. LiveRevision'
  <2>1. Top(undo_stack)'.commit_id = undo_stack[Len(undo_stack)].commit_id
    BY <1>1, <1>5 DEF Top
  <2> QED
    BY <1>1, <1>2, <1>3, <1>4, <1>5, <2>1 DEF LiveRevision
<1>9. redo_stack' \in Seq(Entry)
  BY <1>2, EmptySeq
<1> QED
  BY <1>1, <1>2, <1>3, <1>6, <1>7, <1>8, <1>9 DEF Recorded

\* Whichever of its outcomes Record takes, the invariant holds.
LEMMA RecordInvariant ==
    ASSUME IInv, NEW doc \in Document, NEW id, NEW d, NEW changed,
           d => /\ DOMAIN doc = DOMAIN file
                /\ changed # {} =>
                     \A l \in DOMAIN doc : doc[l] = file[l] \/ l \in changed,
           Record(doc, id, d, changed)
    PROVE  Recorded'
<1>1. undo_stack \in Seq(Entry)
  BY DEF IInv, TypeOK
<1>2. CASE RecordInPlace(doc, id, d, changed)
  <2>1. d /\ changed # {}
    BY <1>2 DEF RecordInPlace, CanAmendSnapshot
  <2> QED
    BY <1>2, <2>1, RecordInPlaceInvariant
<1>3. CASE Merges(id) /\ RecordEntry(Pop(undo_stack), doc)
  <2>1. undo_stack # <<>>
    BY <1>3 DEF Merges
  <2>2. /\ Pop(undo_stack) \in Seq(Entry)
        /\ Len(Pop(undo_stack)) = Len(undo_stack) - 1
        /\ \A i \in 1 .. Len(undo_stack) - 1 : Pop(undo_stack)[i] = undo_stack[i]
    BY <1>1, <2>1, PopSeq
  <2>3. Len(undo_stack) \in Nat
    BY StackEntries
  <2> QED
    BY <1>3, <2>2, <2>3, RecordEntryInvariant
<1>4. CASE RecordEntry(undo_stack, doc)
  BY <1>1, <1>4, StackEntries, RecordEntryInvariant
<1> QED
  BY <1>2, <1>3, <1>4 DEF Record

\* A commit keeps the invariant: the revision it returns is below the
\* allocator, whatever id the client passed.
LEMMA CommitInvariant ==
    ASSUME IInv, NEW c \in Client, NEW doc \in Document, NEW d, NEW changed,
           d => /\ DOMAIN doc = DOMAIN file
                /\ changed # {} =>
                     \A l \in DOMAIN doc : doc[l] = file[l] \/ l \in changed,
           Commit(c, doc, d, changed)
    PROVE  IInv'
<1>1. PICK id \in {NoId, amend_id[c]} : Record(doc, id, d, changed)
  BY DEF Commit
<1>2. Recorded'
  BY <1>1, RecordInvariant
<1>3. commit_id' = next_commit_id /\ next_commit_id' = next_commit_id + 1
  BY <1>1 DEF Record, RecordInPlace, RecordEntry
<1>4. /\ amend_id \in [Client -> {NoId} \cup (1 .. next_commit_id - 1)]
      /\ next_commit_id \in Nat \ {0}
      /\ saved_commit_id \in -1 .. next_commit_id - 1
      /\ saved \in Document
  BY DEF IInv, TypeOK
<1>5. amend_id' \in [Client -> {NoId} \cup (1 .. next_commit_id' - 1)]
  BY <1>3, <1>4 DEF Commit
<1>6. saved_commit_id' \in -1 .. next_commit_id' - 1 /\ saved' \in Document
  BY <1>3, <1>4 DEF Commit
<1> QED
  BY <1>2, <1>5, <1>6 DEF Recorded, IInv, TypeOK

\* DropIds leaves every client with an id below the allocator.
LEMMA DropIdsType ==
    ASSUME IInv, DropIds
    PROVE  amend_id' \in [Client -> {NoId} \cup (1 .. next_commit_id - 1)]
  BY DEF IInv, TypeOK, DropIds

\* Undo keeps the invariant.
LEMMA UndoInvariant == IInv /\ Undo => IInv'
<1> SUFFICES ASSUME IInv, Undo PROVE IInv'
  OBVIOUS
<1> DEFINE n == Len(undo_stack)
           m == Len(redo_stack)
<1>1. /\ undo_stack \in Seq(Entry)
      /\ redo_stack \in Seq(Entry)
      /\ next_commit_id \in Nat \ {0}
      /\ saved_commit_id \in -1 .. next_commit_id - 1
      /\ saved \in Document
      /\ RevisionsOrdered
  BY DEF IInv, TypeOK
<1>2. n \in Nat /\ m \in Nat /\ n > 1 /\ undo_stack # <<>>
  BY <1>1, StackEntries, EmptySeq DEF Undo, CanUndo
<1>3. /\ undo_stack' \in Seq(Entry)
      /\ Len(undo_stack') = n - 1
      /\ \A i \in 1 .. n - 1 : undo_stack'[i] = undo_stack[i]
  BY <1>1, <1>2, PopSeq DEF Undo
<1>4. /\ redo_stack' \in Seq(Entry)
      /\ Len(redo_stack') = m + 1
      /\ \A i \in 1 .. m : redo_stack'[i] = redo_stack[i]
      /\ redo_stack'[m + 1] = undo_stack[n]
  <2>1. undo_stack[n] \in Entry
    BY <1>2, StackEntries
  <2>2. redo_stack' = Append(redo_stack, undo_stack[n])
    BY DEF Undo, Top
  <2> QED
    BY <1>1, <2>1, <2>2, AppendProperties
<1>5. /\ Top(undo_stack)' = undo_stack[n - 1]
      /\ undo_stack[n - 1] \in Entry
      /\ undo_stack[n - 1].commit_id < next_commit_id
      /\ undo_stack' # <<>>
  BY <1>2, <1>3, StackEntries, EmptySeq DEF Top
<1>6. /\ commit_id' = undo_stack[n - 1].commit_id
      /\ file' = undo_stack[n - 1].events
      /\ UNCHANGED <<saved_commit_id, next_commit_id, saved>>
  BY <1>5 DEF Undo
<1>7. TypeOK'
  <2>1. amend_id' \in [Client -> {NoId} \cup (1 .. next_commit_id - 1)]
    BY DropIdsType DEF Undo
  <2>2. commit_id' \in 0 .. next_commit_id - 1 /\ file' \in Document
    BY <1>1, <1>5, <1>6 DEF Entry
  <2> QED
    BY <1>1, <1>3, <1>4, <1>6, <2>1, <2>2 DEF TypeOK
<1>8. TopIsDocument' /\ LiveRevision'
  BY <1>5, <1>6, <1>7 DEF TopIsDocument, LiveRevision, TypeOK
<1>9. RevisionsOrdered'
  <2>1. \A i, j \in 1 .. Len(undo_stack') :
           i < j => undo_stack'[i].commit_id < undo_stack'[j].commit_id
    BY <1>1, <1>2, <1>3 DEF RevisionsOrdered
  <2>2. \A i, j \in 1 .. Len(redo_stack') :
           i < j => redo_stack'[i].commit_id > redo_stack'[j].commit_id
    <3> SUFFICES ASSUME NEW i \in 1 .. m + 1, NEW j \in 1 .. m + 1, i < j
                 PROVE  redo_stack'[i].commit_id > redo_stack'[j].commit_id
      BY <1>4
    <3>1. i \in 1 .. m /\ redo_stack'[i] = redo_stack[i]
      BY <1>2, <1>4
    <3>2. CASE j = m + 1
      <4>1. n \in 1 .. n
        BY <1>2
      <4>2. undo_stack[n].commit_id < redo_stack[i].commit_id
        BY <1>1, <3>1, <4>1 DEF RevisionsOrdered
      <4> QED
        BY <1>2, <1>4, <3>1, <3>2, <4>1, <4>2, StackEntries
    <3>3. CASE j # m + 1
      <4>1. j \in 1 .. m /\ redo_stack'[j] = redo_stack[j]
        BY <1>2, <1>4, <3>3
      <4> QED
        BY <1>1, <3>1, <4>1 DEF RevisionsOrdered
    <3> QED
      BY <3>2, <3>3
  <2>3. \A i \in 1 .. Len(undo_stack'), j \in 1 .. Len(redo_stack') :
           undo_stack'[i].commit_id < redo_stack'[j].commit_id
    <3> SUFFICES ASSUME NEW i \in 1 .. n - 1, NEW j \in 1 .. m + 1
                 PROVE  undo_stack'[i].commit_id < redo_stack'[j].commit_id
      BY <1>3, <1>4
    <3>1. i \in 1 .. n /\ n \in 1 .. n /\ i < n /\ undo_stack'[i] = undo_stack[i]
      BY <1>2, <1>3
    <3>2. CASE j = m + 1
      BY <1>1, <1>4, <3>1, <3>2 DEF RevisionsOrdered
    <3>3. CASE j # m + 1
      <4>1. j \in 1 .. m /\ redo_stack'[j] = redo_stack[j]
        BY <1>2, <1>4, <3>3
      <4> QED
        BY <1>1, <3>1, <4>1 DEF RevisionsOrdered
    <3> QED
      BY <3>2, <3>3
  <2>4. \A i \in 1 .. Len(undo_stack') :
           undo_stack'[i].commit_id < next_commit_id'
    BY <1>2, <1>3, <1>6, StackEntries
  <2>5. \A i \in 1 .. Len(redo_stack') :
           redo_stack'[i].commit_id < next_commit_id'
    BY <1>2, <1>4, <1>6, StackEntries
  <2> QED
    BY <2>1, <2>2, <2>3, <2>4, <2>5 DEF RevisionsOrdered
<1> QED
  BY <1>7, <1>8, <1>9 DEF IInv

\* Redo keeps the invariant.
LEMMA RedoInvariant == IInv /\ Redo => IInv'
<1> SUFFICES ASSUME IInv, Redo PROVE IInv'
  OBVIOUS
<1> DEFINE n == Len(undo_stack)
           m == Len(redo_stack)
<1>1. /\ undo_stack \in Seq(Entry)
      /\ redo_stack \in Seq(Entry)
      /\ next_commit_id \in Nat \ {0}
      /\ saved_commit_id \in -1 .. next_commit_id - 1
      /\ saved \in Document
      /\ RevisionsOrdered
  BY DEF IInv, TypeOK
<1>2. n \in Nat /\ m \in Nat /\ m > 0 /\ redo_stack # <<>>
  BY <1>1, StackEntries, EmptySeq DEF Redo, CanRedo
<1>3. /\ redo_stack' \in Seq(Entry)
      /\ Len(redo_stack') = m - 1
      /\ \A i \in 1 .. m - 1 : redo_stack'[i] = redo_stack[i]
  BY <1>1, <1>2, PopSeq DEF Redo
<1>4. redo_stack[m] \in Entry /\ redo_stack[m].commit_id < next_commit_id
  BY <1>2, StackEntries
<1>5. /\ undo_stack' \in Seq(Entry)
      /\ Len(undo_stack') = n + 1
      /\ \A i \in 1 .. n : undo_stack'[i] = undo_stack[i]
      /\ undo_stack'[n + 1] = redo_stack[m]
  <2>1. undo_stack' = Append(undo_stack, redo_stack[m])
    BY DEF Redo, Top
  <2> QED
    BY <1>1, <1>4, <2>1, AppendProperties
<1>6. Top(undo_stack)' = redo_stack[m] /\ undo_stack' # <<>>
  BY <1>2, <1>5, EmptySeq DEF Top
<1>7. /\ commit_id' = redo_stack[m].commit_id
      /\ file' = redo_stack[m].events
      /\ UNCHANGED <<saved_commit_id, next_commit_id, saved>>
  BY <1>6 DEF Redo
<1>8. TypeOK'
  <2>1. amend_id' \in [Client -> {NoId} \cup (1 .. next_commit_id - 1)]
    BY DropIdsType DEF Redo
  <2>2. commit_id' \in 0 .. next_commit_id - 1 /\ file' \in Document
    BY <1>1, <1>4, <1>7 DEF Entry
  <2> QED
    BY <1>1, <1>3, <1>5, <1>7, <2>1, <2>2 DEF TypeOK
<1>9. TopIsDocument' /\ LiveRevision'
  BY <1>6, <1>7, <1>8 DEF TopIsDocument, LiveRevision, TypeOK
<1>10. RevisionsOrdered'
  <2>1. \A i, j \in 1 .. Len(undo_stack') :
           i < j => undo_stack'[i].commit_id < undo_stack'[j].commit_id
    <3> SUFFICES ASSUME NEW i \in 1 .. n + 1, NEW j \in 1 .. n + 1, i < j
                 PROVE  undo_stack'[i].commit_id < undo_stack'[j].commit_id
      BY <1>5
    <3>1. i \in 1 .. n /\ undo_stack'[i] = undo_stack[i]
      BY <1>2, <1>5
    <3>2. CASE j = n + 1
      BY <1>1, <1>2, <1>5, <3>1, <3>2 DEF RevisionsOrdered
    <3>3. CASE j # n + 1
      <4>1. j \in 1 .. n
        BY <1>2, <3>3
      <4> QED
        BY <1>1, <1>5, <3>1, <4>1 DEF RevisionsOrdered
    <3> QED
      BY <3>2, <3>3
  <2>2. \A i, j \in 1 .. Len(redo_stack') :
           i < j => redo_stack'[i].commit_id > redo_stack'[j].commit_id
    BY <1>1, <1>2, <1>3 DEF RevisionsOrdered
  <2>3. \A i \in 1 .. Len(undo_stack'), j \in 1 .. Len(redo_stack') :
           undo_stack'[i].commit_id < redo_stack'[j].commit_id
    <3> SUFFICES ASSUME NEW i \in 1 .. n + 1, NEW j \in 1 .. m - 1
                 PROVE  undo_stack'[i].commit_id < redo_stack'[j].commit_id
      BY <1>3, <1>5
    <3>1. j \in 1 .. m /\ m \in 1 .. m /\ j < m /\ redo_stack'[j] = redo_stack[j]
      BY <1>2, <1>3
    <3>2. redo_stack[j].commit_id > redo_stack[m].commit_id
      BY <1>1, <3>1 DEF RevisionsOrdered
    <3>3. CASE i = n + 1
      BY <1>2, <1>5, <3>1, <3>2, <3>3, StackEntries
    <3>4. CASE i # n + 1
      <4>1. i \in 1 .. n
        BY <1>2, <3>4
      <4> QED
        BY <1>1, <1>5, <3>1, <4>1 DEF RevisionsOrdered
    <3> QED
      BY <3>3, <3>4
  <2>4. \A i \in 1 .. Len(undo_stack') :
           undo_stack'[i].commit_id < next_commit_id'
    BY <1>2, <1>4, <1>5, <1>7, StackEntries
  <2>5. \A i \in 1 .. Len(redo_stack') :
           redo_stack'[i].commit_id < next_commit_id'
    BY <1>2, <1>3, <1>7, StackEntries
  <2> QED
    BY <2>1, <2>2, <2>3, <2>4, <2>5 DEF RevisionsOrdered
<1> QED
  BY <1>8, <1>9, <1>10 DEF IInv

\* A single entry, as after a load, is a well-formed history.
LEMMA LoadInvariant ==
    ASSUME IInv, NEW doc \in Document, Load(doc)
    PROVE  IInv'
<1> DEFINE e == [commit_id |-> next_commit_id, events |-> file']
<1>1. /\ next_commit_id \in Nat \ {0}
      /\ commit_id \in 0 .. next_commit_id - 1
  BY DEF IInv, TypeOK
<1>2. file' \in Document
  BY NormalisedDocument DEF Load
<1>3. e \in Entry
  BY <1>1, <1>2 DEF Entry
<1>4. undo_stack' = <<e>> /\ redo_stack' = <<>>
  BY DEF Load
<1> HIDE DEF e
<1>5. /\ undo_stack' \in Seq(Entry)
      /\ Len(undo_stack') = 1
      /\ undo_stack'[1] = e
      /\ redo_stack' \in Seq(Entry)
      /\ Len(redo_stack') = 0
  BY <1>3, <1>4
<1>6. /\ saved_commit_id' = commit_id + 1
      /\ commit_id' = next_commit_id
      /\ next_commit_id' = next_commit_id + 1
      /\ saved' = file'
  BY DEF Load
<1>7. amend_id' \in [Client -> {NoId} \cup (1 .. next_commit_id' - 1)]
  BY <1>1, <1>6, DropIdsType DEF Load
<1>8. TypeOK'
  BY <1>1, <1>2, <1>5, <1>6, <1>7 DEF TypeOK
<1>9. e.commit_id = next_commit_id /\ e.events = file'
  BY DEF e
<1>10. TopIsDocument' /\ LiveRevision'
  BY <1>1, <1>4, <1>5, <1>6, <1>9 DEF TopIsDocument, LiveRevision, Top
<1>11. RevisionsOrdered'
  <2>1. \A i \in 1 .. Len(undo_stack') :
           i = 1 /\ undo_stack'[i].commit_id < next_commit_id'
    BY <1>1, <1>5, <1>6, <1>9
  <2>2. \A i, j \in 1 .. Len(undo_stack') : ~ (i < j)
    BY <1>5
  <2>3. \A i \in 1 .. Len(redo_stack') : FALSE
    BY <1>5
  <2> QED
    BY <2>1, <2>2, <2>3 DEF RevisionsOrdered
<1> QED
  BY <1>8, <1>10, <1>11 DEF IInv
-----------------------------------------------------------------------------
\* A constructed history satisfies the invariant.
LEMMA InitInvariant == Init => IInv
<1> SUFFICES ASSUME Init PROVE IInv
  OBVIOUS
<1>1. Len(undo_stack) = 0 /\ Len(redo_stack) = 0
  BY DEF Init
<1>2. TypeOK
  BY DEF Init, TypeOK
<1> QED
  BY <1>1, <1>2 DEF Init, IInv, TopIsDocument, RevisionsOrdered, LiveRevision

\* Lines named in a commit are exactly the lines its client changed.
LEMMA EditLinesInvariant ==
    ASSUME IInv, NEW c \in Client, NEW changed \in SUBSET Line,
           NEW exact \in BOOLEAN, NEW t \in Text,
           EditLines(c, changed, exact, t)
    PROVE  IInv'
<1> DEFINE doc == [l \in DOMAIN file |-> IF l \in changed THEN t ELSE file[l]]
           named == IF exact THEN changed ELSE {}
<1>1. doc \in Document
  BY DEF IInv, TypeOK, Document
<1>2. /\ DOMAIN doc = DOMAIN file
      /\ named # {} =>
           \A l \in DOMAIN doc : doc[l] = file[l] \/ l \in named
  OBVIOUS
<1>3. Commit(c, doc, TRUE, named)
  BY DEF EditLines
<1> HIDE DEF doc, named
<1> QED
  BY <1>1, <1>2, <1>3, CommitInvariant

\* Every step keeps the invariant.
LEMMA StepInvariant == IInv /\ [Next]_vars => IInv'
<1> SUFFICES ASSUME IInv, [Next]_vars PROVE IInv'
  OBVIOUS
<1>1. ASSUME NEW c \in Client, NEW changed \in SUBSET Line,
             NEW exact \in BOOLEAN, NEW t \in Text,
             EditLines(c, changed, exact, t)
      PROVE  IInv'
  BY <1>1, EditLinesInvariant
<1>2. ASSUME NEW c \in Client, NEW doc \in Document, EditDocument(c, doc)
      PROVE  IInv'
  BY <1>2, CommitInvariant DEF EditDocument
<1>3. ASSUME NEW c \in Client, ResetCommitId(c)
      PROVE  IInv'
  BY <1>3 DEF ResetCommitId, history, IInv, TypeOK, TopIsDocument,
              RevisionsOrdered, LiveRevision
<1>4. ASSUME NEW doc \in Document, Load(doc)
      PROVE  IInv'
  BY <1>4, LoadInvariant
<1>5. CASE Save
  BY <1>5 DEF Save, history, IInv, TypeOK, TopIsDocument, RevisionsOrdered,
              LiveRevision
<1>6. CASE FileDeleted
  BY <1>6 DEF FileDeleted, history, IInv, TypeOK, TopIsDocument,
              RevisionsOrdered, LiveRevision
<1>7. CASE UNCHANGED vars
  BY <1>7 DEF vars, IInv, TypeOK, TopIsDocument, RevisionsOrdered, LiveRevision
<1> QED
  BY <1>1, <1>2, <1>3, <1>4, <1>5, <1>6, <1>7, UndoInvariant, RedoInvariant
     DEF Next

\* Types, the ordering of revisions and the agreement of the newest entry with
\* the live document hold in every reachable state.
THEOREM Invariant == Spec => []IInv
<1> QED
  BY InitInvariant, StepInvariant, PTL DEF Spec

\* Every variable has its type.
THEOREM TypeCorrect == Spec => []TypeOK
<1>1. IInv => TypeOK
  BY DEF IInv
<1> QED
  BY <1>1, Invariant, PTL

\* Revisions are allocated upwards and order the versions the stacks hold, so
\* a revision names one version.
THEOREM Ordered == Spec => []RevisionsOrdered
<1>1. IInv => RevisionsOrdered
  BY DEF IInv
<1> QED
  BY <1>1, Invariant, PTL

\* Amending a snapshot in place never lets it drift from the live document.
THEOREM TopCurrent == Spec => []TopIsDocument
<1>1. IInv => TopIsDocument
  BY DEF IInv
<1> QED
  BY <1>1, Invariant, PTL
-----------------------------------------------------------------------------
(***************************************************************************)
(* The saved mark.  "Unmodified" compares revisions, not documents, so it  *)
(* is right only if a revision keeps naming the document it was given.     *)
(* Merging in place breaks that for the newest entry: it changes under its *)
(* old revision.  The invariant says why this never happens to the saved   *)
(* revision when every client drops its id on Undo and Redo: an id that is *)
(* still the newest one belongs to the live revision (AmendIsLive), so the *)
(* save barrier in Record looks at the right revision, and an entry whose  *)
(* revision lags the live one is not the saved one (LaggingNotSaved).      *)
(***************************************************************************)
AmendIsLive ==
    \A c \in Client :
        amend_id[c] = next_commit_id - 1 => commit_id = next_commit_id - 1

LaggingNotSaved ==
    undo_stack # <<>> => \/ Top(undo_stack).commit_id = commit_id
                         \/ Top(undo_stack).commit_id # saved_commit_id

SavedMark == SavedEntryIsSaved /\ UnmodifiedIsSaved /\ LaggingNotSaved
SavedInv == IInv /\ AmendIsLive /\ SavedMark

\* A new entry keeps the saved mark sound.
LEMMA RecordEntrySaved ==
    ASSUME SavedInv, IInv', NEW base \in Seq(Entry), NEW doc \in Document,
           Len(base) <= Len(undo_stack),
           \A i \in 1 .. Len(base) : base[i] = undo_stack[i],
           RecordEntry(base, doc),
           UNCHANGED <<saved_commit_id, saved>>
    PROVE  SavedMark'
<1>1. TypeOK /\ IInv
  BY DEF SavedInv, IInv
<1>2. PICK k \in 0 .. Len(base) :
         /\ Len(undo_stack') = Len(base) + 1 - k
         /\ \A i \in 1 .. Len(base) - k : undo_stack'[i] = base[i + k]
  BY <1>1, RecordEntryShape
<1>3. Top(undo_stack)' = [commit_id |-> next_commit_id, events |-> file']
  BY <1>1, RecordEntryShape
<1>4. /\ redo_stack' = <<>>
      /\ commit_id' = next_commit_id
      /\ saved_commit_id \in -1 .. next_commit_id - 1
      /\ next_commit_id \in Nat
  BY <1>1 DEF RecordEntry, TypeOK
<1>5. Len(base) \in Nat /\ Len(undo_stack) \in Nat
  BY <1>1, LenProperties, StackEntries
<1>6. \A i \in 1 .. Len(undo_stack) :
         undo_stack[i].commit_id = saved_commit_id => undo_stack[i].events = saved
  BY DEF SavedInv, SavedMark, SavedEntryIsSaved
<1>7. ASSUME NEW i \in 1 .. Len(undo_stack'),
             undo_stack'[i].commit_id = saved_commit_id
      PROVE  undo_stack'[i].events = saved
  <2>1. CASE i = Len(undo_stack')
    BY <1>3, <1>4, <1>7, <2>1 DEF Top
  <2>2. CASE i # Len(undo_stack')
    <3>1. i \in 1 .. Len(base) - k /\ i + k \in 1 .. Len(undo_stack)
      BY <1>2, <1>5, <2>2
    <3>2. undo_stack'[i] = undo_stack[i + k]
      BY <1>2, <1>5, <3>1
    <3> QED
      BY <1>6, <1>7, <3>1, <3>2
  <2> QED
    BY <2>1, <2>2
<1>8. SavedEntryIsSaved'
  <2>1. Len(redo_stack') = 0
    BY <1>4
  <2> QED
    BY <1>7, <2>1 DEF SavedEntryIsSaved
<1>9. UnmodifiedIsSaved' /\ LaggingNotSaved'
  BY <1>3, <1>4 DEF UnmodifiedIsSaved, IsModified, LaggingNotSaved
<1> QED
  BY <1>8, <1>9 DEF SavedMark

\* The save barrier: a merge in place finds the saved revision elsewhere.
LEMMA RecordInPlaceSaved ==
    ASSUME SavedInv, NEW c \in Client, NEW id \in {NoId, amend_id[c]},
           NEW doc \in Document, NEW d, NEW changed,
           DOMAIN doc = DOMAIN file,
           \A l \in DOMAIN doc : doc[l] = file[l] \/ l \in changed,
           RecordInPlace(doc, id, d, changed),
           UNCHANGED <<saved_commit_id, saved>>
    PROVE  SavedMark'
<1>1. IInv /\ TypeOK
  BY DEF SavedInv, IInv
<1>2. /\ Len(undo_stack') = Len(undo_stack)
      /\ Len(undo_stack) >= 1
      /\ \A i \in 1 .. Len(undo_stack) :
           /\ undo_stack'[i].commit_id = undo_stack[i].commit_id
           /\ i < Len(undo_stack) => undo_stack'[i] = undo_stack[i]
  BY <1>1, RecordInPlaceShape
<1>3. /\ next_commit_id = id + 1
      /\ redo_stack' = <<>>
      /\ saved_commit_id + 1 # next_commit_id
      /\ commit_id' = next_commit_id
      /\ undo_stack # <<>>
  BY DEF RecordInPlace, Merges
<1>4. /\ next_commit_id \in Nat \ {0}
      /\ commit_id \in 0 .. next_commit_id - 1
      /\ saved_commit_id \in -1 .. next_commit_id - 1
      /\ amend_id[c] \in Int
  BY <1>1 DEF TypeOK, NoId
<1>5. commit_id = next_commit_id - 1
  <2>1. id # NoId
    BY <1>3, <1>4 DEF NoId
  <2>2. amend_id[c] = next_commit_id - 1
    BY <1>3, <1>4, <2>1
  <2> QED
    BY <2>2 DEF SavedInv, AmendIsLive
<1>6. saved_commit_id # commit_id
  BY <1>3, <1>4, <1>5
<1>7. Top(undo_stack).commit_id # saved_commit_id
  BY <1>3, <1>6 DEF SavedInv, SavedMark, LaggingNotSaved
<1>8. Len(undo_stack) \in Nat
  BY <1>1, StackEntries
<1>9. Top(undo_stack)'.commit_id = Top(undo_stack).commit_id
  BY <1>2, <1>8 DEF Top
<1>10. SavedEntryIsSaved'
  <2>1. Len(redo_stack') = 0
    BY <1>3
  <2>2. ASSUME NEW i \in 1 .. Len(undo_stack),
               undo_stack'[i].commit_id = saved_commit_id
        PROVE  undo_stack'[i].events = saved
    <3>1. i < Len(undo_stack)
      BY <1>2, <1>7, <1>8, <2>2 DEF Top
    <3>2. undo_stack'[i] = undo_stack[i]
      BY <1>2, <3>1
    <3> QED
      BY <2>2, <3>2 DEF SavedInv, SavedMark, SavedEntryIsSaved
  <2> QED
    BY <1>2, <2>1, <2>2 DEF SavedEntryIsSaved
<1>11. UnmodifiedIsSaved'
  BY <1>3, <1>4 DEF UnmodifiedIsSaved, IsModified
<1>12. LaggingNotSaved'
  BY <1>7, <1>9 DEF LaggingNotSaved
<1> QED
  BY <1>10, <1>11, <1>12 DEF SavedMark

\* A commit keeps the saved mark sound.
LEMMA CommitSaved ==
    ASSUME SavedInv, IInv', NEW c \in Client, NEW doc \in Document, NEW d,
           NEW changed,
           d => /\ DOMAIN doc = DOMAIN file
                /\ changed # {} =>
                     \A l \in DOMAIN doc : doc[l] = file[l] \/ l \in changed,
           Commit(c, doc, d, changed)
    PROVE  SavedInv'
<1>1. PICK id \in {NoId, amend_id[c]} : Record(doc, id, d, changed)
  BY DEF Commit
<1>2. UNCHANGED <<saved_commit_id, saved>>
  BY DEF Commit
<1>3. IInv /\ undo_stack \in Seq(Entry) /\ Len(undo_stack) \in Nat
  BY StackEntries DEF SavedInv, IInv, TypeOK
<1>4. SavedMark'
  <2>1. CASE RecordInPlace(doc, id, d, changed)
    <3>1. d /\ changed # {}
      BY <2>1 DEF RecordInPlace, CanAmendSnapshot
    <3> QED
      BY <1>2, <2>1, <3>1, RecordInPlaceSaved
  <2>2. CASE Merges(id) /\ RecordEntry(Pop(undo_stack), doc)
    <3>1. undo_stack # <<>>
      BY <2>2 DEF Merges
    <3>2. /\ Pop(undo_stack) \in Seq(Entry)
          /\ Len(Pop(undo_stack)) = Len(undo_stack) - 1
          /\ \A i \in 1 .. Len(undo_stack) - 1 :
                Pop(undo_stack)[i] = undo_stack[i]
      BY <1>3, <3>1, PopSeq
    <3> QED
      BY <1>2, <1>3, <2>2, <3>2, RecordEntrySaved
  <2>3. CASE RecordEntry(undo_stack, doc)
    BY <1>2, <1>3, <2>3, RecordEntrySaved
  <2> QED
    BY <1>1, <2>1, <2>2, <2>3 DEF Record
<1>5. AmendIsLive'
  <2>1. /\ commit_id' = next_commit_id
        /\ next_commit_id' = next_commit_id + 1
        /\ next_commit_id \in Nat
    BY <1>1, <1>3 DEF Record, RecordInPlace, RecordEntry, IInv, TypeOK
  <2> QED
    BY <2>1 DEF AmendIsLive
<1> QED
  BY <1>4, <1>5 DEF SavedInv

\* Undo and Redo move an entry from one stack to the other; the live revision
\* becomes the newest entry's, and no client can amend it any more.
LEMMA RestoreSaved ==
    ASSUME KeepsId = {}, SavedInv, IInv', Undo \/ Redo
    PROVE  SavedInv'
<1>1. IInv /\ Len(undo_stack) \in Nat /\ Len(redo_stack) \in Nat
  BY StackEntries DEF SavedInv
<1>2. /\ undo_stack \in Seq(Entry) /\ redo_stack \in Seq(Entry)
      /\ next_commit_id \in Nat \ {0}
  BY <1>1 DEF IInv, TypeOK
<1>3. UNCHANGED <<saved_commit_id, next_commit_id, saved>>
  BY DEF Undo, Redo
<1>4. AmendIsLive'
  <2>1. \A c \in Client : amend_id'[c] = NoId
    BY DEF Undo, Redo, DropIds
  <2> QED
    BY <1>2, <1>3, <2>1 DEF AmendIsLive, NoId
<1>5. LaggingNotSaved'
  BY DEF LaggingNotSaved, Undo, Redo
<1>6. SavedEntryIsSaved'
  <2>1. CASE Undo
    <3>1. undo_stack # <<>> /\ Len(undo_stack) > 1
      BY <2>1, <1>2, EmptySeq DEF Undo, CanUndo
    <3>2. /\ Len(undo_stack') = Len(undo_stack) - 1
          /\ \A i \in 1 .. Len(undo_stack) - 1 : undo_stack'[i] = undo_stack[i]
      BY <1>2, <2>1, <3>1, PopSeq DEF Undo
    <3>3. undo_stack[Len(undo_stack)] \in Entry
      BY <1>1, <3>1, StackEntries
    <3>4. redo_stack' = Append(redo_stack, undo_stack[Len(undo_stack)])
      BY <2>1 DEF Undo, Top
    <3>5. /\ Len(redo_stack') = Len(redo_stack) + 1
          /\ \A i \in 1 .. Len(redo_stack) : redo_stack'[i] = redo_stack[i]
          /\ redo_stack'[Len(redo_stack) + 1] = undo_stack[Len(undo_stack)]
      BY <1>2, <3>3, <3>4, AppendProperties
    <3>6. \A i \in 1 .. Len(undo_stack') :
             undo_stack'[i].commit_id = saved_commit_id' =>
                undo_stack'[i].events = saved'
      BY <1>1, <1>3, <3>2 DEF SavedInv, SavedMark, SavedEntryIsSaved
    <3>7. \A i \in 1 .. Len(redo_stack') :
             redo_stack'[i].commit_id = saved_commit_id' =>
                redo_stack'[i].events = saved'
      BY <1>1, <1>3, <3>1, <3>5 DEF SavedInv, SavedMark, SavedEntryIsSaved
    <3> QED
      BY <3>6, <3>7 DEF SavedEntryIsSaved
  <2>2. CASE Redo
    <3>1. redo_stack # <<>> /\ Len(redo_stack) > 0
      BY <2>2, <1>2, EmptySeq DEF Redo, CanRedo
    <3>2. /\ Len(redo_stack') = Len(redo_stack) - 1
          /\ \A i \in 1 .. Len(redo_stack) - 1 : redo_stack'[i] = redo_stack[i]
      BY <1>2, <2>2, <3>1, PopSeq DEF Redo
    <3>3. redo_stack[Len(redo_stack)] \in Entry
      BY <1>1, <3>1, StackEntries
    <3>4. undo_stack' = Append(undo_stack, redo_stack[Len(redo_stack)])
      BY <2>2 DEF Redo, Top
    <3>5. /\ Len(undo_stack') = Len(undo_stack) + 1
          /\ \A i \in 1 .. Len(undo_stack) : undo_stack'[i] = undo_stack[i]
          /\ undo_stack'[Len(undo_stack) + 1] = redo_stack[Len(redo_stack)]
      BY <1>2, <3>3, <3>4, AppendProperties
    <3>6. \A i \in 1 .. Len(redo_stack') :
             redo_stack'[i].commit_id = saved_commit_id' =>
                redo_stack'[i].events = saved'
      BY <1>1, <1>3, <3>2 DEF SavedInv, SavedMark, SavedEntryIsSaved
    <3>7. \A i \in 1 .. Len(undo_stack') :
             undo_stack'[i].commit_id = saved_commit_id' =>
                undo_stack'[i].events = saved'
      BY <1>1, <1>3, <3>1, <3>5 DEF SavedInv, SavedMark, SavedEntryIsSaved
    <3> QED
      BY <3>6, <3>7 DEF SavedEntryIsSaved
  <2> QED
    BY <2>1, <2>2
<1>7. UnmodifiedIsSaved'
  <2>1. ASSUME undo_stack' # <<>>, commit_id' = saved_commit_id'
        PROVE  file' = saved'
    <3>1. /\ commit_id' = Top(undo_stack)'.commit_id
          /\ file' = Top(undo_stack)'.events
      BY DEF Undo, Redo
    <3>2. Len(undo_stack') \in 1 .. Len(undo_stack')
      <4>1. undo_stack' \in Seq(Entry)
        BY DEF IInv, TypeOK
      <4> QED
        BY <2>1, <4>1, EmptySeq
    <3> QED
      BY <1>6, <2>1, <3>1, <3>2 DEF SavedEntryIsSaved, Top
  <2> QED
    BY <2>1 DEF UnmodifiedIsSaved, IsModified
<1> QED
  BY <1>4, <1>5, <1>6, <1>7 DEF SavedInv, SavedMark

\* A load marks its document as saved.
LEMMA LoadSaved ==
    ASSUME KeepsId = {}, SavedInv, IInv', NEW doc \in Document, Load(doc)
    PROVE  SavedInv'
<1>1. next_commit_id \in Nat \ {0}
  BY DEF SavedInv, IInv, TypeOK
<1>2. /\ undo_stack' = <<[commit_id |-> next_commit_id, events |-> file']>>
      /\ redo_stack' = <<>>
      /\ commit_id' = next_commit_id
      /\ next_commit_id' = next_commit_id + 1
      /\ saved' = file'
  BY DEF Load
<1>3. Len(undo_stack') = 1 /\ Len(redo_stack') = 0
  BY <1>2
<1>4. \A c \in Client : amend_id'[c] = NoId
  BY DEF Load, DropIds
<1>5. AmendIsLive'
  BY <1>1, <1>2, <1>4 DEF AmendIsLive, NoId
<1>6. SavedMark'
  BY <1>2, <1>3 DEF SavedMark, SavedEntryIsSaved, UnmodifiedIsSaved,
                    IsModified, LaggingNotSaved, Top
<1> QED
  BY <1>5, <1>6 DEF SavedInv

\* Saving marks the live revision, which only the newest entry can carry.
LEMMA SaveSaved ==
    ASSUME SavedInv, IInv', Save
    PROVE  SavedInv'
<1>1. IInv /\ TypeOK /\ Len(undo_stack) \in Nat /\ Len(redo_stack) \in Nat
  BY StackEntries DEF SavedInv, IInv
<1>2. /\ saved_commit_id' = commit_id
      /\ saved' = file
      /\ UNCHANGED <<file, undo_stack, redo_stack, commit_id, next_commit_id,
                     amend_id>>
      /\ undo_stack # <<>>
  BY DEF Save, history
<1>3. Len(undo_stack) \in 1 .. Len(undo_stack)
  BY <1>1, <1>2, EmptySeq DEF TypeOK
<1>4. /\ Top(undo_stack).commit_id <= commit_id
      /\ Top(undo_stack).events = file
      /\ redo_stack # <<>> => Top(undo_stack).commit_id = commit_id
  BY <1>1, <1>2 DEF IInv, LiveRevision, TopIsDocument
<1>5. ASSUME NEW i \in 1 .. Len(undo_stack), undo_stack[i].commit_id = commit_id
      PROVE  undo_stack[i].events = file
  <2>1. CASE i = Len(undo_stack)
    BY <1>4, <2>1 DEF Top
  <2>2. CASE i # Len(undo_stack)
    <3>1. undo_stack[i].commit_id < Top(undo_stack).commit_id
      BY <1>1, <1>3, <2>2 DEF IInv, RevisionsOrdered, Top
    <3>2. Top(undo_stack).commit_id \in Nat /\ commit_id \in Nat
      BY <1>1, <1>3, StackEntries DEF TypeOK, Top
    <3> QED
      BY <1>4, <1>5, <3>1, <3>2
  <2> QED
    BY <2>1, <2>2
<1>6. ASSUME NEW i \in 1 .. Len(redo_stack), redo_stack[i].commit_id = commit_id
      PROVE  FALSE
  <2>1. redo_stack # <<>>
    BY <1>1, EmptySeq DEF TypeOK
  <2>2. Top(undo_stack).commit_id < redo_stack[i].commit_id
    BY <1>1, <1>3 DEF IInv, RevisionsOrdered, Top
  <2>3. Top(undo_stack).commit_id = commit_id /\ commit_id \in Nat
    BY <1>1, <1>4, <2>1 DEF TypeOK
  <2> QED
    BY <1>6, <2>2, <2>3
<1>7. SavedEntryIsSaved'
  BY <1>2, <1>5, <1>6 DEF SavedEntryIsSaved
<1>8. UnmodifiedIsSaved' /\ LaggingNotSaved' /\ AmendIsLive'
  BY <1>2 DEF UnmodifiedIsSaved, LaggingNotSaved, SavedInv, AmendIsLive, Top
<1> QED
  BY <1>7, <1>8 DEF SavedInv, SavedMark

\* A deleted file leaves no entry marked as saved.
LEMMA FileDeletedSaved ==
    ASSUME SavedInv, IInv', FileDeleted
    PROVE  SavedInv'
<1>1. IInv /\ TypeOK /\ Len(undo_stack) \in Nat
  BY StackEntries DEF SavedInv, IInv
<1>2. /\ saved_commit_id' = -1
      /\ UNCHANGED <<file, undo_stack, redo_stack, commit_id, next_commit_id,
                     amend_id, saved>>
      /\ undo_stack # <<>>
  BY DEF FileDeleted, history
<1>3. SavedEntryIsSaved'
  <2>1. \A i \in 1 .. Len(undo_stack) : undo_stack[i].commit_id # -1
    BY <1>1, StackEntries
  <2>2. \A i \in 1 .. Len(redo_stack) : redo_stack[i].commit_id # -1
    BY <1>1, StackEntries
  <2> QED
    BY <1>2, <2>1, <2>2 DEF SavedEntryIsSaved
<1>4. UnmodifiedIsSaved'
  BY <1>1, <1>2 DEF UnmodifiedIsSaved, IsModified, TypeOK
<1>5. LaggingNotSaved'
  <2>1. Len(undo_stack) \in 1 .. Len(undo_stack)
    BY <1>1, <1>2, EmptySeq DEF TypeOK
  <2>2. Top(undo_stack).commit_id # -1
    BY <1>1, <2>1, StackEntries DEF Top
  <2> QED
    BY <1>2, <2>2 DEF LaggingNotSaved, Top
<1>6. AmendIsLive'
  BY <1>2 DEF SavedInv, AmendIsLive
<1> QED
  BY <1>3, <1>4, <1>5, <1>6 DEF SavedInv, SavedMark

\* At the start nothing is recorded, so nothing is marked wrongly.
LEMMA SavedInit == Init => SavedInv
<1> SUFFICES ASSUME Init PROVE SavedInv
  OBVIOUS
<1>1. Len(undo_stack) = 0 /\ Len(redo_stack) = 0
  BY DEF Init
<1>2. AmendIsLive
  BY DEF Init, AmendIsLive, NoId
<1> QED
  BY <1>1, <1>2, InitInvariant
     DEF Init, SavedInv, SavedMark, SavedEntryIsSaved, UnmodifiedIsSaved,
         LaggingNotSaved

\* Every step keeps the saved mark sound when every client drops its id.
LEMMA SavedStep ==
    ASSUME KeepsId = {}, SavedInv, [Next]_vars
    PROVE  SavedInv'
<1>1. IInv'
  BY StepInvariant DEF SavedInv
<1>2. ASSUME NEW c \in Client, NEW changed \in SUBSET Line,
             NEW exact \in BOOLEAN, NEW t \in Text,
             EditLines(c, changed, exact, t)
      PROVE  SavedInv'
  <2> DEFINE doc == [l \in DOMAIN file |-> IF l \in changed THEN t ELSE file[l]]
             named == IF exact THEN changed ELSE {}
  <2>1. doc \in Document
    BY DEF SavedInv, IInv, TypeOK, Document
  <2>2. /\ DOMAIN doc = DOMAIN file
        /\ named # {} =>
             \A l \in DOMAIN doc : doc[l] = file[l] \/ l \in named
    OBVIOUS
  <2>3. Commit(c, doc, TRUE, named)
    BY <1>2 DEF EditLines
  <2> HIDE DEF doc, named
  <2> QED
    BY <1>1, <2>1, <2>2, <2>3, CommitSaved
<1>3. ASSUME NEW c \in Client, NEW doc \in Document, EditDocument(c, doc)
      PROVE  SavedInv'
  BY <1>1, <1>3, CommitSaved DEF EditDocument
<1>4. ASSUME NEW c \in Client, ResetCommitId(c)
      PROVE  SavedInv'
  <2>1. \A b \in Client : amend_id'[b] \in {NoId, amend_id[b]}
    BY <1>4 DEF ResetCommitId, SavedInv, IInv, TypeOK
  <2>2. UNCHANGED <<file, undo_stack, redo_stack, commit_id, next_commit_id,
                    saved_commit_id, saved>>
    BY <1>4 DEF ResetCommitId, history
  <2>3. next_commit_id \in Nat \ {0}
    BY DEF SavedInv, IInv, TypeOK
  <2>4. AmendIsLive'
    BY <2>1, <2>2, <2>3 DEF SavedInv, AmendIsLive, NoId
  <2>5. SavedMark'
    BY <2>2 DEF SavedInv, SavedMark, SavedEntryIsSaved, UnmodifiedIsSaved,
                IsModified, LaggingNotSaved, Top
  <2> QED
    BY <1>1, <2>4, <2>5 DEF SavedInv
<1>5. ASSUME NEW doc \in Document, Load(doc)
      PROVE  SavedInv'
  BY <1>1, <1>5, LoadSaved
<1>6. CASE UNCHANGED vars
  BY <1>1, <1>6 DEF vars, SavedInv, AmendIsLive, SavedMark, SavedEntryIsSaved,
                    UnmodifiedIsSaved, IsModified, LaggingNotSaved, Top
<1> QED
  BY <1>1, <1>2, <1>3, <1>4, <1>5, <1>6, RestoreSaved, SaveSaved,
     FileDeletedSaved DEF Next

\* When every client drops its id on Undo and Redo, a document reported as
\* unmodified is the one last loaded or saved.
THEOREM UnmodifiedSound == (KeepsId = {}) => (Spec => []UnmodifiedIsSaved)
<1> SUFFICES ASSUME KeepsId = {} PROVE Spec => []UnmodifiedIsSaved
  OBVIOUS
<1>1. Init => SavedInv
  BY SavedInit
<1>2. SavedInv /\ [Next]_vars => SavedInv'
  BY SavedStep
<1>3. SavedInv => UnmodifiedIsSaved
  BY DEF SavedInv, SavedMark
<1> QED
  BY <1>1, <1>2, <1>3, PTL DEF Spec

\* Under the same condition, an entry with the saved revision holds what was
\* saved, so undoing to it is undoing to the saved document.
THEOREM SavedEntrySound == (KeepsId = {}) => (Spec => []SavedEntryIsSaved)
<1> SUFFICES ASSUME KeepsId = {} PROVE Spec => []SavedEntryIsSaved
  OBVIOUS
<1>1. Init => SavedInv
  BY SavedInit
<1>2. SavedInv /\ [Next]_vars => SavedInv'
  BY SavedStep
<1>3. SavedInv => SavedEntryIsSaved
  BY DEF SavedInv, SavedMark
<1> QED
  BY <1>1, <1>2, <1>3, PTL DEF Spec
-----------------------------------------------------------------------------
(***************************************************************************)
(* A snapshot of an empty document is given a line when AddDefault asks    *)
(* for it, so no version a stack holds is empty then; and a document once  *)
(* recorded stays recorded.                                                *)
(***************************************************************************)
Filled(doc) == AddDefault => DOMAIN doc # {}
FilledStack(stack) == \A i \in 1 .. Len(stack) : Filled(stack[i].events)
AllFilled == FilledStack(undo_stack) /\ FilledStack(redo_stack)

\* Normalising fills an empty document.
LEMMA NormalisedFilled ==
    ASSUME NEW doc \in Document, NEW d \in Normalised(doc)
    PROVE  Filled(d) /\ (Filled(doc) => d = doc)
<1>1. CASE DOMAIN doc = {} /\ AddDefault
  <2>1. PICK l \in Line : d \in [{l} -> Text]
    BY <1>1 DEF Normalised
  <2> QED
    BY <1>1, <2>1 DEF Filled
<1>2. CASE ~(DOMAIN doc = {} /\ AddDefault)
  BY <1>2 DEF Normalised, Filled
<1> QED
  BY <1>1, <1>2

\* The live document is a version of the stack, so it is filled too.
LEMMA FileFilled ==
    ASSUME IInv, AllFilled, undo_stack # <<>>
    PROVE  Filled(file) /\ Len(undo_stack) \in Nat \ {0}
<1>1. Len(undo_stack) \in Nat \ {0}
  BY EmptySeq DEF IInv, TypeOK
<1>2. Filled(undo_stack[Len(undo_stack)].events)
  BY <1>1 DEF AllFilled, FilledStack
<1> QED
  BY <1>1, <1>2 DEF IInv, TopIsDocument, Top

\* A new entry is filled, and those below it were.
LEMMA RecordEntryFilled ==
    ASSUME IInv, NEW base \in Seq(Entry), FilledStack(base), NEW doc \in Document,
           RecordEntry(base, doc)
    PROVE  undo_stack' # <<>> /\ AllFilled'
<1>1. PICK k \in 0 .. Len(base) :
        /\ Len(undo_stack') = Len(base) + 1 - k
        /\ \A i \in 1 .. Len(base) - k : undo_stack'[i] = base[i + k]
  BY RecordEntryShape DEF IInv
<1>2. /\ undo_stack' # <<>>
      /\ Top(undo_stack)' = [commit_id |-> next_commit_id, events |-> file']
  BY RecordEntryShape DEF IInv
<1>3. Filled(file')
  BY NormalisedFilled DEF RecordEntry
<1>4. Len(base) \in Nat
  BY LenProperties
<1>5. ASSUME NEW i \in 1 .. Len(undo_stack')
      PROVE  Filled(undo_stack'[i].events)
  <2>1. CASE i = Len(undo_stack')
    BY <1>2, <1>3, <2>1 DEF Top
  <2>2. CASE i # Len(undo_stack')
    <3>1. i \in 1 .. Len(base) - k /\ i + k \in 1 .. Len(base)
      BY <1>1, <1>4, <2>2
    <3> QED
      BY <1>1, <3>1 DEF FilledStack
  <2> QED
    BY <2>1, <2>2
<1>6. redo_stack' = <<>> /\ Len(<<>>) = 0
  BY DEF RecordEntry
<1> QED
  BY <1>2, <1>5, <1>6 DEF AllFilled, FilledStack

\* A commit leaves only filled versions: one merged in place has the rows of
\* the live document.
LEMMA CommitFilled ==
    ASSUME IInv, AllFilled, NEW c \in Client, NEW doc \in Document,
           NEW dialogueOnly \in BOOLEAN, NEW changed,
           dialogueOnly => DOMAIN doc = DOMAIN file,
           dialogueOnly /\ changed # {} => \A l \in DOMAIN doc : doc[l] = file[l] \/ l \in changed,
           Commit(c, doc, dialogueOnly, changed)
    PROVE  undo_stack' # <<>> /\ AllFilled'
<1>1. undo_stack # <<>>
  BY DEF Commit
<1>2. PICK id \in {NoId, amend_id[c]} : Record(doc, id, dialogueOnly, changed)
  BY DEF Commit
<1>3. CASE RecordInPlace(doc, id, dialogueOnly, changed)
  <2>1. /\ DOMAIN doc = DOMAIN file
        /\ \A l \in DOMAIN doc : doc[l] = file[l] \/ l \in changed
    BY <1>3 DEF RecordInPlace, CanAmendSnapshot
  <2>2. /\ undo_stack' \in Seq(Entry)
        /\ Len(undo_stack') = Len(undo_stack)
        /\ Len(undo_stack) >= 1
        /\ \A i \in 1 .. Len(undo_stack) : i < Len(undo_stack) => undo_stack'[i] = undo_stack[i]
        /\ Top(undo_stack)'.events = doc
    BY <1>3, <2>1, RecordInPlaceShape
  <2>3. Filled(doc)
    BY <1>1, <2>1, FileFilled DEF Filled
  <2>4. undo_stack' # <<>>
    BY <2>2, EmptySeq
  <2>5. ASSUME NEW i \in 1 .. Len(undo_stack')
        PROVE  Filled(undo_stack'[i].events)
    <3>1. CASE i = Len(undo_stack')
      BY <2>2, <2>3, <3>1 DEF Top
    <3>2. CASE i # Len(undo_stack')
      <4>1. i \in 1 .. Len(undo_stack) /\ i < Len(undo_stack)
        BY <1>1, <2>2, <3>2, FileFilled
      <4> QED
        BY <2>2, <4>1 DEF AllFilled, FilledStack
    <3> QED
      BY <3>1, <3>2
  <2>6. redo_stack' = redo_stack
    BY <1>3 DEF RecordInPlace
  <2> QED
    BY <2>4, <2>5, <2>6 DEF AllFilled, FilledStack
<1>4. CASE RecordEntry(Pop(undo_stack), doc)
  <2>1. /\ Pop(undo_stack) \in Seq(Entry)
        /\ Len(Pop(undo_stack)) = Len(undo_stack) - 1
        /\ \A i \in 1 .. Len(undo_stack) - 1 : Pop(undo_stack)[i] = undo_stack[i]
    BY <1>1, PopSeq DEF IInv, TypeOK
  <2>2. FilledStack(Pop(undo_stack))
    BY <1>1, <2>1, FileFilled DEF AllFilled, FilledStack
  <2> QED
    BY <1>4, <2>1, <2>2, RecordEntryFilled
<1>5. CASE RecordEntry(undo_stack, doc)
  BY <1>5, RecordEntryFilled DEF IInv, TypeOK, AllFilled
<1> QED
  BY <1>2, <1>3, <1>4, <1>5 DEF Record

\* Undo and Redo move a filled version from one stack to the other.
LEMMA MoveFilled ==
    ASSUME NEW from \in Seq(Entry), NEW to \in Seq(Entry), from # <<>>,
           FilledStack(from), FilledStack(to)
    PROVE  /\ FilledStack(Pop(from)) /\ FilledStack(Append(to, Top(from)))
           /\ Append(to, Top(from)) # <<>> /\ (Len(from) > 1 => Pop(from) # <<>>)
<1>1. Len(from) \in Nat \ {0} /\ Len(to) \in Nat
  BY EmptySeq, LenProperties
<1>2. /\ Pop(from) \in Seq(Entry) /\ Len(Pop(from)) = Len(from) - 1
      /\ \A i \in 1 .. Len(from) - 1 : Pop(from)[i] = from[i]
  BY PopSeq
<1>3. FilledStack(Pop(from))
  BY <1>1, <1>2 DEF FilledStack
<1>4. Top(from) \in Entry /\ Filled(Top(from).events)
  BY <1>1, ElementOfSeq DEF Top, FilledStack
<1>5. /\ Append(to, Top(from)) \in Seq(Entry)
      /\ Append(to, Top(from)) # <<>>
      /\ Len(Append(to, Top(from))) = Len(to) + 1
      /\ \A i \in 1 .. Len(to) : Append(to, Top(from))[i] = to[i]
      /\ Append(to, Top(from))[Len(to) + 1] = Top(from)
  BY <1>4, AppendProperties
<1>6. FilledStack(Append(to, Top(from)))
  <2> SUFFICES ASSUME NEW i \in 1 .. Len(to) + 1
               PROVE  Filled(Append(to, Top(from))[i].events)
    BY <1>5 DEF FilledStack
  <2>1. CASE i = Len(to) + 1
    BY <1>4, <1>5, <2>1
  <2>2. CASE i # Len(to) + 1
    BY <1>1, <1>5, <2>2 DEF FilledStack
  <2> QED
    BY <2>1, <2>2
<1>7. Len(from) > 1 => Pop(from) # <<>>
  BY <1>1, <1>2, EmptySeq
<1> QED
  BY <1>3, <1>5, <1>6, <1>7

\* Loading leaves one version, filled.
LEMMA LoadFilled ==
    ASSUME NEW doc \in Document, Load(doc)
    PROVE  undo_stack' # <<>> /\ AllFilled' /\ Filled(file') /\ (Filled(doc) => file' = doc)
<1>1. Filled(file') /\ (Filled(doc) => file' = doc)
  BY NormalisedFilled DEF Load
<1>2. undo_stack' = <<[commit_id |-> next_commit_id, events |-> file']>> /\ redo_stack' = <<>>
  BY DEF Load
<1>3. undo_stack' # <<>> /\ Len(undo_stack') = 1 /\ undo_stack'[1].events = file'
  BY <1>2
<1>4. Len(redo_stack') = 0
  BY <1>2
<1> QED
  BY <1>1, <1>3, <1>4 DEF AllFilled, FilledStack

\* No step of the history empties a version or forgets that there is one.
LEMMA FilledStep ==
    ASSUME IInv, AllFilled, [Next]_vars
    PROVE  AllFilled' /\ (undo_stack # <<>> => undo_stack' # <<>>)
<1>1. ASSUME NEW c \in Client, NEW changed \in SUBSET Line, NEW exact \in BOOLEAN,
             NEW t \in Text, EditLines(c, changed, exact, t)
      PROVE  undo_stack' # <<>> /\ AllFilled'
  <2> DEFINE doc == [l \in DOMAIN file |-> IF l \in changed THEN t ELSE file[l]]
             named == IF exact THEN changed ELSE {}
  <2>1. doc \in Document
    BY DEF IInv, TypeOK, Document
  <2>2. /\ DOMAIN doc = DOMAIN file
        /\ named # {} => \A l \in DOMAIN doc : doc[l] = file[l] \/ l \in named
    OBVIOUS
  <2>3. Commit(c, doc, TRUE, named)
    BY <1>1 DEF EditLines
  <2> HIDE DEF doc, named
  <2> QED
    BY <2>1, <2>2, <2>3, CommitFilled
<1>2. ASSUME NEW c \in Client, NEW doc \in Document, EditDocument(c, doc)
      PROVE  undo_stack' # <<>> /\ AllFilled'
  <2>1. Commit(c, doc, FALSE, {})
    BY <1>2 DEF EditDocument
  <2> QED
    BY <2>1, CommitFilled
<1>3. ASSUME NEW doc \in Document, Load(doc)
      PROVE  undo_stack' # <<>> /\ AllFilled'
  BY <1>3, LoadFilled
<1>4. undo_stack \in Seq(Entry) /\ redo_stack \in Seq(Entry) /\ Len(<<>>) = 0
  BY DEF IInv, TypeOK
<1>5. CASE Undo
  BY <1>4, <1>5, MoveFilled DEF Undo, CanUndo, AllFilled
<1>6. CASE Redo
  BY <1>4, <1>6, MoveFilled DEF Redo, CanRedo, AllFilled
<1>7. CASE UNCHANGED <<undo_stack, redo_stack>>
  BY <1>7 DEF AllFilled, FilledStack
<1>8. ASSUME (\E c \in Client : ResetCommitId(c)) \/ Save \/ FileDeleted \/ UNCHANGED vars
      PROVE  UNCHANGED <<undo_stack, redo_stack>>
  BY <1>8 DEF ResetCommitId, Save, FileDeleted, vars, history
<1> QED
  BY <1>1, <1>2, <1>3, <1>5, <1>6, <1>7, <1>8 DEF Next
-----------------------------------------------------------------------------
(***************************************************************************)
(* The history as a line of versions (UndoTimeline).                       *)
(***************************************************************************)
\* The undo limit holds for both stacks together, so a commit that replaces
\* the newest entry never drops the oldest one.
Limit == MaxOf(UndoLevels, 2)
Bounded == Len(undo_stack) + Len(redo_stack) <= Limit

\* The limit, and the lengths of the stacks.
LEMMA Lengths ==
    ASSUME IInv
    PROVE  /\ Limit \in Nat /\ Limit >= 2
           /\ Len(undo_stack) \in Nat /\ Len(redo_stack) \in Nat
           /\ undo_stack # <<>> => Len(undo_stack) >= 1
<1>1. Limit \in Nat /\ Limit >= 2
  BY DEF Limit, MaxOf
<1>2. Len(undo_stack) \in Nat /\ Len(redo_stack) \in Nat
  BY StackEntries
<1>3. undo_stack # <<>> => Len(undo_stack) # 0
  BY EmptySeq DEF IInv, TypeOK
<1> QED
  BY <1>1, <1>2, <1>3

\* What VersionsOf returns, position by position.
LEMMA VersionsSeq ==
    ASSUME NEW done \in Seq(Entry), NEW undone \in Seq(Entry)
    PROVE  /\ VersionsOf(done, undone) \in Seq(Document)
           /\ Len(VersionsOf(done, undone)) = Len(done) + Len(undone)
           /\ \A i \in 1 .. Len(done) : VersionsOf(done, undone)[i] = done[i].events
           /\ \A i \in 1 .. Len(undone) :
                VersionsOf(done, undone)[Len(done) + Len(undone) + 1 - i] = undone[i].events
<1> DEFINE n == Len(done) + Len(undone)
           Version(i) == IF i <= Len(done) THEN done[i].events ELSE undone[n + 1 - i].events
           versions == [i \in 1 .. n |-> Version(i)]
<1>1. Len(done) \in Nat /\ Len(undone) \in Nat /\ n \in Nat
  BY LenProperties
<1>2. \A i \in 1 .. n : Version(i) \in Document
  <2> SUFFICES ASSUME NEW i \in 1 .. n PROVE Version(i) \in Document
    OBVIOUS
  <2>1. CASE i <= Len(done)
    <3>1. done[i] \in Entry
      BY <1>1, <2>1, ElementOfSeq
    <3> QED
      BY <2>1, <3>1 DEF Entry
  <2>2. CASE ~(i <= Len(done))
    <3>1. n + 1 - i \in 1 .. Len(undone)
      BY <1>1, <2>2
    <3>2. undone[n + 1 - i] \in Entry
      BY <3>1, ElementOfSeq
    <3> QED
      BY <2>2, <3>2 DEF Entry
  <2> QED
    BY <2>1, <2>2
<1>3. versions = VersionsOf(done, undone)
  BY DEF VersionsOf
<1>4. versions \in [1 .. n -> Document]
  BY <1>2
<1>5. versions \in Seq(Document) /\ Len(versions) = n
  <2> HIDE DEF versions
  <2> QED
    BY <1>1, <1>4
<1>6. \A i \in 1 .. Len(done) : versions[i] = done[i].events
  BY <1>1
<1>7. \A i \in 1 .. Len(undone) : versions[n + 1 - i] = undone[i].events
  <2> SUFFICES ASSUME NEW i \in 1 .. Len(undone)
               PROVE  versions[n + 1 - i] = undone[i].events
    OBVIOUS
  <2>1. /\ n + 1 - i \in 1 .. n
        /\ ~(n + 1 - i <= Len(done))
        /\ n + 1 - (n + 1 - i) = i
    BY <1>1
  <2> QED
    BY <2>1
<1> HIDE DEF versions
<1> QED
  BY <1>3, <1>5, <1>6, <1>7

\* The newest entry of done is moved to undone: less and more are what that leaves.
Moved(done, undone, less, more) ==
    /\ Len(done) = Len(less) + 1
    /\ Len(more) = Len(undone) + 1
    /\ \A i \in 1 .. Len(less) : less[i] = done[i]
    /\ \A i \in 1 .. Len(undone) : more[i] = undone[i]
    /\ more[Len(more)] = done[Len(done)]

\* Moving the newest entry of one stack to the other leaves the versions as
\* they are.
LEMMA VersionsMove ==
    ASSUME NEW done \in Seq(Entry), NEW undone \in Seq(Entry),
           NEW less \in Seq(Entry), NEW more \in Seq(Entry),
           Moved(done, undone, less, more)
    PROVE  VersionsOf(less, more) = VersionsOf(done, undone)
<1> DEFINE n == Len(done) + Len(undone)
<1> USE DEF Moved
<1>1. /\ Len(done) \in Nat /\ Len(undone) \in Nat /\ n \in Nat
      /\ Len(less) \in Nat /\ Len(more) \in Nat
      /\ Len(less) + Len(more) = n
  BY LenProperties
<1>2. ASSUME NEW i \in 1 .. n
      PROVE  (IF i <= Len(less) THEN less[i].events ELSE more[n + 1 - i].events)
               = (IF i <= Len(done) THEN done[i].events ELSE undone[n + 1 - i].events)
  <2>1. CASE i <= Len(less)
    BY <1>1, <2>1
  <2>2. CASE i = Len(done)
    <3>1. ~(i <= Len(less)) /\ n + 1 - i = Len(more)
      BY <1>1, <2>2
    <3> QED
      BY <1>1, <2>2, <3>1
  <2>3. CASE i > Len(done)
    <3>1. /\ ~(i <= Len(less)) /\ ~(i <= Len(done))
          /\ n + 1 - i \in 1 .. Len(undone)
      BY <1>1, <2>3
    <3> QED
      BY <3>1
  <2> QED
    BY <1>1, <2>1, <2>2, <2>3
<1> QED
  BY <1>1, <1>2 DEF VersionsOf

\* Replacing the document of the newest entry, when nothing is undone, merges
\* the change into the newest version.
LEMMA ReplacedCoalesces ==
    ASSUME IInv, undo_stack # <<>>, redo_stack = <<>>, redo_stack' = <<>>,
           file' \in Document, undo_stack' \in Seq(Entry),
           Len(undo_stack') = Len(undo_stack), Top(undo_stack)'.events = file',
           \A i \in 1 .. Len(undo_stack) - 1 : undo_stack'[i] = undo_stack[i]
    PROVE  Timeline!Coalesce
<1> DEFINE n == Len(undo_stack)
           W == [Versions EXCEPT ![n] = file']
<1>1. /\ undo_stack \in Seq(Entry) /\ n \in Nat /\ n > 0
      /\ redo_stack \in Seq(Entry) /\ redo_stack' \in Seq(Entry)
      /\ Len(redo_stack) = 0 /\ Len(redo_stack') = 0
  BY Lengths, EmptySeq DEF IInv, TypeOK
<1>2. /\ Versions \in Seq(Document) /\ Len(Versions) = n
      /\ \A i \in 1 .. n : Versions[i] = undo_stack[i].events
  <2>1. /\ Versions \in Seq(Document)
        /\ Len(Versions) = Len(undo_stack) + Len(redo_stack)
        /\ \A i \in 1 .. Len(undo_stack) : Versions[i] = undo_stack[i].events
    BY <1>1, VersionsSeq DEF Versions
  <2> QED
    BY <1>1, <2>1
<1>3. /\ Versions' \in Seq(Document) /\ Len(Versions') = n
      /\ \A i \in 1 .. n : Versions'[i] = undo_stack'[i].events
  <2>1. /\ Versions' \in Seq(Document)
        /\ Len(Versions') = Len(undo_stack') + Len(redo_stack')
        /\ \A i \in 1 .. Len(undo_stack') : Versions'[i] = undo_stack'[i].events
    BY <1>1, VersionsSeq DEF Versions
  <2> QED
    BY <1>1, <2>1
<1>4. /\ W \in Seq(Document) /\ Len(W) = n
      /\ \A i \in 1 .. n : W[i] = IF i = n THEN file' ELSE Versions[i]
  <2> HIDE DEF n
  <2>1. n \in 1 .. Len(Versions)
    BY <1>1, <1>2
  <2> QED
    BY <1>2, <2>1, ExceptSeq
<1> HIDE DEF W
<1>5. \A i \in 1 .. n : Versions'[i] = W[i]
  BY <1>1, <1>2, <1>3, <1>4 DEF Top
<1>6. Versions' = W
  BY <1>3, <1>4, <1>5, SeqEqual
<1> QED
  BY <1>1, <1>2, <1>6 DEF Timeline!Coalesce, W

\* Recording a new entry drops what was undone and puts the document after
\* the cursor; trimming forgets the oldest versions only.
LEMMA RecordEntryExtends ==
    ASSUME IInv, undo_stack # <<>>, NEW doc \in Document, RecordEntry(undo_stack, doc)
    PROVE  Timeline!Extend /\ Bounded'
<1> DEFINE n == Len(undo_stack)
<1>1. /\ undo_stack \in Seq(Entry) /\ redo_stack \in Seq(Entry)
      /\ n \in Nat /\ n >= 1 /\ Limit \in Nat /\ Limit >= 2
      /\ Len(redo_stack) \in Nat
  BY Lengths DEF IInv, TypeOK
<1>2. redo_stack' = <<>> /\ redo_stack' \in Seq(Entry) /\ Len(redo_stack') = 0
  BY EmptySeq DEF RecordEntry
<1>3. /\ file' \in Document
      /\ undo_stack' \in Seq(Entry)
      /\ Top(undo_stack)' = [commit_id |-> next_commit_id, events |-> file']
  BY <1>1, RecordEntryShape DEF IInv
<1>4. PICK k \in 0 .. n :
         /\ Len(undo_stack') = n + 1 - k
         /\ \A i \in 1 .. n - k : undo_stack'[i] = undo_stack[i + k]
         /\ k > 0 => Len(undo_stack') = Limit
         /\ k = 0 => n + 1 <= Limit
  BY <1>1, RecordEntryShape DEF IInv, Limit
<1> HIDE DEF n
<1>5. k + 1 \in 1 .. n
  BY <1>1, <1>4
<1>6. /\ Versions \in Seq(Document) /\ n <= Len(Versions)
      /\ \A i \in 1 .. n : Versions[i] = undo_stack[i].events
  BY <1>1, VersionsSeq DEF Versions, n
<1>7. \A i \in 1 .. n : Versions[i] \in Document
  BY <1>1, <1>6, LenProperties, ElementOfSeq
<1> DEFINE kept == SubSeq(Versions, k + 1, n)
<1>8. /\ kept \in Seq(Document) /\ Len(kept) = n - k
      /\ \A i \in 1 .. n - k : kept[i] = Versions[i + k]
  <2>1. k + 1 \in Int /\ n \in Int /\ k + 1 <= n
        /\ \A i \in k + 1 .. n : Versions[i] \in Document
    BY <1>1, <1>5, <1>7
  <2>2. /\ SubSeq(Versions, k + 1, n) \in Seq(Document)
        /\ Len(SubSeq(Versions, k + 1, n)) = n - (k + 1) + 1
        /\ \A i \in 1 .. n - (k + 1) + 1 :
              SubSeq(Versions, k + 1, n)[i] = Versions[(k + 1) + i - 1]
    BY <2>1, SubSeqProperties
  <2> QED
    BY <1>1, <2>2
<1> HIDE DEF kept
<1> DEFINE W == Append(kept, file')
<1>9. /\ W \in Seq(Document) /\ Len(W) = n - k + 1
      /\ \A i \in 1 .. n - k : W[i] = kept[i]
      /\ W[n - k + 1] = file'
  BY <1>3, <1>8, AppendProperties
<1> HIDE DEF W
<1>10. /\ Versions' \in Seq(Document) /\ Len(Versions') = n + 1 - k
       /\ \A i \in 1 .. n + 1 - k : Versions'[i] = undo_stack'[i].events
  <2>1. /\ Versions' \in Seq(Document)
        /\ Len(Versions') = Len(undo_stack') + Len(redo_stack')
        /\ \A i \in 1 .. Len(undo_stack') : Versions'[i] = undo_stack'[i].events
    BY <1>2, <1>3, VersionsSeq DEF Versions
  <2> QED
    BY <1>1, <1>2, <1>4, <2>1
<1>11. ASSUME NEW i \in 1 .. n + 1 - k
       PROVE  Versions'[i] = W[i]
  <2>1. CASE i = n + 1 - k
    <3>1. undo_stack'[i].events = file'
      BY <1>3, <1>4, <2>1 DEF Top
    <3> QED
      BY <1>1, <1>9, <1>10, <2>1, <3>1
  <2>2. CASE i # n + 1 - k
    <3>1. i \in 1 .. n - k /\ i + k \in 1 .. n
      BY <1>1, <2>2
    <3>2. W[i] = undo_stack[i + k].events
      BY <1>6, <1>8, <1>9, <3>1
    <3> QED
      BY <1>4, <1>10, <3>1, <3>2
  <2> QED
    BY <2>1, <2>2
<1>12. Versions' = W
  <2>1. Len(Versions') = Len(W) /\ \A i \in 1 .. Len(Versions') : Versions'[i] = W[i]
    BY <1>1, <1>9, <1>10, <1>11
  <2> QED
    BY <1>9, <1>10, <2>1, SeqEqual
<1>13. /\ Versions' = Append(SubSeq(Versions, k + 1, Len(undo_stack)), file')
       /\ Len(undo_stack') = Len(Versions')
  BY <1>4, <1>10, <1>12 DEF W, kept, n
<1>14. Timeline!Extend
  BY <1>3, <1>5, <1>13 DEF Timeline!Extend, n
<1>15. Bounded'
  BY <1>1, <1>2, <1>4 DEF Bounded, Limit
<1> QED
  BY <1>14, <1>15

\* A change merged into the newest entry by a new snapshot replaces that entry:
\* the stack had room for it.
LEMMA RecordEntryCoalesces ==
    ASSUME IInv, Bounded, undo_stack # <<>>, redo_stack = <<>>, NEW doc \in Document,
           RecordEntry(Pop(undo_stack), doc)
    PROVE  Timeline!Coalesce /\ Bounded'
<1> DEFINE n == Len(undo_stack)
           base == Pop(undo_stack)
<1>1. /\ n \in Nat /\ n >= 1 /\ Len(redo_stack) = 0
      /\ Limit \in Nat /\ n <= Limit
  <2>1. Len(redo_stack) = 0
    OBVIOUS
  <2> QED
    BY <2>1, Lengths DEF Bounded
<1>2. /\ base \in Seq(Entry) /\ Len(base) = n - 1
      /\ \A i \in 1 .. n - 1 : base[i] = undo_stack[i]
  BY PopSeq DEF IInv, TypeOK
<1>3. redo_stack' = <<>> /\ Len(redo_stack') = 0
  BY DEF RecordEntry
<1> HIDE DEF base
<1>4. RecordEntry(base, doc)
  BY DEF base
<1>5. /\ file' \in Document
      /\ undo_stack' \in Seq(Entry)
      /\ Top(undo_stack)' = [commit_id |-> next_commit_id, events |-> file']
  BY <1>2, <1>4, RecordEntryShape DEF IInv
<1>6. PICK k \in 0 .. Len(base) :
         /\ Len(undo_stack') = Len(base) + 1 - k
         /\ \A i \in 1 .. Len(base) - k : undo_stack'[i] = base[i + k]
         /\ k > 0 => Len(undo_stack') = Limit
  BY <1>2, <1>4, RecordEntryShape DEF IInv, Limit
<1>7. k = 0
  BY <1>1, <1>2, <1>6
<1>8. /\ Len(undo_stack') = n
      /\ \A i \in 1 .. n - 1 : undo_stack'[i] = undo_stack[i]
  BY <1>1, <1>2, <1>6, <1>7
<1>9. Top(undo_stack)'.events = file'
  BY <1>5
<1>10. Timeline!Coalesce
  BY <1>3, <1>5, <1>8, <1>9, ReplacedCoalesces
<1>11. Bounded'
  BY <1>1, <1>3, <1>8 DEF Bounded, Limit
<1> QED
  BY <1>10, <1>11

\* What Undo and Redo do to a pair of stacks: the newest entry of one becomes
\* the newest of the other.
LEMMA MoveShape ==
    ASSUME NEW from \in Seq(Entry), NEW to \in Seq(Entry), from # <<>>
    PROVE  /\ Pop(from) \in Seq(Entry) /\ Append(to, Top(from)) \in Seq(Entry)
           /\ Len(from) = Len(Pop(from)) + 1
           /\ Len(Append(to, Top(from))) = Len(to) + 1
           /\ \A i \in 1 .. Len(Pop(from)) : Pop(from)[i] = from[i]
           /\ \A i \in 1 .. Len(to) : Append(to, Top(from))[i] = to[i]
           /\ Append(to, Top(from))[Len(to) + 1] = from[Len(from)]
<1>1. Len(from) \in Nat \ {0} /\ Len(to) \in Nat
  BY EmptySeq, LenProperties
<1>2. /\ Pop(from) \in Seq(Entry) /\ Len(Pop(from)) = Len(from) - 1
      /\ \A i \in 1 .. Len(from) - 1 : Pop(from)[i] = from[i]
  BY PopSeq
<1>3. Top(from) \in Entry /\ Top(from) = from[Len(from)]
  BY <1>1, ElementOfSeq DEF Top
<1> QED
  BY <1>1, <1>2, <1>3, AppendProperties

\* So undoing does not change the versions.
LEMMA VersionsBack ==
    ASSUME NEW done \in Seq(Entry), NEW undone \in Seq(Entry), done # <<>>
    PROVE  VersionsOf(Pop(done), Append(undone, Top(done))) = VersionsOf(done, undone)
<1> DEFINE less == Pop(done)
           more == Append(undone, Top(done))
<1>1. /\ less \in Seq(Entry) /\ more \in Seq(Entry)
      /\ Moved(done, undone, less, more)
  BY MoveShape DEF Moved
<1> HIDE DEF less, more
<1>2. VersionsOf(less, more) = VersionsOf(done, undone)
  BY <1>1, VersionsMove
<1> QED
  BY <1>2 DEF less, more

\* Nor does redoing.
LEMMA VersionsForth ==
    ASSUME NEW done \in Seq(Entry), NEW undone \in Seq(Entry), undone # <<>>
    PROVE  VersionsOf(Append(done, Top(undone)), Pop(undone)) = VersionsOf(done, undone)
<1> DEFINE less == Pop(undone)
           more == Append(done, Top(undone))
<1>1. /\ less \in Seq(Entry) /\ more \in Seq(Entry)
      /\ Moved(more, less, done, undone)
  <2>1. /\ less \in Seq(Entry) /\ more \in Seq(Entry)
        /\ Len(undone) = Len(less) + 1 /\ Len(more) = Len(done) + 1
        /\ \A i \in 1 .. Len(less) : less[i] = undone[i]
        /\ \A i \in 1 .. Len(done) : more[i] = done[i]
        /\ more[Len(done) + 1] = undone[Len(undone)]
    BY MoveShape
  <2> HIDE DEF less, more
  <2> QED
    BY <2>1 DEF Moved
<1> HIDE DEF less, more
<1>2. VersionsOf(done, undone) = VersionsOf(more, less)
  BY <1>1, VersionsMove
<1> QED
  BY <1>2 DEF less, more

\* Undo moves the cursor back by one, onto the version that becomes live.
LEMMA UndoMoves ==
    ASSUME IInv, IInv', Bounded, Undo
    PROVE  Timeline!Undo /\ Bounded'
<1>1. /\ undo_stack \in Seq(Entry) /\ redo_stack \in Seq(Entry)
      /\ undo_stack' \in Seq(Entry) /\ redo_stack' \in Seq(Entry)
  BY DEF IInv, TypeOK
<1>2. /\ Len(undo_stack) \in Nat /\ Len(undo_stack) > 1 /\ Len(redo_stack) \in Nat
      /\ undo_stack # <<>>
      /\ undo_stack' = Pop(undo_stack)
      /\ redo_stack' = Append(redo_stack, Top(undo_stack))
      /\ file' = Top(undo_stack').events
  BY Lengths, EmptySeq DEF Undo, CanUndo
<1>3. /\ Len(undo_stack) = Len(undo_stack') + 1
      /\ Len(redo_stack') = Len(redo_stack) + 1
      /\ \A i \in 1 .. Len(undo_stack') : undo_stack'[i] = undo_stack[i]
      /\ \A i \in 1 .. Len(redo_stack) : redo_stack'[i] = redo_stack[i]
      /\ redo_stack'[Len(redo_stack')] = undo_stack[Len(undo_stack)]
  BY <1>1, <1>2, MoveShape
<1>4. Versions' = Versions
  <2>1. VersionsOf(undo_stack', redo_stack') = VersionsOf(undo_stack, redo_stack)
    BY <1>1, <1>2, VersionsBack
  <2> QED
    BY <2>1 DEF Versions
<1>5. Len(undo_stack') = Len(undo_stack) - 1 /\ Len(undo_stack') \in 1 .. Len(undo_stack)
  <2>1. Len(undo_stack') \in Nat
    BY <1>1, LenProperties
  <2> QED
    BY <1>2, <1>3, <2>1
<1>6. file' = Versions[Len(undo_stack) - 1]
  <2>1. Versions[Len(undo_stack')] = undo_stack[Len(undo_stack')].events
    BY <1>1, <1>5, VersionsSeq DEF Versions
  <2>2. undo_stack[Len(undo_stack')] = undo_stack'[Len(undo_stack')]
    BY <1>2, <1>3, <1>5
  <2> QED
    BY <1>2, <1>5, <2>1, <2>2 DEF Top
<1>7. Timeline!Undo
  BY <1>2, <1>4, <1>5, <1>6 DEF Timeline!Undo, Timeline!MoveTo
<1>8. Bounded'
  <2>1. Len(undo_stack') + Len(redo_stack') = Len(undo_stack) + Len(redo_stack)
    BY <1>2, <1>3, <1>5
  <2> QED
    BY <2>1 DEF Bounded, Limit
<1> QED
  BY <1>7, <1>8

\* Redo moves the cursor forward by one, onto the version that becomes live.
LEMMA RedoMoves ==
    ASSUME IInv, IInv', Bounded, Redo
    PROVE  Timeline!Redo /\ Bounded'
<1>1. /\ undo_stack \in Seq(Entry) /\ redo_stack \in Seq(Entry)
      /\ undo_stack' \in Seq(Entry) /\ redo_stack' \in Seq(Entry)
  BY DEF IInv, TypeOK
<1>2. /\ Len(undo_stack) \in Nat /\ Len(redo_stack) \in Nat /\ Len(redo_stack) > 0
      /\ redo_stack # <<>>
      /\ redo_stack' = Pop(redo_stack)
      /\ undo_stack' = Append(undo_stack, Top(redo_stack))
      /\ file' = Top(undo_stack').events
  BY Lengths, EmptySeq DEF Redo, CanRedo
<1>3. /\ Len(redo_stack) = Len(redo_stack') + 1
      /\ Len(undo_stack') = Len(undo_stack) + 1
      /\ \A i \in 1 .. Len(redo_stack') : redo_stack'[i] = redo_stack[i]
      /\ \A i \in 1 .. Len(undo_stack) : undo_stack'[i] = undo_stack[i]
      /\ undo_stack'[Len(undo_stack')] = redo_stack[Len(redo_stack)]
  BY <1>1, <1>2, MoveShape
<1>4. Versions' = Versions
  <2>1. VersionsOf(undo_stack', redo_stack') = VersionsOf(undo_stack, redo_stack)
    BY <1>1, <1>2, VersionsForth
  <2> QED
    BY <2>1 DEF Versions
<1>5. Len(undo_stack') \in 1 .. Len(undo_stack') /\ Len(redo_stack') \in Nat
  BY <1>1, <1>2, <1>3, LenProperties
<1>6. Len(Versions) = Len(undo_stack) + Len(redo_stack)
  BY <1>1, VersionsSeq DEF Versions
<1>7. file' = Versions[Len(undo_stack) + 1]
  <2>1. Versions'[Len(undo_stack')] = undo_stack'[Len(undo_stack')].events
    BY <1>1, <1>5, VersionsSeq DEF Versions
  <2> QED
    BY <1>2, <1>3, <1>4, <2>1 DEF Top
<1>8. Timeline!Redo
  BY <1>2, <1>3, <1>4, <1>6, <1>7 DEF Timeline!Redo, Timeline!MoveTo
<1>9. Bounded'
  <2>1. Len(undo_stack') + Len(redo_stack') = Len(undo_stack) + Len(redo_stack)
    BY <1>2, <1>3, <1>5
  <2> QED
    BY <2>1 DEF Bounded, Limit
<1> QED
  BY <1>8, <1>9

\* A loaded document is the only version.
LEMMA LoadResets ==
    ASSUME IInv, NEW doc \in Document, Load(doc)
    PROVE  Timeline!Reset /\ Bounded'
<1> DEFINE e == [commit_id |-> next_commit_id, events |-> file']
<1>1. file' \in Document
  BY NormalisedDocument DEF Load
<1>2. undo_stack' = <<e>> /\ redo_stack' = <<>>
  BY DEF Load
<1>3. Len(undo_stack') = 1 /\ Len(redo_stack') = 0 /\ undo_stack'[1].events = file'
  BY <1>2
<1>4. Versions' = <<file'>>
  <2>1. /\ Len(undo_stack') + Len(redo_stack') = 1
        /\ \A i \in 1 .. 1 : i <= Len(undo_stack') /\ undo_stack'[i].events = file'
    BY <1>3
  <2>2. Versions' = [i \in 1 .. 1 |-> file']
    BY <2>1 DEF Versions, VersionsOf
  <2> QED
    BY <1>1, <2>2
<1>5. Timeline!Reset
  BY <1>1, <1>3, <1>4 DEF Timeline!Reset
<1>6. Bounded'
  BY <1>3, Lengths DEF Bounded, Limit
<1> QED
  BY <1>5, <1>6

\* A commit extends the line of versions or is merged into the newest one.
LEMMA CommitTimeline ==
    ASSUME IInv, Bounded, NEW c \in Client, NEW doc \in Document,
           NEW dialogueOnly \in BOOLEAN, NEW changed,
           dialogueOnly => DOMAIN doc = DOMAIN file,
           dialogueOnly /\ changed # {} =>
             \A l \in DOMAIN doc : doc[l] = file[l] \/ l \in changed,
           Commit(c, doc, dialogueOnly, changed)
    PROVE  (Timeline!Extend \/ Timeline!Coalesce) /\ Bounded'
<1>1. undo_stack # <<>>
  BY DEF Commit
<1>2. PICK id \in {NoId, amend_id[c]} : Record(doc, id, dialogueOnly, changed)
  BY DEF Commit
<1>3. CASE RecordInPlace(doc, id, dialogueOnly, changed)
  <2>1. /\ DOMAIN doc = DOMAIN file
        /\ \A l \in DOMAIN doc : doc[l] = file[l] \/ l \in changed
    BY <1>3 DEF RecordInPlace, CanAmendSnapshot
  <2>2. /\ undo_stack' \in Seq(Entry)
        /\ Len(undo_stack') = Len(undo_stack)
        /\ \A i \in 1 .. Len(undo_stack) : i < Len(undo_stack) => undo_stack'[i] = undo_stack[i]
        /\ Top(undo_stack)'.events = doc
    BY <1>3, <2>1, RecordInPlaceShape
  <2>3. redo_stack = <<>> /\ redo_stack' = redo_stack /\ file' = doc
    BY <1>3 DEF RecordInPlace, Merges
  <2>4. \A i \in 1 .. Len(undo_stack) - 1 : undo_stack'[i] = undo_stack[i]
    BY <2>2, Lengths
  <2>5. Timeline!Coalesce
    BY <1>1, <2>2, <2>3, <2>4, ReplacedCoalesces
  <2>6. Bounded'
    BY <2>2, <2>3 DEF Bounded, Limit
  <2> QED
    BY <2>5, <2>6
<1>4. CASE Merges(id) /\ RecordEntry(Pop(undo_stack), doc)
  BY <1>1, <1>4, RecordEntryCoalesces DEF Merges
<1>5. CASE RecordEntry(undo_stack, doc)
  BY <1>1, <1>5, RecordEntryExtends
<1> QED
  BY <1>2, <1>3, <1>4, <1>5 DEF Record

\* Every step of the history is a step of the line of versions.
LEMMA TimelineStep ==
    ASSUME IInv, Bounded, [Next]_vars
    PROVE  [Timeline!Next]_(Timeline!vars) /\ Bounded'
<1>1. ASSUME NEW c \in Client, NEW changed \in SUBSET Line, NEW exact \in BOOLEAN,
             NEW t \in Text, EditLines(c, changed, exact, t)
      PROVE  (Timeline!Extend \/ Timeline!Coalesce) /\ Bounded'
  <2> DEFINE doc == [l \in DOMAIN file |-> IF l \in changed THEN t ELSE file[l]]
             named == IF exact THEN changed ELSE {}
  <2>1. doc \in Document
    BY DEF IInv, TypeOK, Document
  <2>2. /\ DOMAIN doc = DOMAIN file
        /\ named # {} => \A l \in DOMAIN doc : doc[l] = file[l] \/ l \in named
    OBVIOUS
  <2>3. Commit(c, doc, TRUE, named)
    BY <1>1 DEF EditLines
  <2> HIDE DEF doc, named
  <2> QED
    BY <2>1, <2>2, <2>3, CommitTimeline
<1>2. ASSUME NEW c \in Client, NEW doc \in Document, EditDocument(c, doc)
      PROVE  (Timeline!Extend \/ Timeline!Coalesce) /\ Bounded'
  <2>1. Commit(c, doc, FALSE, {})
    BY <1>2 DEF EditDocument
  <2> QED
    BY <2>1, CommitTimeline
<1>3. ASSUME NEW doc \in Document, Load(doc)
      PROVE  Timeline!Reset /\ Bounded'
  BY <1>3, LoadResets
<1>4. IInv'
  BY StepInvariant
<1>5. CASE Undo
  BY <1>4, <1>5, UndoMoves DEF Timeline!Next
<1>6. CASE Redo
  BY <1>4, <1>6, RedoMoves DEF Timeline!Next
<1>7. ASSUME (\E c \in Client : ResetCommitId(c)) \/ Save \/ FileDeleted \/ UNCHANGED vars
      PROVE  UNCHANGED <<file, undo_stack, redo_stack>>
  BY <1>7 DEF ResetCommitId, Save, FileDeleted, vars, history
<1>8. CASE UNCHANGED <<file, undo_stack, redo_stack>>
  BY <1>8 DEF Timeline!vars, Versions, VersionsOf, Bounded, Limit
<1> QED
  BY <1>1, <1>2, <1>3, <1>5, <1>6, <1>7, <1>8 DEF Next, Timeline!Next

\* For every undo limit, recording, merging, trimming, undoing and redoing act
\* together as a cursor on one line of versions: nothing between the first
\* version kept and the last one undone is lost or reordered.
THEOREM TimelineImplemented == Spec => ImplementsTimeline
<1>1. Init => IInv /\ Bounded /\ Timeline!Init
  <2> SUFFICES ASSUME Init PROVE IInv /\ Bounded /\ Timeline!Init
    OBVIOUS
  <2>1. IInv
    BY InitInvariant
  <2>2. Len(undo_stack) = 0 /\ Len(redo_stack) = 0
    BY DEF Init
  <2>3. Versions = <<>>
    BY <2>2 DEF Versions, VersionsOf
  <2>4. Bounded
    BY <2>1, <2>2, Lengths DEF Bounded
  <2> QED
    BY <2>1, <2>2, <2>3, <2>4 DEF Timeline!Init, IInv, TypeOK
<1>2. IInv /\ Bounded /\ [Next]_vars => (IInv /\ Bounded)'
  BY StepInvariant, TimelineStep
<1>3. IInv /\ Bounded /\ [Next]_vars => [Timeline!Next]_(Timeline!vars)
  BY TimelineStep
<1> QED
  BY <1>1, <1>2, <1>3, PTL DEF Spec, ImplementsTimeline, Timeline!Spec
=============================================================================
