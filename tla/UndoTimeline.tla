---------------------------- MODULE UndoTimeline ----------------------------
(***************************************************************************)
(* What an undo history promises, without revisions or stacks: a line of   *)
(* versions and a cursor on the one that is the live document.             *)
(***************************************************************************)
EXTENDS Naturals, Sequences

CONSTANT Document  \* the documents a version can be

VARIABLES versions, cursor, document
vars == <<versions, cursor, document>>

Init == /\ versions = <<>>
        /\ cursor = 0
        /\ document \in Document

\* Opening a document forgets every version.
Reset == \E doc \in Document :
    /\ versions' = <<doc>>
    /\ cursor' = 1
    /\ document' = doc

\* A change after the cursor drops what was undone; the oldest versions may
\* be forgotten, never the one before the change.
Extend == \E doc \in Document, oldest \in 1 .. cursor :
    /\ versions' = Append(SubSeq(versions, oldest, cursor), doc)
    /\ cursor' = Len(versions')
    /\ document' = doc

\* A change may be merged into the newest version, when nothing is undone.
Coalesce == \E doc \in Document :
    /\ cursor > 0
    /\ cursor = Len(versions)
    /\ versions' = [versions EXCEPT ![cursor] = doc]
    /\ cursor' = cursor
    /\ document' = doc

MoveTo(position) ==
    /\ cursor' = position
    /\ document' = versions[position]
    /\ versions' = versions
Undo == cursor > 1 /\ MoveTo(cursor - 1)
Redo == cursor < Len(versions) /\ MoveTo(cursor + 1)

Next == Reset \/ Extend \/ Coalesce \/ Undo \/ Redo
Spec == Init /\ [][Next]_vars
=============================================================================
