----------------------------- MODULE MCVideoProvider -----------------------------
(***************************************************************************)
(* Small instances of VideoProvider for TLC: two lines that two frames     *)
(* share or not, depending on the timecodes.                               *)
(***************************************************************************)
EXTENDS VideoProvider

CONSTANTS l1, l2, tc1, tc2, a

Unedited == {[l \in Line |-> a]}

Visible ==
    [tc \in {tc1, tc2} |->
        IF tc = tc1 THEN [f \in 1 .. FrameCount |-> IF f = 1 THEN {l1} ELSE {l1, l2}]
                    ELSE [f \in 1 .. FrameCount |-> IF f = 1 THEN {l2} ELSE {l1}]]
=============================================================================
