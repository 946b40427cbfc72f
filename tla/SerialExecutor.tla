---------------------------- MODULE SerialExecutor ----------------------------
(***************************************************************************)
(* What a serial queue of libaegisub/include/libaegisub/dispatch.h         *)
(* promises its users: its tasks run one at a time, in the order they were *)
(* posted.                                                                 *)
(***************************************************************************)
EXTENDS Sequences

CONSTANTS Queue, Task, NoTask

VARIABLES
    waiting,  \* per queue, the tasks posted and not begun, oldest first
    current,  \* per queue, the task being run, or NoTask
    finished  \* the tasks that have run
vars == <<waiting, current, finished>>

Init ==
    /\ waiting = [q \in Queue |-> <<>>]
    /\ current = [q \in Queue |-> NoTask]
    /\ finished = {}

Post(q, task) ==
    /\ waiting' = [waiting EXCEPT ![q] = Append(@, task)]
    /\ UNCHANGED <<current, finished>>

Begin(q) ==
    /\ current[q] = NoTask
    /\ waiting[q] # <<>>
    /\ current' = [current EXCEPT ![q] = Head(waiting[q])]
    /\ waiting' = [waiting EXCEPT ![q] = Tail(@)]
    /\ UNCHANGED finished

End(q) ==
    /\ current[q] # NoTask
    /\ finished' = finished \cup {current[q]}
    /\ current' = [current EXCEPT ![q] = NoTask]
    /\ UNCHANGED waiting

Next == \E q \in Queue : Begin(q) \/ End(q) \/ \E task \in Task : Post(q, task)
Spec == Init /\ [][Next]_vars
=============================================================================
