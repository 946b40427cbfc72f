---------------------------- MODULE AtomicInstall ----------------------------
(***************************************************************************)
(* What package transactions promise: the installed files change by whole  *)
(* transactions only, each at most once.                                   *)
(***************************************************************************)
CONSTANTS Path, Tx, Absent, Old

VARIABLES
    installed, \* what each path holds: Absent, Old, or a transaction's file
    plan,      \* the paths each transaction asks to write and to remove
    done       \* the transactions that took place
vars == <<installed, plan, done>>

Plan == {[put |-> w, remove |-> r] : w \in SUBSET Path, r \in SUBSET Path}

Init ==
    /\ installed \in [Path -> {Absent, Old}]
    /\ plan = [t \in Tx |-> [put |-> {}, remove |-> {}]]
    /\ done = {}

\* A transaction may be asked for again until it has taken place.
Submit(t) ==
    /\ t \notin done
    /\ \E p \in Plan : plan' = [plan EXCEPT ![t] = p]
    /\ UNCHANGED <<installed, done>>

Install(t) ==
    /\ t \notin done
    /\ installed' = [p \in Path |-> IF p \in plan[t].put THEN t
                                    ELSE IF p \in plan[t].remove THEN Absent
                                    ELSE installed[p]]
    /\ done' = done \cup {t}
    /\ plan' = plan

Next == \E t \in Tx : Submit(t) \/ Install(t)
Spec == Init /\ [][Next]_vars
=============================================================================
