------------------------------- MODULE MCDispatch -------------------------------
(***************************************************************************)
(* Small instances of Dispatch for TLC: who calls what.                    *)
(***************************************************************************)
EXTENDS Dispatch

\* Every call of a caller; a thunk posts anywhere, and waits for nothing.
AnyCall == [queue : AnyQueue, sync : BOOLEAN]
AnyAsync == [from : AnyQueue, queue : AnyQueue, sync : {FALSE}]
NoCall == {}
=============================================================================
