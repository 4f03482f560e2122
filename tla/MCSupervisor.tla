---------------------------- MODULE MCSupervisor ----------------------------
(* A run that is waited for and an instance of the persistent pool.        *)
EXTENDS Supervisor

CONSTANTS run, instance

\* The pool shortens the instance's deadline when it retimes it.
MCDeadline == [p \in Ids |-> IF p = run THEN 1 ELSE 2]
=============================================================================
