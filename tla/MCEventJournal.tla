---------------------------- MODULE MCEventJournal ----------------------------
(* Instances of EventJournal for TLC: three events of two REST calls. *)
EXTENDS EventJournal

CONSTANTS e1, e2, e3, r1, r2, t1, t2, t3

\* r1 leaves two events, e1 then e2; r2 leaves e3, created at the same nanoTime
\* as e1 on another JVM.
MCRequestOf == [e \in Event |-> IF e = e3 THEN r2 ELSE r1]
\* The call r1 in one transaction, and in two (a login that blocks the user).
MCOneTransaction == [e \in Event |-> IF e = e3 THEN t3 ELSE t1]
MCTwoTransactions == [e \in Event |-> IF e = e3 THEN t3 ELSE IF e = e2 THEN t2 ELSE t1]
MCCreationDate == [e \in Event |-> IF e = e2 THEN 2 ELSE 1]
===============================================================================
