-------------------------- MODULE MCDependencyGraph --------------------------
(* Model values for DependencyGraph: every plan of three tasks that may    *)
(* name one task it does not have.                                         *)
EXTENDS DependencyGraph

CONSTANTS t1, t2, t3, gone

MCTasks   == {t1, t2, t3}
MCOutside == {gone}
=============================================================================
