----------------------------- MODULE MCTaskRunner -----------------------------
(* Model values for TaskRunner: every plan of three tasks that may name     *)
(* one task it does not have, on two workers.                               *)
EXTENDS TaskRunner

CONSTANTS t1, t2, t3, gone

MCTasks   == {t1, t2, t3}
MCOutside == {gone}
=============================================================================
