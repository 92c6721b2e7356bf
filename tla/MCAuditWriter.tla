---------------------------- MODULE MCAuditWriter ----------------------------
(* Model values for AuditWriter: the loop, two callers of Flush and two of *)
(* Close, and both sinks may fail.                                         *)
EXTENDS AuditWriter

CONSTANTS r1, r2, f1, f2, c1, c2

MCRecords  == {r1, r2}
MCFlushers == {f1, f2}
MCClosers  == {c1, c2}
MCMayFail  == {"jsonl", "pg"}
=============================================================================
