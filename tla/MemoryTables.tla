---------------------------- MODULE MemoryTables ----------------------------
(***************************************************************************)
(* The statements of the PostgreSQL store (memory/store) on the tables     *)
(* memories, memories_1024, memory_relationships and trust_adjustments,    *)
(* with the CHECK constraints of migration 000001.  A database is a record *)
(* of these tables; each operator is one method of the store and gives the *)
(* database after its statement, or what a query returns.  Text and        *)
(* vectors are abstracted to a topic: two memories are similar (a cosine   *)
(* of at least 0.95) when their topics are equal.                          *)
(* Scores are in steps of 0.05, so 1.0 is Top and 0.1 is ArchiveBelow.     *)
(***************************************************************************)
EXTENDS Naturals, Sequences, FiniteSets

CONSTANTS
    Memory,  \* the ids a session may use: naturals, in the order of created_at
    Topic    \* what memories are about

Top           == 20
ArchiveBelow  == 2
DefaultScore  == 10

ASSUME MemoryAssumption ==
    /\ Memory \subseteq Nat
    /\ IsFiniteSet(Memory)

\* wide: there is a row of memories_1024.  rate: metadata has a decay_rate.
Row == [state: {"active", "archived"}, score: 0..Top, topic: Topic,
        wide: BOOLEAN, rate: BOOLEAN]

Exists(db, m) == m \in DOMAIN db.memories
Active(db)    == {m \in DOMAIN db.memories : db.memories[m].state = "active"}

\* WHERE id = $1, with or without AND is_archived = FALSE: whether a row is found.
GetMemory(db, m, includeArchived) ==
    IF includeArchived THEN Exists(db, m) ELSE m \in Active(db)

CountMemories(db) == Cardinality(Active(db))

StoreMemory(db, m, t) ==
    [db EXCEPT !.memories =
        [i \in DOMAIN @ \cup {m} |->
            IF i = m THEN [state |-> "active", score |-> DefaultScore,
                           topic |-> t, wide |-> FALSE, rate |-> FALSE]
                     ELSE @[i]]]

\* INSERT INTO memories_1024 ... ON CONFLICT (memory_id) DO UPDATE
AddMemory1024(db, m) == [db EXCEPT !.memories[m].wide = TRUE]

\* A soft delete, which the archiving branch of UpdateTrustFields repeats.
SoftDelete(db, m) ==
    IF Exists(db, m) THEN [db EXCEPT !.memories[m].state = "archived"] ELSE db

\* A slip: the statement sets is_archived along with the score.
UpdateBoth(db, m, s) ==
    IF Exists(db, m)
    THEN [db EXCEPT !.memories[m].score = s, !.memories[m].state = "active"] ELSE db

UpdateTrustScore(db, m, s) ==
    IF Exists(db, m) THEN [db EXCEPT !.memories[m].score = s] ELSE db

\* With archived set the score is not stored; without it the flag is left alone.
UpdateTrustFields(db, m, s, archived) ==
    IF archived THEN SoftDelete(db, m) ELSE UpdateTrustScore(db, m, s)

UpdateDecayRate(db, m) ==
    IF Exists(db, m) THEN [db EXCEPT !.memories[m].rate = TRUE] ELSE db

\* ... ON CONFLICT (source_id, target_id, relationship_type) DO UPDATE
CreateRelationship(db, source, target) ==
    [db EXCEPT !.supersedes = @ \cup {<<source, target>>}]

LogTrustAdjustment(db, m, old, new) ==
    [db EXCEPT !.adjustments = @ \cup {<<m, old, new>>}]

\* ListMemories: whatever its filter says of archived memories and scores, the
\* active ones, newest first (its limit of 100 is above every instance).
ListMemories(db) ==
    LET A == Active(db)
        Newer(m) == Cardinality({n \in A : n > m})
    IN  [i \in 1..Cardinality(A) |-> CHOOSE m \in A : Newer(m) = i - 1]
=============================================================================
