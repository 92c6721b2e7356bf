------------------------------ MODULE AuditLog ------------------------------
(***************************************************************************)
(* What the audit writer promises of one sink, whatever its goroutines do: *)
(* a record that was accepted ends up in the sink once, or is lost to an   *)
(* error, or is skipped because the sink was closed before it was written. *)
(* Nothing is accepted once the sink is closed, and no record is left      *)
(* behind once the writer is shut.                                         *)
(* AuditWriter implements this specification for each of its sinks.        *)
(***************************************************************************)
CONSTANT Records

VARIABLES
    accepted,  \* the records Write took
    stored,    \* the records the sink holds
    lost,      \* the records an error of the sink cost
    skipped,   \* the records that found the sink closed, which nobody is told of
    closed,    \* the sink is closed
    shut       \* Close is over and nobody is writing

vars == <<accepted, stored, lost, skipped, closed, shut>>

Open == accepted \ (stored \cup lost \cup skipped)

Init ==
    /\ accepted = {} /\ stored = {} /\ lost = {} /\ skipped = {}
    /\ closed = FALSE /\ shut = FALSE

Accept(r) ==
    /\ ~closed
    /\ r \notin accepted
    /\ accepted' = accepted \cup {r}
    /\ UNCHANGED <<stored, lost, skipped, closed, shut>>

Store(some) ==
    /\ some \subseteq Open
    /\ stored' = stored \cup some
    /\ UNCHANGED <<accepted, lost, skipped>>

Lose(some) ==
    /\ some \subseteq Open
    /\ lost' = lost \cup some
    /\ UNCHANGED <<accepted, stored, skipped>>

Skip(some) ==
    /\ closed
    /\ some \subseteq Open
    /\ skipped' = skipped \cup some
    /\ UNCHANGED <<accepted, stored, lost>>

\* The sink is closed for good.
MayClose == closed => closed'

\* The writer is shut for good, and not before the last record is settled.
MayShut == (shut' = shut) \/ (shut' /\ closed' /\ Open' = {})

Next ==
    \/ \E r \in Records : Accept(r)
    \/ \E some \in SUBSET Records :
            (Store(some) \/ Lose(some) \/ Skip(some)) /\ MayClose /\ MayShut

Spec == Init /\ [][Next]_vars
=============================================================================
