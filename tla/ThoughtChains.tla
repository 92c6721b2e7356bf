----------------------------- MODULE ThoughtChains -----------------------------
(***************************************************************************)
(* Thought chains (memory/thought, store/thoughts.go, the thought handlers *)
(* of cmd/backend/main.go).  The request loop is the only writer of the    *)
(* tables thought_chains and thoughts, and a request that fails in its     *)
(* first write leaves them alone, so an action is a whole request that     *)
(* writes.  A thought is known by its place in the order of created_at.    *)
(* No handler looks at the status of a chain.                              *)
(***************************************************************************)
EXTENDS Naturals, Sequences, FiniteSets

CONSTANTS
    Chain,          \* ids of chains
    Idea,           \* texts of thoughts
    MaxThoughts     \* bound: thoughts of a session; also bounds their numbers

ASSUME ThoughtAssumption == IsFiniteSet(Chain) /\ MaxThoughts \in Nat

VARIABLES
    chains,     \* status of each chain, "none" before it is started
    thoughts,   \* the rows of thoughts, oldest first
    notes,      \* what memories holds of them: content hashes with source type thought
    shown       \* the chains the last request was answered with

thoughtVars == <<chains, thoughts, notes, shown>>

ThoughtInit ==
    /\ chains = [c \in Chain |-> "none"]
    /\ thoughts = <<>>
    /\ notes = {}
    /\ shown = <<>>

Started(c) == chains[c] # "none"

-----------------------------------------------------------------------------
(* The store.                                                              *)

\* The parent the caller names is not stored.
InsertThoughtChain(c) == chains' = [chains EXCEPT ![c] = "active"]

InsertThought(t) ==
    /\ Len(thoughts) < MaxThoughts
    /\ thoughts' = Append(thoughts, t)

\* A foreign key wants the chain, a CHECK the number.
Thought(c, n, text) == [chain |-> c, text |-> text, number |-> n, revises |-> 0, from |-> 0]

WithNumber(c, n) == {i \in DOMAIN thoughts : thoughts[i].chain = c /\ thoughts[i].number = n}

\* A slip: ascending.
GetOldestByNumber(c, n) ==
    CHOOSE i \in WithNumber(c, n) : \A j \in WithNumber(c, n) : i <= j

\* ORDER BY created_at DESC LIMIT 1, on whatever branch the newest is.
GetThoughtByNumber(c, n) ==
    CHOOSE i \in WithNumber(c, n) : \A j \in WithNumber(c, n) : j <= i

\* A revision has the number of its original.
Revision(c, n, text) == [Thought(c, n, text) EXCEPT !.revises = GetThoughtByNumber(c, n)]

\* A branch has the next number; the id of a branch is free text.
Branch(c, n, text) == [Thought(c, n + 1, text) EXCEPT !.from = GetThoughtByNumber(c, n)]

UpdateThoughtChainStatus(c, s) ==
    /\ Started(c)
    /\ chains' = [chains EXCEPT ![c] = s]
    /\ shown' = <<>>
    /\ UNCHANGED <<thoughts, notes>>

\* ORDER BY thought_number, created_at.
GetThoughtChain(c) ==
    LET rows == {i \in DOMAIN thoughts : thoughts[i].chain = c}
        Before(i, j) == \/ thoughts[i].number < thoughts[j].number
                        \/ thoughts[i].number = thoughts[j].number /\ i < j
    IN  [k \in 1..Cardinality(rows) |->
            CHOOSE i \in rows : Cardinality({j \in rows : Before(j, i)}) = k - 1]

\* The chains with a thought that matches the query, in no order.
GetRelatedChains(text) == {c \in Chain : \E i \in DOMAIN thoughts :
                              thoughts[i].chain = c /\ thoughts[i].text = text}

-----------------------------------------------------------------------------
(* The chains manager.                                                     *)

\* The hash is of the text, the chain and the number.
thoughtContentHash(t) == <<t.text, t.chain, t.number>>

\* A memory with the hash is there, or is added; a failure is not fatal, and the
\* thought's row never learns the memory's id.
BridgeThought(t) == notes' \in {notes, notes \cup {thoughtContentHash(t)}}

StartChain(c) ==
    /\ ~Started(c)
    /\ InsertThoughtChain(c)
    /\ shown' = <<>>
    /\ UNCHANGED <<thoughts, notes>>

AddThought(c, n, text) ==
    /\ Started(c)
    /\ InsertThought(Thought(c, n, text))
    /\ BridgeThought(Thought(c, n, text))
    /\ shown' = <<>>
    /\ UNCHANGED chains

ReviseThought(c, n, text) ==
    /\ WithNumber(c, n) # {}
    /\ InsertThought(Revision(c, n, text))
    /\ BridgeThought(Revision(c, n, text))
    /\ shown' = <<>>
    /\ UNCHANGED chains

BranchThought(c, n, text) ==
    /\ WithNumber(c, n) # {}
    /\ InsertThought(Branch(c, n, text))
    /\ BridgeThought(Branch(c, n, text))
    /\ shown' = <<>>
    /\ UNCHANGED chains

\* Each sets its status, whatever the chain's was: an abandoned one is resumed.
PauseChain(c)   == UpdateThoughtChainStatus(c, "paused")
ResumeChain(c)  == UpdateThoughtChainStatus(c, "active")
AbandonChain(c) == UpdateThoughtChainStatus(c, "abandoned")

GetChain(c) ==
    /\ Started(c)
    /\ shown' = <<[chain |-> c, thoughts |-> GetThoughtChain(c)]>>
    /\ UNCHANGED <<chains, thoughts, notes>>

GetRelated(text) ==
    /\ \E c \in GetRelatedChains(text) :
          shown' = <<[chain |-> c, thoughts |-> GetThoughtChain(c)]>>
    /\ UNCHANGED <<chains, thoughts, notes>>

-----------------------------------------------------------------------------
(* The handlers; one that refuses its parameters changes nothing.          *)

Number == 1..MaxThoughts

handleMemoryStartThoughtChain      == \E c \in Chain : StartChain(c)
handleMemoryAddThought             == \E c \in Chain, n \in Number, text \in Idea : AddThought(c, n, text)
handleMemoryGetThoughtChain        == \E c \in Chain : GetChain(c)
handleMemoryGetRelatedThoughtChains == \E text \in Idea : GetRelated(text)
handleMemoryReviseThought          == \E c \in Chain, n \in Number, text \in Idea : ReviseThought(c, n, text)

\* The number of the thought to branch from is not looked at.
handleMemoryBranchThought          == \E c \in Chain, n \in Number \cup {0}, text \in Idea : BranchThought(c, n, text)
handleMemoryPauseThoughtChain      == \E c \in Chain : PauseChain(c)
handleMemoryResumeThoughtChain     == \E c \in Chain : ResumeChain(c)
handleMemoryAbandonThoughtChain    == \E c \in Chain : AbandonChain(c)

ThoughtNext ==
    \/ handleMemoryStartThoughtChain
    \/ handleMemoryAddThought
    \/ handleMemoryGetThoughtChain
    \/ handleMemoryGetRelatedThoughtChains
    \/ handleMemoryReviseThought
    \/ handleMemoryBranchThought
    \/ handleMemoryPauseThoughtChain
    \/ handleMemoryResumeThoughtChain
    \/ handleMemoryAbandonThoughtChain

ThoughtSpec == ThoughtInit /\ [][ThoughtNext]_thoughtVars

-----------------------------------------------------------------------------
ThoughtTypeOK ==
    /\ \A c \in Chain : chains[c] \in {"none", "active", "paused", "abandoned"}
    /\ Len(thoughts) <= MaxThoughts
    /\ \A i \in DOMAIN thoughts :
          /\ thoughts[i].chain \in Chain
          /\ thoughts[i].text \in Idea
          /\ thoughts[i].number \in Nat \ {0}
          /\ thoughts[i].revises \in 0..(i - 1)
          /\ thoughts[i].from \in 0..(i - 1)

\* Revising and branching find a thought by a number that revisions repeat and
\* branches use again.  Still the history of a chain stays readable: no thought is
\* revised twice (a second revision is one of the first), a revision or a branch
\* is shown after what it came from, and only thoughts that are there have a
\* memory (store/thoughts.go:243, queries.go:434, thought/chains.go:71).
HistoryReadable ==
    /\ \A i, j \in DOMAIN thoughts :
          thoughts[i].revises # 0 /\ thoughts[i].revises = thoughts[j].revises => i = j
    /\ \A s \in DOMAIN shown :
          LET list == shown[s].thoughts
              ShownAt(i) == CHOOSE k \in DOMAIN list : list[k] = i
          IN  \A k \in DOMAIN list :
                 \A source \in {thoughts[list[k]].revises, thoughts[list[k]].from} \ {0} :
                    /\ thoughts[source].chain = shown[s].chain
                    /\ ShownAt(source) < k
    /\ notes \subseteq {thoughtContentHash(thoughts[i]) : i \in DOMAIN thoughts}
=============================================================================
