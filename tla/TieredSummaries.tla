-------------------------- MODULE TieredSummaries --------------------------
(***************************************************************************)
(* The project summaries of two tiers and the extraction of memories from  *)
(* a conversation (tiered/loader.go, tiered/cache.go).  A summary is the   *)
(* set of the memories the LLM was given.  The LLM (llm/client.go) takes   *)
(* time, up to a timeout for each of a few attempts, and may fail; the     *)
(* request loop waits for it while the decay scheduler goes on.  Memories  *)
(* are in the order they were made, with their trust in three levels:      *)
(* below 0.5, below 0.8, above.                                            *)
(***************************************************************************)
EXTENDS Naturals, Sequences, FiniteSets

CONSTANTS
    MinTrust,      \* of a tier: the level its memories have at least
    TierLimit,     \* of a tier: l0Limit, l1Limit
    TTL,           \* of a tier: DefaultL0TTL, DefaultL1TTL
    LLMTimeout,    \* defaultHTTPTimeout of the LLM client
    MaxRetries,    \* maxRetries: requests it makes for one chat
    Backoff,       \* how long it waits before each after the first
    MaxKept,       \* bound: memories made
    MaxNow         \* bound: the clock

VARIABLES
    kept,          \* the memories: their trust, and whether they are archived
    cache,         \* SummaryCache.entries, with the time its memories were read
    now,           \* the clock
    asking,        \* the request that waits for the LLM
    answer         \* the answer of the last step, if it gave one

summaryVars == <<kept, cache, now, asking, answer>>

Tier     == {"L0", "L1"}
Level    == 0..2
Nobody   == [op |-> "none"]
NoAnswer == [kind |-> "nothing"]

ASSUME SummaryAssumption ==
    /\ TTL \in [Tier -> Nat]
    /\ LLMTimeout \in Nat
    /\ MaxRetries \in Nat \ {0}
    /\ Backoff \in [1..(MaxRetries - 1) -> Nat]
    /\ MaxKept \in Nat
    /\ MaxNow \in Nat

SummaryInit ==
    /\ kept = <<>>
    /\ cache = <<>>
    /\ now = 0
    /\ asking = Nobody
    /\ answer = NoAnswer

-----------------------------------------------------------------------------
(* SummaryCache.                                                           *)

expired(entry) == now > entry.expiresAt

\* A slip: the lifetime is not looked at.
CacheGetForever(tier) == tier \in DOMAIN cache

\* An expired entry is removed when it is looked up.
CacheGet(tier) == tier \in DOMAIN cache /\ ~expired(cache[tier])

CacheSet(tier, value, taken) ==
    [u \in DOMAIN cache \cup {tier} |->
        IF u = tier THEN [value |-> value, taken |-> taken, expiresAt |-> now + TTL[tier]]
        ELSE cache[u]]

CacheInvalidate(gone) == [u \in DOMAIN cache \ gone |-> cache[u]]

-----------------------------------------------------------------------------
(* What the summary is made of.                                            *)

LiveMemories == {i \in DOMAIN kept : ~kept[i].archived}

\* ListMemories: the newest live ones, whatever MinTrustScore asks for.
Newest(limit) ==
    {i \in LiveMemories : Cardinality({j \in LiveMemories : j > i}) < limit}

\* The trust is looked at among those only.
fetchHighTrustMemories(tier) ==
    {i \in Newest(TierLimit[tier]) : kept[i].trust >= MinTrust[tier]}

-----------------------------------------------------------------------------
FromCache(tier) ==
    /\ CacheGet(tier)
    /\ answer' = [kind |-> "cached", tier |-> tier, age |-> now - cache[tier].taken]
    /\ UNCHANGED <<kept, cache, now, asking>>

\* Looking up an expired entry has removed it.
Dropped(tier, force) ==
    IF force \/ CacheGet(tier) THEN cache ELSE CacheInvalidate({tier})

ListFails(tier, force) ==
    /\ force \/ ~CacheGet(tier)
    /\ cache' = Dropped(tier, force)
    /\ answer' = [kind |-> "error"]
    /\ UNCHANGED <<kept, now, asking>>

\* Nothing to summarise is said without the LLM, and not kept.
SayNone(tier, force) ==
    /\ force \/ ~CacheGet(tier)
    /\ fetchHighTrustMemories(tier) = {}
    /\ cache' = Dropped(tier, force)
    /\ answer' = [kind |-> "none", tier |-> tier]
    /\ UNCHANGED <<kept, now, asking>>

\* The first request goes out.
Chat(op, tier, value) ==
    asking' = [op |-> op, tier |-> tier, value |-> value,
               taken |-> now, attempt |-> 1, since |-> now]

AskLLM(tier, force) ==
    /\ force \/ ~CacheGet(tier)
    /\ fetchHighTrustMemories(tier) # {}
    /\ cache' = Dropped(tier, force)
    /\ Chat("summary", tier, fetchHighTrustMemories(tier))
    /\ answer' = NoAnswer
    /\ UNCHANGED <<kept, now>>

SummaryOf(tier, force) ==
    /\ asking = Nobody
    /\ \/ ~force /\ FromCache(tier)
       \/ ListFails(tier, force)
       \/ SayNone(tier, force)
       \/ AskLLM(tier, force)

GetTier0Summary(force) == SummaryOf("L0", force)
GetTier1Summary(force) == SummaryOf("L1", force)

\* Each attempt may take its time; the next waits for the backoff first.
Attempting == asking # Nobody /\ asking.since <= now

\* A server error, a timeout or no connection.
Retry ==
    /\ Attempting
    /\ asking.attempt < MaxRetries
    /\ asking' = [asking EXCEPT !.attempt = @ + 1, !.since = now + Backoff[asking.attempt]]
    /\ UNCHANGED <<kept, cache, now, answer>>

\* A client error, the last failure, or an answer that cannot be read.
LLMFails ==
    /\ Attempting
    /\ asking' = Nobody
    /\ answer' = [kind |-> "error"]
    /\ UNCHANGED <<kept, cache, now>>

\* The LLM has answered: the summary is kept from now on.
Summarised ==
    /\ Attempting
    /\ asking.op = "summary"
    /\ cache' = CacheSet(asking.tier, asking.value, asking.taken)
    /\ answer' = [kind |-> "fresh", tier |-> asking.tier, age |-> now - asking.taken]
    /\ asking' = Nobody
    /\ UNCHANGED <<kept, now>>

\* An empty text is answered without the LLM.
Extract(op, text) ==
    /\ asking = Nobody
    /\ IF text THEN Chat(op, "none", {}) /\ answer' = NoAnswer
       ELSE answer' = [kind |-> op, stored |-> 0] /\ UNCHANGED asking
    /\ UNCHANGED <<kept, cache, now>>

TriggerExtraction(text)     == Extract("extract", text)
PrecompressExtraction(text) == Extract("precompress", text)

New == [trust |-> 1, archived |-> FALSE]

\* parseExtractedMemories: so many lines of the answer are memories.
Parsed == 0..(MaxKept - Len(kept))

\* Each becomes a memory; those that fail are passed over.
Extracted ==
    /\ Attempting
    /\ asking.op \in {"extract", "precompress"}
    /\ \E stored \in Parsed :
          /\ kept' = kept \o [i \in 1..stored |-> New]
          /\ answer' = [kind |-> asking.op, stored |-> stored]
    /\ asking' = Nobody
    /\ UNCHANGED <<cache, now>>

InvalidateCache(gone) ==
    /\ cache' = CacheInvalidate(gone)
    /\ answer' = NoAnswer
    /\ UNCHANGED <<kept, now, asking>>

-----------------------------------------------------------------------------
(* The handlers.                                                           *)

handleMemoryGetTier0Summary == \E force \in BOOLEAN : GetTier0Summary(force)
handleMemoryGetTier1Summary == \E force \in BOOLEAN : GetTier1Summary(force)

handleMemoryTriggerExtraction     == \E text \in BOOLEAN : TriggerExtraction(text)
handleMemoryPrecompressExtraction == \E text \in BOOLEAN : PrecompressExtraction(text)

-----------------------------------------------------------------------------
(* The rest of the system, as far as the summaries see it.                 *)

Remember ==
    /\ asking = Nobody
    /\ Len(kept) < MaxKept
    /\ kept' = Append(kept, New)
    /\ answer' = NoAnswer
    /\ UNCHANGED <<cache, now, asking>>

Raise(i) ==
    /\ asking = Nobody
    /\ kept[i].trust < 2
    /\ kept' = [kept EXCEPT ![i].trust = @ + 1]
    /\ answer' = NoAnswer
    /\ UNCHANGED <<cache, now, asking>>

\* By a request or by the scheduler.
Fade(i) ==
    /\ kept' \in {[kept EXCEPT ![i].trust = 0], [kept EXCEPT ![i].archived = TRUE]}
    /\ answer' = NoAnswer
    /\ UNCHANGED <<cache, now, asking>>

PassTime ==
    /\ now < MaxNow
    /\ asking # Nobody => now < asking.since + LLMTimeout
    /\ now' = now + 1
    /\ answer' = NoAnswer
    /\ UNCHANGED <<kept, cache, asking>>

SummaryNext ==
    \/ handleMemoryGetTier0Summary
    \/ handleMemoryGetTier1Summary
    \/ handleMemoryTriggerExtraction
    \/ handleMemoryPrecompressExtraction
    \/ Retry
    \/ LLMFails
    \/ Summarised
    \/ Extracted
    \/ \E gone \in {{"L0"}, {"L1"}, Tier} : InvalidateCache(gone)
    \/ Remember
    \/ \E i \in DOMAIN kept : Raise(i)
    \/ \E i \in LiveMemories : Fade(i)
    \/ PassTime

SummarySpec == SummaryInit /\ [][SummaryNext]_summaryVars

-----------------------------------------------------------------------------
SummaryTypeOK ==
    /\ Len(kept) \in 0..MaxKept
    /\ \A i \in DOMAIN kept : kept[i] \in [trust : Level, archived : BOOLEAN]
    /\ DOMAIN cache \subseteq Tier
    /\ \A tier \in DOMAIN cache : cache[tier].value \subseteq 1..MaxKept
    /\ now \in 0..MaxNow
    /\ asking.op \in {"none", "summary", "extract", "precompress"}
    /\ asking # Nobody => asking.attempt \in 1..MaxRetries

\* How long the waits before the first n retries are together.
Waited[n \in 0..(MaxRetries - 1)] == IF n = 0 THEN 0 ELSE Waited[n - 1] + Backoff[n]

\* The longest one call of the LLM may take.
LongestChat == MaxRetries * LLMTimeout + Waited[MaxRetries - 1]

\* A summary that is served, however it came there, describes the memories as
\* they were no longer ago than its lifetime and one call of the LLM with all its
\* attempts: its lifetime runs from when it was kept, not from when its memories
\* were read (loader.go:141, cache.go:83, llm/client.go:148).
SummaryInTime ==
    answer.kind \in {"cached", "fresh"} => answer.age <= TTL[answer.tier] + LongestChat
=============================================================================
