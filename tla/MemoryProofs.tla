----------------------------- MODULE MemoryProofs -----------------------------
(***************************************************************************)
(* Theorems about the areas of the backend that are the memory system:     *)
(* each section is about the specification of one area, as its module has  *)
(* it, and is independent of the others.  BackendProofs carries them over  *)
(* to the backend.                                                         *)
(***************************************************************************)
EXTENDS TrustAndDecay, EmbeddingMigration, ThoughtChains, TieredSummaries, KnowledgeGraph,
        RankFusion, ProjectIndex, FiniteSetTheorems, SequenceTheorems, TLAPS

(***************************************************************************)
(*                             Trust and decay                             *)
(*                                                                         *)
(* What happens to a memory that has been archived, for any rows, any      *)
(* number of requests and ticks, and any interleaving of their statements. *)
(* A statement is judged by what it does to the rows, so the two           *)
(* properties need of the writers only what they hold between statements:  *)
(* that a new memory has a new id, and that of a pair being merged the     *)
(* lower is archived before it is recorded as superseded.  The pair comes  *)
(* from a list, and the list is made of active memories; that needs an     *)
(* argument of its own, as list and pair are chosen by their rank.         *)
(***************************************************************************)

-----------------------------------------------------------------------------
(* The lists.                                                              *)

\* Of pairs of numbers one comes before the others.
LEMMA FirstPair ==
  ASSUME NEW n \in Nat, NEW S, S \subseteq (1..n) \X (1..n), S # {}
  PROVE  \E p \in S : \A q \in S \ {p} : Earlier(p, q)
<1> DEFINE P == (1..n) \X (1..n)
           Before(p) == {q \in P : Earlier(q, p)}
           T == {Before(p) : p \in S}
<1>1. IsFiniteSet(P)
  <2>1. IsFiniteSet(1..n)
    BY FS_Interval
  <2> QED  BY <2>1, FS_Product
<1>2. \A p \in P : p = <<p[1], p[2]>> /\ p[1] \in Nat /\ p[2] \in Nat
  OBVIOUS
<1>3. \A p, q \in P : Earlier(q, p) =>
        Before(q) \subseteq Before(p) /\ q \in Before(p) /\ q \notin Before(q)
  BY <1>2 DEF Earlier
<1>4. \A p, q \in P : p # q => Earlier(p, q) \/ Earlier(q, p)
  BY <1>2 DEF Earlier
<1>5. T \subseteq FiniteSubsetsOf(P) /\ T # {}
  <2>1. ASSUME NEW p \in S  PROVE Before(p) \in FiniteSubsetsOf(P)
    <3>1. Before(p) \in SUBSET P
      OBVIOUS
    <3> HIDE DEF Before, P
    <3>2. IsFiniteSet(Before(p))
      BY <1>1, <3>1, FS_Subset
    <3> QED  BY <3>1, <3>2 DEF FiniteSubsetsOf
  <2> QED  BY <2>1
<1>6. PICK B \in T : \A C \in T : ~(<<C, B>> \in StrictSubsetOrdering(P))
  <2> HIDE DEF T, P
  <2> QED  BY <1>5, FS_StrictSubsetOrderingWellFounded, WFMin
<1>7. PICK p \in S : B = Before(p)
  OBVIOUS
<1>8. ASSUME NEW q \in S \ {p}, ~Earlier(p, q)  PROVE FALSE
  <2>1. p \in P /\ q \in P /\ p # q
    OBVIOUS
  <2> HIDE DEF P, Before
  <2>2. Earlier(q, p)
    BY <1>4, <1>8, <2>1
  <2>3. Before(q) \subseteq Before(p) /\ Before(q) # Before(p)
    BY <1>3, <2>1, <2>2
  <2>4. Before(q) \in T /\ Before(p) \in T
    OBVIOUS
  <2>5. <<Before(q), Before(p)>> \in StrictSubsetOrdering(P)
    <3>1. Before(q) \in SUBSET P /\ Before(p) \in SUBSET P
      BY <1>5, <2>4 DEF FiniteSubsetsOf
    <3> QED  BY <2>3, <3>1 DEF StrictSubsetOrdering
  <2> QED  BY <1>6, <1>7, <2>4, <2>5
<1> QED  BY <1>8

\* The active memories, each once: the i-th has i - 1 newer ones.
LEMMA ListedAreActive ==
  ASSUME NEW d, DOMAIN d.memories \subseteq Memory
  PROVE  /\ DOMAIN ListMemories(d) = 1..Cardinality(Active(d))
         /\ Cardinality(Active(d)) \in Nat
         /\ \A i \in DOMAIN ListMemories(d) : ListMemories(d)[i] \in Active(d)
<1> DEFINE A == Active(d)
           N == Cardinality(A)
           Newer(m) == {k \in A : k > m}
           rank == [m \in A |-> Cardinality(Newer(m))]
<1>1. A \subseteq Nat /\ IsFiniteSet(A)
  <2>1. A \in SUBSET Memory
    BY DEF Active
  <2> QED  BY <2>1, MemoryAssumption, FS_Subset
<1>2. N \in Nat
  BY <1>1, FS_CardinalityType
<1>3. \A m \in A : IsFiniteSet(Newer(m)) /\ Cardinality(Newer(m)) \in Nat
  <2>1. ASSUME NEW m \in A  PROVE IsFiniteSet(Newer(m)) /\ Cardinality(Newer(m)) \in Nat
    <3>1. Newer(m) \in SUBSET A
      OBVIOUS
    <3> HIDE DEF Newer, A
    <3> QED  BY <1>1, <3>1, FS_Subset, FS_CardinalityType
  <2> QED  BY <2>1
<1>4. \A m \in A : rank[m] \in 0..(N - 1)
  <2>1. ASSUME NEW m \in A  PROVE Cardinality(Newer(m)) < N
    <3>1. Newer(m) \in SUBSET A /\ Newer(m) # A
      BY <1>1
    <3> HIDE DEF Newer, A
    <3>2. Cardinality(Newer(m)) <= N /\ Cardinality(Newer(m)) # N
      BY <1>1, <3>1, FS_Subset
    <3> QED  BY <1>2, <1>3, <3>2
  <2> HIDE DEF Newer, A, N
  <2>2. ASSUME NEW m \in A  PROVE rank[m] \in 0..(N - 1)
    BY <1>2, <1>3, <2>1
  <2> QED  BY <2>2
<1>5. \A k, m \in A : k < m => rank[m] # rank[k]
  <2>1. ASSUME NEW k \in A, NEW m \in A, k < m
        PROVE  Cardinality(Newer(m)) # Cardinality(Newer(k))
    <3>1. Newer(m) \in SUBSET Newer(k) /\ Newer(m) # Newer(k)
      BY <1>1, <2>1
    <3> HIDE DEF Newer
    <3> QED  BY <1>3, <3>1, FS_Subset
  <2> QED  BY <2>1
<1>6. rank \in Surjection(A, 0..(N - 1))
  <2>1. rank \in Injection(A, 0..(N - 1))
    <3>1. \A k, m \in A : k # m => k < m \/ m < k
      BY <1>1
    <3>2. rank \in [A -> 0..(N - 1)]
      <4> HIDE DEF Newer, A, N
      <4>1. rank = [m \in A |-> rank[m]]
        OBVIOUS
      <4> HIDE DEF rank
      <4> QED  BY <1>4, <4>1
    <3> HIDE DEF rank, A, N
    <3> QED  BY <1>5, <3>1, <3>2 DEF Injection, IsInjective
  <2>2. IsFiniteSet(0..(N - 1)) /\ Cardinality(0..(N - 1)) = N
    BY SMTT(30), <1>2, FS_Interval
  <2> HIDE DEF rank, N
  <2> QED  BY <2>1, <2>2, FS_Injection DEF N
<1>7. \A i \in 1..N : \E m \in A : rank[m] = i - 1
  <2>1. \A i \in 1..N : i - 1 \in 0..(N - 1)
    BY <1>2
  <2> HIDE DEF rank, N, A
  <2> QED  BY <1>6, <2>1 DEF Surjection
<1>8. ListMemories(d) = [i \in 1..N |-> CHOOSE m \in A : Cardinality(Newer(m)) = i - 1]
  BY DEF ListMemories
<1>9. \A i \in 1..N : ListMemories(d)[i] \in A
  BY <1>7, <1>8
<1> QED  BY <1>2, <1>8, <1>9

-----------------------------------------------------------------------------
(* The statements.                                                         *)

IsRow(row) ==
    row = [state |-> row.state, score |-> row.score, topic |-> row.topic,
           wide |-> row.wide, rate |-> row.rate]

IsDb(d) ==
    /\ d = [memories |-> d.memories, supersedes |-> d.supersedes,
            adjustments |-> d.adjustments]
    /\ d.memories = [m \in DOMAIN d.memories |-> d.memories[m]]
    /\ DOMAIN d.memories \subseteq Memory
    /\ \A m \in DOMAIN d.memories : IsRow(d.memories[m])

\* No statement activates a memory that was there.
Kept(d, e) ==
    /\ IsDb(e)
    /\ DOMAIN d.memories \subseteq DOMAIN e.memories
    /\ \A m \in DOMAIN d.memories : m \in Active(e) => m \in Active(d)

\* Nor does one that adds no memory and no relationship.
Updated(d, e) ==
    /\ Kept(d, e)
    /\ DOMAIN e.memories = DOMAIN d.memories
    /\ e.supersedes = d.supersedes

LEMMA NothingUpdated == ASSUME NEW d, IsDb(d) PROVE Updated(d, d)
  BY DEF Updated, Kept

\* One row changes, if it is there, and is not activated.
LEMMA RowUpdated ==
  ASSUME NEW d, IsDb(d), NEW m, NEW row,
         m \in DOMAIN d.memories =>
            IsRow(row) /\ row.state \in {"archived", d.memories[m].state}
  PROVE  Updated(d, [d EXCEPT !.memories[m] = row])
<1> DEFINE e == [d EXCEPT !.memories[m] = row]
<1>1. /\ e = [memories |-> e.memories, supersedes |-> e.supersedes, adjustments |-> e.adjustments]
      /\ e.memories = [d.memories EXCEPT ![m] = row]
      /\ e.supersedes = d.supersedes
  BY DEF IsDb
<1> HIDE DEF e
<1>2. /\ DOMAIN e.memories = DOMAIN d.memories
      /\ \A k \in DOMAIN d.memories : e.memories[k] = IF k = m THEN row ELSE d.memories[k]
      /\ e.memories = [k \in DOMAIN e.memories |-> e.memories[k]]
  BY <1>1 DEF IsDb
<1>3. IsDb(e)
  BY <1>1, <1>2 DEF IsDb
<1>4. \A k \in DOMAIN d.memories : k \in Active(e) => k \in Active(d)
  BY <1>2 DEF Active
<1> QED  BY <1>1, <1>2, <1>3, <1>4 DEF Updated, Kept, e

\* The columns but the flag.
LEMMA RowMarked ==
  ASSUME NEW row, IsRow(row), NEW v
  PROVE  /\ IsRow([row EXCEPT !.score = v]) /\ [row EXCEPT !.score = v].state = row.state
         /\ IsRow([row EXCEPT !.wide = v]) /\ [row EXCEPT !.wide = v].state = row.state
         /\ IsRow([row EXCEPT !.rate = v]) /\ [row EXCEPT !.rate = v].state = row.state
  BY DEF IsRow

LEMMA SoftDeleteUpdated ==
  ASSUME NEW d, IsDb(d), NEW m PROVE Updated(d, SoftDelete(d, m))
<1> DEFINE row == [d.memories[m] EXCEPT !.state = "archived"]
<1>1. m \in DOMAIN d.memories => IsRow(row) /\ row.state = "archived"
  BY DEF IsDb, IsRow
<1>2. SoftDelete(d, m) = d \/ SoftDelete(d, m) = [d EXCEPT !.memories[m] = row]
  BY DEF SoftDelete
<1> HIDE DEF row
<1> QED  BY <1>1, <1>2, RowUpdated, NothingUpdated

\* What is archived by it, or was not there, is not active.
LEMMA SoftDeleteArchives ==
  ASSUME NEW d, IsDb(d), NEW m PROVE m \notin Active(SoftDelete(d, m))
<1>1. CASE m \in DOMAIN d.memories
  <2> DEFINE row == [d.memories[m] EXCEPT !.state = "archived"]
  <2>1. row.state = "archived"
    BY <1>1 DEF IsDb, IsRow
  <2>2. SoftDelete(d, m) = [d EXCEPT !.memories[m] = row]
    BY <1>1 DEF SoftDelete, Exists
  <2> HIDE DEF row
  <2>3. SoftDelete(d, m).memories[m] = row
    BY <1>1, <2>2 DEF IsDb
  <2> QED  BY <2>1, <2>3 DEF Active
<1>2. CASE m \notin DOMAIN d.memories
  BY <1>2 DEF SoftDelete, Exists, Active
<1> QED  BY <1>1, <1>2

LEMMA TrustFieldsUpdated ==
  ASSUME NEW d, IsDb(d), NEW m, NEW s, NEW archived
  PROVE  Updated(d, UpdateTrustFields(d, m, s, archived))
<1> DEFINE row == [d.memories[m] EXCEPT !.score = s]
<1>1. m \in DOMAIN d.memories =>
        IsRow(row) /\ row.state \in {"archived", d.memories[m].state}
  BY RowMarked DEF IsDb
<1>2. UpdateTrustScore(d, m, s) = d \/ UpdateTrustScore(d, m, s) = [d EXCEPT !.memories[m] = row]
  BY DEF UpdateTrustScore
<1> HIDE DEF row
<1>3. Updated(d, UpdateTrustScore(d, m, s))
  BY <1>1, <1>2, RowUpdated, NothingUpdated
<1> QED  BY <1>3, SoftDeleteUpdated DEF UpdateTrustFields

LEMMA DecayRateUpdated ==
  ASSUME NEW d, IsDb(d), NEW m PROVE Updated(d, UpdateDecayRate(d, m))
<1> DEFINE row == [d.memories[m] EXCEPT !.rate = TRUE]
<1>1. m \in DOMAIN d.memories =>
        IsRow(row) /\ row.state \in {"archived", d.memories[m].state}
  BY RowMarked DEF IsDb
<1>2. UpdateDecayRate(d, m) = d \/ UpdateDecayRate(d, m) = [d EXCEPT !.memories[m] = row]
  BY DEF UpdateDecayRate
<1> HIDE DEF row
<1>3. Updated(d, [d EXCEPT !.memories[m] = row])
  BY <1>1, RowUpdated
<1> QED  BY <1>2, <1>3, NothingUpdated

LEMMA WideUpdated ==
  ASSUME NEW d, IsDb(d), NEW m PROVE Updated(d, AddMemory1024(d, m))
<1> DEFINE row == [d.memories[m] EXCEPT !.wide = TRUE]
<1>1. m \in DOMAIN d.memories =>
        IsRow(row) /\ row.state \in {"archived", d.memories[m].state}
  BY RowMarked DEF IsDb
<1>2. AddMemory1024(d, m) = [d EXCEPT !.memories[m] = row]
  BY DEF AddMemory1024
<1> HIDE DEF row
<1>3. Updated(d, [d EXCEPT !.memories[m] = row])
  BY <1>1, RowUpdated
<1> QED  BY <1>2, <1>3

LEMMA LogUpdated ==
  ASSUME NEW d, IsDb(d), NEW m, NEW old, NEW new
  PROVE  Updated(d, LogTrustAdjustment(d, m, old, new))
  BY DEF LogTrustAdjustment, IsDb, Updated, Kept, Active

\* A memory that was not there is added.
LEMMA MemoryStored ==
  ASSUME NEW d, IsDb(d), NEW m \in Memory, m \notin DOMAIN d.memories, NEW t
  PROVE  /\ Kept(d, StoreMemory(d, m, t))
         /\ StoreMemory(d, m, t).supersedes = d.supersedes
<1> DEFINE e == StoreMemory(d, m, t)
           row == [state |-> "active", score |-> DefaultScore,
                   topic |-> t, wide |-> FALSE, rate |-> FALSE]
<1>1. /\ e = [memories |-> e.memories, supersedes |-> e.supersedes, adjustments |-> e.adjustments]
      /\ e.memories = [i \in DOMAIN d.memories \cup {m} |-> IF i = m THEN row ELSE d.memories[i]]
      /\ e.supersedes = d.supersedes
  <2> DEFINE table == [i \in DOMAIN d.memories \cup {m} |-> IF i = m THEN row ELSE d.memories[i]]
  <2>1. e = [d EXCEPT !.memories = table]
    BY Zenon DEF StoreMemory
  <2> HIDE DEF e, table
  <2>2. /\ e = [memories |-> e.memories, supersedes |-> e.supersedes, adjustments |-> e.adjustments]
        /\ e.memories = table
        /\ e.supersedes = d.supersedes
    BY <2>1 DEF IsDb
  <2> QED  BY <2>2 DEF table
<1>2. IsRow(row)
  <2>1. ASSUME NEW a, NEW b, NEW c, NEW x, NEW y
        PROVE  IsRow([state |-> a, score |-> b, topic |-> c, wide |-> x, rate |-> y])
    BY DEF IsRow
  <2> QED  BY <2>1, Zenon
<1> HIDE DEF e, row
<1>3. IsDb(e)
  BY <1>1, <1>2 DEF IsDb
<1>4. \A k \in DOMAIN d.memories : k \in Active(e) => k \in Active(d)
  BY <1>1 DEF Active
<1> QED  BY <1>1, <1>3, <1>4 DEF Kept, e

LEMMA Related ==
  ASSUME NEW d, IsDb(d), NEW source, NEW target
  PROVE  /\ Kept(d, CreateRelationship(d, source, target))
         /\ DOMAIN CreateRelationship(d, source, target).memories = DOMAIN d.memories
         /\ CreateRelationship(d, source, target).supersedes = d.supersedes \cup {<<source, target>>}
<1> DEFINE e == CreateRelationship(d, source, target)
<1>1. /\ e = [memories |-> e.memories, supersedes |-> e.supersedes, adjustments |-> e.adjustments]
      /\ e.memories = d.memories
      /\ e.supersedes = d.supersedes \cup {<<source, target>>}
  <2> DEFINE edges == d.supersedes \cup {<<source, target>>}
  <2>1. e = [d EXCEPT !.supersedes = edges]
    BY Zenon DEF CreateRelationship
  <2> HIDE DEF e, edges
  <2>2. /\ e = [memories |-> e.memories, supersedes |-> e.supersedes, adjustments |-> e.adjustments]
        /\ e.memories = d.memories
        /\ e.supersedes = edges
    BY <2>1 DEF IsDb
  <2> QED  BY <2>2 DEF edges
<1> HIDE DEF e
<1>2. IsDb(e) /\ Active(e) = Active(d)
  BY <1>1 DEF IsDb, Active
<1> QED  BY <1>1, <1>2 DEF Kept, e

-----------------------------------------------------------------------------
(* The invariant.                                                          *)

IsList(list, d) ==
    \E n \in Nat : DOMAIN list = 1..n /\ \A i \in 1..n : list[i].m \in DOMAIN d.memories

\* What a request holds: a new memory is not there yet, the list to merge is of
\* memories, and what is about to be superseded is archived.
RequestKept(r, d) ==
    /\ r.op = "adjust"  => r = [op |-> "adjust", m |-> r.m, old |-> r.old, new |-> r.new,
                                archived |-> r.archived]
    /\ r.op = "elevate" => r = [op |-> "elevate", m |-> r.m, old |-> r.old, boost |-> r.boost]
    /\ r.op = "add"     => r.m \in Memory /\ r.m \notin DOMAIN d.memories
    /\ r.op = "merge"   => r = [op |-> "merge", list |-> r.list, seen |-> r.seen, at |-> r.at]
    /\ r.op \in {"merge", "relate"} => IsList(r.list, d) /\ r.at \in Pairs(r.list)
    /\ r.op = "relate"  => LowerOf(r.list, r.at) \notin Active(d)

TrustInv ==
    /\ IsDb(db)
    /\ \A e \in db.supersedes : e[2] \in DOMAIN db.memories /\ e[2] \notin Active(db)
    /\ RequestKept(request, db)

LEMMA OtherRequest ==
  ASSUME NEW r, r.op \notin {"adjust", "elevate", "add", "merge", "relate"}, NEW d
  PROVE  RequestKept(r, d)
  BY DEF RequestKept

\* What a request holds is not upset by a statement of the scheduler.
LEMMA RequestStays ==
  ASSUME NEW r, NEW d, RequestKept(r, d), NEW e, Updated(d, e)
  PROVE  RequestKept(r, e)
<1>1. r.op \in {"merge", "relate"} => IsList(r.list, e)
  BY DEF RequestKept, IsList, Updated
<1>2. \A m : m \in Active(e) => m \in Active(d)
  BY DEF Updated, Kept, Active
<1> QED  BY <1>1, <1>2 DEF RequestKept, Updated

LEMMA InvAfter ==
  ASSUME TrustInv, Kept(db, db'), db'.supersedes = db.supersedes, RequestKept(request', db')
  PROVE  TrustInv'
<1>1. IsDb(db)'
  BY DEF Kept
<1>2. RequestKept(request, db)'
  OBVIOUS
<1>3. \A e \in db'.supersedes : e[2] \in DOMAIN db'.memories /\ e[2] \notin Active(db')
  BY DEF TrustInv, Kept
<1> QED  BY <1>1, <1>2, <1>3 DEF TrustInv

LEMMA TakeKeeps ==
  ASSUME TrustInv, NEW next, RequestKept(next, db), Take(next)
  PROVE  Kept(db, db') /\ TrustInv'
<1>1. db' = db /\ request' = next
  BY DEF Take
<1>2. Kept(db, db)
  BY NothingUpdated DEF TrustInv, Updated
<1> QED  BY <1>1, <1>2, InvAfter

LEMMA ServeKeeps ==
  ASSUME TrustInv, NEW op, NEW after, NEW next, Serve(op, after, next),
         Updated(db, after), RequestKept(next, after)
  PROVE  Kept(db, db') /\ TrustInv'
<1>1. db' = after /\ request' = next
  BY DEF Serve
<1> QED  BY <1>1, InvAfter DEF Updated

LEMMA ExecuteKeeps ==
  ASSUME TrustInv, NEW after, Execute(after), Updated(db, after)
  PROVE  Kept(db, db') /\ TrustInv'
<1>1. db' = after /\ request' = request
  BY DEF Execute
<1>2. RequestKept(request', db')
  BY <1>1, RequestStays DEF TrustInv
<1> QED  BY <1>1, <1>2, InvAfter DEF Updated

LEMMA ScheduleKeeps ==
  ASSUME TrustInv, NEW after, NEW next, Schedule(after, next), Updated(db, after)
  PROVE  Kept(db, db') /\ TrustInv'
<1>1. db' = after /\ request' = request
  BY DEF Schedule
<1>2. RequestKept(request', db')
  BY <1>1, RequestStays DEF TrustInv
<1> QED  BY <1>1, <1>2, InvAfter DEF Updated

-----------------------------------------------------------------------------
(* Consolidation.                                                          *)

LEMMA PairFacts ==
  ASSUME NEW d, NEW list, IsList(list, d), NEW p \in Pairs(list)
  PROVE  LowerOf(list, p) \in DOMAIN d.memories
  BY DEF IsList, Pairs, LowerOf

LEMMA ContinueKept ==
  ASSUME NEW d, NEW list, IsList(list, d), NEW seen, NEW at
  PROVE  RequestKept(Continue(list, seen, at), d)
<1> DEFINE left == {p \in Pairs(list) : Earlier(at, p) /\ Mergeable(list, seen, p)}
           first == CHOOSE p \in left : \A q \in left \ {p} : Earlier(p, q)
           next == [op |-> "merge", list |-> list, seen |-> seen, at |-> first]
<1>1. Continue(list, seen, at) = IF left = {} THEN Idle ELSE next
  BY DEF Continue
<1>2. CASE left = {}
  BY <1>1, <1>2, OtherRequest DEF Idle
<1>3. CASE left # {}
  <2>1. PICK n \in Nat : DOMAIN list = 1..n
    BY DEF IsList
  <2>2. left \subseteq (1..n) \X (1..n)
    BY <2>1 DEF Pairs
  <2>3. left \subseteq Pairs(list)
    OBVIOUS
  <2> HIDE DEF left
  <2>4. first \in left
    BY <1>3, <2>1, <2>2, FirstPair
  <2> HIDE DEF first
  <2>5. RequestKept(next, d)
    BY <2>3, <2>4 DEF RequestKept
  <2> QED  BY <1>1, <1>3, <2>5
<1> QED  BY <1>2, <1>3

LEMMA ConsolidateKeeps ==
  ASSUME TrustInv, NEW force, Consolidate(force)
  PROVE  Kept(db, db') /\ TrustInv'
<1> DEFINE ids == ListMemories(db)
           list == [i \in DOMAIN ids |-> [m     |-> ids[i],
                                          score |-> db.memories[ids[i]].score,
                                          topic |-> db.memories[ids[i]].topic]]
           next == IF force \/ Len(list) >= 2 THEN Continue(list, {}, <<0, 0>>) ELSE Idle
<1>1. Take(next)
  BY DEF Consolidate
<1>2. IsList(list, db)
  <2>1. /\ Cardinality(Active(db)) \in Nat
        /\ DOMAIN ids = 1..Cardinality(Active(db))
        /\ \A i \in DOMAIN ids : ids[i] \in Active(db)
    BY ListedAreActive DEF TrustInv, IsDb
  <2> HIDE DEF ids
  <2>2. \A i \in DOMAIN ids : list[i].m = ids[i]
    OBVIOUS
  <2>3. DOMAIN list = DOMAIN ids
    OBVIOUS
  <2> HIDE DEF list
  <2> QED  BY <2>1, <2>2, <2>3 DEF IsList, Active
<1>3. RequestKept(next, db)
  <2> HIDE DEF list
  <2>1. RequestKept(Continue(list, {}, <<0, 0>>), db) /\ RequestKept(Idle, db)
    BY <1>2, ContinueKept, OtherRequest DEF Idle
  <2> QED  BY <2>1
<1> HIDE DEF next
<1> QED  BY <1>1, <1>3, TakeKeeps

\* The first statement archives the lower of the pair, or the pair is given up.
LEMMA MergeArchiveKeeps ==
  ASSUME TrustInv, MergeArchive
  PROVE  Kept(db, db') /\ TrustInv'
<1> DEFINE lower == LowerOf(request.list, request.at)
           next == [request EXCEPT !.op = "relate"]
           on == Continue(request.list, request.seen, request.at)
<1>1. request.op = "merge" /\ IsList(request.list, db) /\ request.at \in Pairs(request.list)
  BY DEF MergeArchive, TrustInv, RequestKept
<1>2. CASE Serve("merge", UpdateTrustFields(db, lower, 0, TRUE), next)
  <2>1. UpdateTrustFields(db, lower, 0, TRUE) = SoftDelete(db, lower)
    BY DEF UpdateTrustFields
  <2>2. Updated(db, SoftDelete(db, lower)) /\ lower \notin Active(SoftDelete(db, lower))
    BY SoftDeleteUpdated, SoftDeleteArchives DEF TrustInv
  <2>3. next.op = "relate" /\ next.list = request.list /\ next.at = request.at
    BY <1>1 DEF TrustInv, RequestKept
  <2> HIDE DEF next
  <2>4. IsList(next.list, SoftDelete(db, lower))
    BY <1>1, <2>2, <2>3 DEF IsList, Updated
  <2>5. RequestKept(next, SoftDelete(db, lower))
    BY <1>1, <2>2, <2>3, <2>4 DEF RequestKept
  <2> QED  BY <1>2, <2>1, <2>2, <2>5, ServeKeeps
<1>3. CASE Serve("merge", db, on)
  <2>1. RequestKept(on, db) /\ Updated(db, db)
    BY <1>1, ContinueKept, NothingUpdated DEF TrustInv
  <2> HIDE DEF on
  <2> QED  BY <1>3, <2>1, ServeKeeps
<1> QED  BY <1>2, <1>3 DEF MergeArchive

\* The second records it as superseded.
LEMMA MergeRelateKeeps ==
  ASSUME TrustInv, MergeRelate
  PROVE  Kept(db, db') /\ TrustInv'
<1> DEFINE list == request.list
           lower == LowerOf(list, request.at)
           higher == HigherOf(list, request.at)
           after == CreateRelationship(db, higher, lower)
           marked == Continue(list, request.seen \cup {list[request.at[2]].m}, request.at)
           on == Continue(list, request.seen, request.at)
<1>1. IsList(list, db) /\ request.at \in Pairs(list) /\ lower \notin Active(db)
  BY DEF MergeRelate, TrustInv, RequestKept
<1>2. lower \in DOMAIN db.memories
  BY <1>1, PairFacts
<1>3. CASE Serve("relate", after, marked)
  <2>1. db' = after /\ request' = marked
    BY <1>3 DEF Serve
  <2>2. /\ Kept(db, after) /\ DOMAIN after.memories = DOMAIN db.memories
        /\ after.supersedes = db.supersedes \cup {<<higher, lower>>}
    BY Related DEF TrustInv
  <2>3. IsList(list, after)
    BY <1>1, <2>2 DEF IsList
  <2>4. RequestKept(marked, after)
    BY <2>3, ContinueKept
  <2> HIDE DEF after, marked, lower, higher, list
  <2>5. Active(after) \subseteq Active(db)
    BY <2>2 DEF Kept, Active
  <2>6. \A e \in after.supersedes : e[2] \in DOMAIN after.memories /\ e[2] \notin Active(after)
    BY <1>1, <1>2, <2>2, <2>5 DEF TrustInv
  <2>7. TrustInv'
    BY <2>1, <2>2, <2>4, <2>6 DEF TrustInv, Kept
  <2> QED  BY <2>1, <2>2, <2>7
<1>4. CASE Serve("relate", db, on)
  <2>1. RequestKept(on, db) /\ Updated(db, db)
    BY <1>1, ContinueKept, NothingUpdated DEF TrustInv
  <2> HIDE DEF on
  <2> QED  BY <1>4, <2>1, ServeKeeps
<1> QED  BY <1>3, <1>4 DEF MergeRelate

-----------------------------------------------------------------------------
(* The actions.                                                            *)

LEMMA AskKeeps ==
  ASSUME TrustInv, NEW next, Take(next),
         next.op \notin {"adjust", "elevate", "add", "merge", "relate"}
  PROVE  Kept(db, db') /\ TrustInv'
<1>1. RequestKept(next, db)
  BY OtherRequest
<1> QED  BY <1>1, TakeKeeps

LEMMA RefusedKeeps ==
  ASSUME TrustInv, Refused
  PROVE  Kept(db, db') /\ TrustInv'
  BY AskKeeps DEF Refused, Idle

LEMMA ReplyKeeps ==
  ASSUME TrustInv, NEW kind, NEW with, Take(Reply(kind, with))
  PROVE  Kept(db, db') /\ TrustInv'
<1>1. Reply(kind, with).op = "reply"
  BY DEF Reply
<1> QED  BY <1>1, AskKeeps

LEMMA AnswerKeeps ==
  ASSUME TrustInv, NEW op, NEW after, NEW next, Serve(op, after, next), Updated(db, after),
         next.op \notin {"adjust", "elevate", "add", "merge", "relate"}
  PROVE  Kept(db, db') /\ TrustInv'
<1>1. RequestKept(next, after)
  BY OtherRequest
<1> QED  BY <1>1, ServeKeeps

LEMMA GiveUpKeeps ==
  ASSUME TrustInv, NEW op, Serve(op, db, Idle)
  PROVE  Kept(db, db') /\ TrustInv'
  BY AnswerKeeps, NothingUpdated DEF Idle, TrustInv

\* The requests that write.
LEMMA RequestsKeep ==
  ASSUME TrustInv, NEW m \in Memory
  PROVE  /\ \A t : AddMemory(t) => Kept(db, db') /\ TrustInv'
         /\ DeleteMemory(m) \/ AdjustDecayRate(m) => Kept(db, db') /\ TrustInv'
         /\ AdjustTrust(m) => Kept(db, db') /\ TrustInv'
         /\ ChallengeMemory(m) => Kept(db, db') /\ TrustInv'
         /\ \A boost : ElevateMemory(m, boost) => Kept(db, db') /\ TrustInv'
<1>1. ASSUME NEW t, AddMemory(t)  PROVE Kept(db, db') /\ TrustInv'
  <2>1. PICK new \in Memory : /\ \A k \in DOMAIN db.memories : k < new
                              /\ Take([op |-> "add", m |-> new, topic |-> t])
    BY <1>1 DEF AddMemory
  <2>2. new \notin DOMAIN db.memories
    BY <2>1, MemoryAssumption DEF TrustInv, IsDb
  <2>3. RequestKept([op |-> "add", m |-> new, topic |-> t], db)
    BY <2>2 DEF RequestKept
  <2> QED  BY <2>1, <2>3, TakeKeeps
<1>2. ASSUME DeleteMemory(m) \/ AdjustDecayRate(m)  PROVE Kept(db, db') /\ TrustInv'
  BY <1>2, SoftDeleteUpdated, DecayRateUpdated, ExecuteKeeps
  DEF DeleteMemory, AdjustDecayRate, TrustInv
<1>3. ASSUME AdjustTrust(m)  PROVE Kept(db, db') /\ TrustInv'
  <2>1. ASSUME NEW old, NEW new, NEW archived
        PROVE  RequestKept([op |-> "adjust", m |-> m, old |-> old, new |-> new,
                            archived |-> archived], db)
    BY DEF RequestKept
  <2>2. PICK old, new, archived : Take([op |-> "adjust", m |-> m, old |-> old, new |-> new,
                                        archived |-> archived])
    BY <1>3, Zenon DEF AdjustTrust
  <2> QED  BY <2>1, <2>2, TakeKeeps
<1>4. ASSUME ChallengeMemory(m)  PROVE Kept(db, db') /\ TrustInv'
  <2>1. PICK old, archived : Take([op |-> "challenge", m |-> m, old |-> old, archived |-> archived])
    BY <1>4, Zenon DEF ChallengeMemory
  <2> QED  BY <2>1, AskKeeps
<1>5. ASSUME NEW boost, ElevateMemory(m, boost)  PROVE Kept(db, db') /\ TrustInv'
  <2>1. PICK old : Take([op |-> "elevate", m |-> m, old |-> old, boost |-> boost])
    BY <1>5, Zenon DEF ElevateMemory
  <2>2. RequestKept([op |-> "elevate", m |-> m, old |-> old, boost |-> boost], db)
    BY DEF RequestKept
  <2> QED  BY <2>1, <2>2, TakeKeeps
<1> QED  BY <1>1, <1>2, <1>3, <1>4, <1>5

LEMMA RequestKeeps ==
  ASSUME TrustInv, Request
  PROVE  Kept(db, db') /\ TrustInv'
<1>1. CASE \/ handleMemoryAdd \/ handleMemoryDelete \/ handleMemoryAdjustTrust
           \/ handleMemoryAdjustDecayRate \/ handleMemoryTriggerConsolidation
           \/ handleMemoryChallengeMemory \/ handleMemoryElevateMemoryTo1024
  <2>1. CASE Refused
    BY <2>1, RefusedKeeps
  <2>2. CASE \E t \in Topic : AddMemory(t)
    <3>1. \E m : m \in Memory
      BY <2>2 DEF AddMemory
    <3> QED  BY <2>2, <3>1, RequestsKeep
  <2>3. CASE \E force \in BOOLEAN : Consolidate(force)
    BY <2>3, ConsolidateKeeps
  <2>4. CASE \E m \in Memory : \/ DeleteMemory(m) \/ AdjustTrust(m) \/ AdjustDecayRate(m)
                              \/ ChallengeMemory(m) \/ \E boost \in Boosts : ElevateMemory(m, boost)
    BY <2>4, RequestsKeep
  <2> QED  BY <1>1, <2>1, <2>2, <2>3, <2>4
           DEF handleMemoryAdd, handleMemoryDelete, handleMemoryAdjustTrust,
               handleMemoryAdjustDecayRate, handleMemoryTriggerConsolidation,
               handleMemoryChallengeMemory, handleMemoryElevateMemoryTo1024
<1>2. CASE \/ handleMemoryGet \/ handleMemoryCount \/ handleMemoryGetTrustScore
           \/ handleMemoryListArchived \/ handleMemoryGetDecayStatus
           \/ handleMemoryListFadingMemories \/ handleMemoryQueryBySourceType
           \/ handleMemoryGetStatus \/ handleMemoryGetRelationshipSummary
           \/ handleMemoryFindContradictions \/ handleMemoryResolveContradiction
           \/ handleMemoryGetDialecticHistory
  <2>1. Refused \/ \E kind, with : Take(Reply(kind, with))
    BY <1>2, Zenon
    DEF handleMemoryGet, handleMemoryCount, handleMemoryGetTrustScore,
        handleMemoryListArchived, handleMemoryGetDecayStatus,
        handleMemoryListFadingMemories, handleMemoryQueryBySourceType,
        handleMemoryGetStatus, handleMemoryGetRelationshipSummary,
        handleMemoryFindContradictions, handleMemoryResolveContradiction,
        handleMemoryGetDialecticHistory
  <2> QED  BY <2>1, RefusedKeeps, ReplyKeeps
<1> QED  BY <1>1, <1>2 DEF Request

LEMMA StatementKeeps ==
  ASSUME TrustInv, Statement
  PROVE  Kept(db, db') /\ TrustInv'
<1>0. IsDb(db) /\ Updated(db, db) /\ RequestKept(request, db)
  BY NothingUpdated DEF TrustInv
<1>1. CASE \E op : Serve(op, db, Idle)
  BY <1>1, GiveUpKeeps
<1>2. CASE Serve("adjust", UpdateTrustFields(db, request.m, request.new, request.archived),
                 [request EXCEPT !.op = "log"])
  <2>1. request.op = "adjust"
    BY <1>2 DEF Serve
  <2>2. [request EXCEPT !.op = "log"].op = "log"
    BY <1>0, <2>1 DEF RequestKept
  <2> QED  BY <1>0, <1>2, <2>2, TrustFieldsUpdated, AnswerKeeps
<1>3. CASE Serve("log", LogTrustAdjustment(db, request.m, request.old, request.new),
                 Reply("adjusted", <<request.old, request.new>>))
  <2>1. Reply("adjusted", <<request.old, request.new>>).op = "reply"
    BY DEF Reply
  <2> QED  BY <1>0, <1>3, <2>1, LogUpdated, AnswerKeeps
<1>4. CASE \E m, s, archived : \/ Serve("challenge", UpdateTrustFields(db, m, s, archived), Idle)
                              \/ Serve("boost", UpdateTrustFields(db, m, s, archived), Idle)
  BY <1>0, <1>4, TrustFieldsUpdated, AnswerKeeps DEF Idle
<1>5. CASE Serve("elevate", AddMemory1024(db, request.m), [request EXCEPT !.op = "boost"])
  <2>1. request.op = "elevate"
    BY <1>5 DEF Serve
  <2>2. [request EXCEPT !.op = "boost"].op = "boost"
    BY <1>0, <2>1 DEF RequestKept
  <2> QED  BY <1>0, <1>5, <2>2, WideUpdated, AnswerKeeps
<1>6. ASSUME NEW next, next.op \in {"sidecar", "idle"},
             Serve("add", StoreMemory(db, request.m, request.topic), next)
      PROVE  Kept(db, db') /\ TrustInv'
  <2>1. request.m \in Memory /\ request.m \notin DOMAIN db.memories
    BY <1>0, <1>6 DEF Serve, RequestKept
  <2>2. db' = StoreMemory(db, request.m, request.topic) /\ request' = next
    BY <1>6 DEF Serve
  <2>3. RequestKept(next, db')
    BY <1>6, OtherRequest
  <2> QED  BY <1>0, <2>1, <2>2, <2>3, MemoryStored, InvAfter
<1>7. CASE Serve("sidecar", AddMemory1024(db, request.m), Idle)
  BY <1>0, <1>7, WideUpdated, AnswerKeeps DEF Idle
<1>8. CASE MergeArchive \/ MergeRelate
  BY <1>8, MergeArchiveKeeps, MergeRelateKeeps
<1>9. CASE AdjustTrustUpdate
  BY <1>1, <1>2, <1>9 DEF AdjustTrustUpdate
<1>10. CASE AdjustTrustLog
  BY <1>1, <1>3, <1>10 DEF AdjustTrustLog
<1>11. CASE ElevateInsert
  BY <1>1, <1>5, <1>11 DEF ElevateInsert
<1>12. CASE AddInsert
  <2> DEFINE next == IF AutoMode THEN [op |-> "sidecar", m |-> request.m] ELSE Idle
  <2>1. \/ Serve("add", StoreMemory(db, request.m, request.topic), next)
        \/ Serve("add", db, Idle)
    BY <1>12 DEF AddInsert
  <2>2. next.op \in {"sidecar", "idle"}
    BY DEF Idle
  <2> HIDE DEF next
  <2> QED  BY <1>1, <1>6, <2>1, <2>2
<1>13. CASE AddSidecar \/ WriteResponse
  BY <1>1, <1>7, <1>13 DEF AddSidecar, WriteResponse
<1>14. CASE ChallengeAnswer \/ ElevateTrust
  <2>1. \/ \E op : Serve(op, db, Idle)
        \/ \E m, s, archived : \/ Serve("challenge", UpdateTrustFields(db, m, s, archived), Idle)
                               \/ Serve("boost", UpdateTrustFields(db, m, s, archived), Idle)
    BY <1>14, Zenon DEF ChallengeAnswer, ElevateTrust
  <2> QED  BY <1>1, <1>4, <2>1
<1> QED  BY <1>8, <1>9, <1>10, <1>11, <1>12, <1>13, <1>14 DEF Statement

LEMMA SchedulerKeeps ==
  ASSUME TrustInv, Scheduler
  PROVE  Kept(db, db') /\ TrustInv'
<1>1. \/ \E next : Schedule(db, next)
      \/ \E m, s, archived, next : Schedule(UpdateTrustFields(db, m, s, archived), next)
  BY Zenon DEF Scheduler, Tick, TickFails, DecayRead, DecayWrite, SchedulerReturns
<1>2. IsDb(db) /\ Updated(db, db)
  BY NothingUpdated DEF TrustInv
<1> QED  BY <1>1, <1>2, TrustFieldsUpdated, ScheduleKeeps

LEMMA TrustStepKeeps ==
  ASSUME TrustInv, [TrustNext]_trustVars
  PROVE  Kept(db, db') /\ TrustInv'
<1>1. CASE UNCHANGED <<db, request>>
  <2>1. Kept(db, db') /\ db'.supersedes = db.supersedes /\ RequestKept(request', db')
    BY <1>1, NothingUpdated DEF TrustInv, Updated
  <2> QED  BY <2>1, InvAfter
<1>2. CASE Signal \/ Exit \/ UNCHANGED trustVars
  BY <1>1, <1>2 DEF Signal, Exit, trustVars
<1> QED  BY <1>2, RequestKeeps, StatementKeeps, SchedulerKeeps DEF TrustNext

\* The new memories are new, what is merged is there, what is superseded is archived.
THEOREM TrustInductive == TrustSpec => []TrustInv
<1>1. TrustInit => TrustInv
  <2> SUFFICES ASSUME TrustInit  PROVE TrustInv
    OBVIOUS
  <2>1. \A row \in Row : IsRow(row)
    BY DEF Row, IsRow
  <2>2. IsDb(db)
    BY <2>1, RowsAssumption DEF TrustInit, IsDb
  <2>3. RequestKept(request, db)
    BY OtherRequest DEF TrustInit, Idle
  <2> QED  BY <2>2, <2>3 DEF TrustInit, TrustInv
<1>2. TrustInv /\ [TrustNext]_trustVars => TrustInv'
  BY TrustStepKeeps
<1> QED  BY <1>1, <1>2, PTL DEF TrustSpec

\* A memory that has been archived stays archived, whatever a request or the decay
\* scheduler read of it before (audit_trust.go:158, trust/engine.go:78).
THEOREM ArchivedForGood == TrustSpec => ArchivedStays
<1>1. TrustInv /\ [TrustNext]_trustVars =>
        [\A m \in DOMAIN db.memories :
           m \notin Active(db) => m \in DOMAIN db'.memories /\ m \notin Active(db')]_trustVars
  BY TrustStepKeeps DEF Kept
<1> QED  BY <1>1, TrustInductive, PTL DEF TrustSpec, ArchivedStays

\* No memory is recorded as superseded while it is still served: the relationship
\* is written only after the memory is archived (consolidate.go:118).
THEOREM SupersededAlwaysArchived == TrustSpec => []SupersededIsArchived
<1>1. TrustInv => SupersededIsArchived
  BY DEF TrustInv, SupersededIsArchived
<1> QED  BY <1>1, TrustInductive, PTL

-----------------------------------------------------------------------------
(* The types of the tables and of the requests, of the timer and of the    *)
(* shutdown: a score on its way to a row is held, or checked, between.     *)

TablesTyped(d) ==
    /\ \A m \in DOMAIN d.memories : d.memories[m] \in Row
    /\ d.supersedes \subseteq (DOMAIN d.memories) \X (DOMAIN d.memories)

\* A score that is held to be written is one the CHECK of the table lets in, or it is
\* checked before it is.
HeldTyped(r) ==
    /\ r.op \in {"idle", "adjust", "log", "challenge", "elevate", "boost",
                 "add", "sidecar", "merge", "relate", "reply"}
    /\ r.op = "adjust" => r.new \in 0..Top
    /\ r.op \in {"challenge", "elevate", "boost"} => r.old \in 0..Top
    /\ r.op \in {"elevate", "boost"} => r.boost \in Boosts
    /\ r.op = "add" => r.topic \in Topic

DecayTyped(v) ==
    /\ v.op \in {"wait", "read", "write", "returned"}
    /\ v.op = "write" => v.new \in 0..Top

TrustTyped ==
    /\ TablesTyped(db)
    /\ HeldTyped(request)
    /\ DecayTyped(decay)
    /\ asked \in 0..MaxRequests
    /\ ticks \in 0..MaxTicks
    /\ shutdown \in {"running", "closing", "exited"}

LEMMA HeldSimply ==
  ASSUME NEW r, r.op \in {"idle", "log", "sidecar", "merge", "relate", "reply"}
  PROVE  HeldTyped(r)
  BY DEF HeldTyped

\* The score a writer computes.
LEMMA ScoreFacts ==
  ASSUME NEW s \in 0..Top, NEW n \in Nat
  PROVE  Raised(s, n) \in 0..Top /\ Lowered(s, n) \in 0..Top
  BY DEF Raised, Lowered, Top

LEMMA DecayedTyped ==
  ASSUME NEW s \in 0..Top, NEW new \in Decayed(s)
  PROVE  new \in 0..Top
  BY DEF Decayed, Top

LEMMA RowColumns ==
  ASSUME NEW row \in Row
  PROVE  /\ row.score \in 0..Top
         /\ [row EXCEPT !.state = "archived"] \in Row
         /\ [row EXCEPT !.wide = TRUE] \in Row
         /\ [row EXCEPT !.rate = TRUE] \in Row
         /\ \A s \in 0..Top : [row EXCEPT !.score = s] \in Row
  BY DEF Row

LEMMA RowTyped ==
  ASSUME NEW d, IsDb(d), TablesTyped(d), NEW m, NEW row, m \in DOMAIN d.memories => row \in Row
  PROVE  TablesTyped([d EXCEPT !.memories[m] = row])
<1> DEFINE e == [d EXCEPT !.memories[m] = row]
<1>1. /\ e.memories = [d.memories EXCEPT ![m] = row]
      /\ e.supersedes = d.supersedes
  BY DEF IsDb
<1> HIDE DEF e
<1>2. /\ DOMAIN e.memories = DOMAIN d.memories
      /\ \A k \in DOMAIN d.memories : e.memories[k] = IF k = m THEN row ELSE d.memories[k]
  BY <1>1 DEF IsDb
<1>3. TablesTyped(e)
  BY <1>1, <1>2 DEF TablesTyped
<1> QED  BY <1>3 DEF e

\* The statements that write one row.
LEMMA SoftDeleteTyped ==
  ASSUME NEW d, IsDb(d), TablesTyped(d), NEW m
  PROVE  TablesTyped(SoftDelete(d, m))
<1> DEFINE row == [d.memories[m] EXCEPT !.state = "archived"]
<1>1. m \in DOMAIN d.memories => row \in Row
  BY RowColumns DEF TablesTyped
<1>2. SoftDelete(d, m) = d \/ SoftDelete(d, m) = [d EXCEPT !.memories[m] = row]
  BY DEF SoftDelete
<1> HIDE DEF row
<1>3. TablesTyped([d EXCEPT !.memories[m] = row])
  BY <1>1, RowTyped
<1> QED  BY <1>2, <1>3

LEMMA TrustFieldsTyped ==
  ASSUME NEW d, IsDb(d), TablesTyped(d), NEW m, NEW s \in 0..Top, NEW archived
  PROVE  TablesTyped(UpdateTrustFields(d, m, s, archived))
<1> DEFINE row == [d.memories[m] EXCEPT !.score = s]
<1>1. m \in DOMAIN d.memories => row \in Row
  BY RowColumns DEF TablesTyped
<1>2. UpdateTrustScore(d, m, s) = d \/ UpdateTrustScore(d, m, s) = [d EXCEPT !.memories[m] = row]
  BY DEF UpdateTrustScore
<1> HIDE DEF row
<1>3. TablesTyped(UpdateTrustScore(d, m, s))
  BY <1>1, <1>2, RowTyped
<1> QED  BY <1>3, SoftDeleteTyped DEF UpdateTrustFields

LEMMA DecayRateTyped ==
  ASSUME NEW d, IsDb(d), TablesTyped(d), NEW m
  PROVE  TablesTyped(UpdateDecayRate(d, m))
<1> DEFINE row == [d.memories[m] EXCEPT !.rate = TRUE]
<1>1. m \in DOMAIN d.memories => row \in Row
  BY RowColumns DEF TablesTyped
<1>2. UpdateDecayRate(d, m) = d \/ UpdateDecayRate(d, m) = [d EXCEPT !.memories[m] = row]
  BY DEF UpdateDecayRate
<1> HIDE DEF row
<1>3. TablesTyped([d EXCEPT !.memories[m] = row])
  BY <1>1, RowTyped
<1> QED  BY <1>2, <1>3

LEMMA WideTyped ==
  ASSUME NEW d, IsDb(d), TablesTyped(d), NEW m
  PROVE  TablesTyped(AddMemory1024(d, m))
<1> DEFINE row == [d.memories[m] EXCEPT !.wide = TRUE]
<1>1. m \in DOMAIN d.memories => row \in Row
  BY RowColumns DEF TablesTyped
<1>2. AddMemory1024(d, m) = [d EXCEPT !.memories[m] = row]
  BY DEF AddMemory1024
<1> HIDE DEF row
<1>3. TablesTyped([d EXCEPT !.memories[m] = row])
  BY <1>1, RowTyped
<1> QED  BY <1>2, <1>3

LEMMA LogTyped ==
  ASSUME NEW d, IsDb(d), TablesTyped(d), NEW m, NEW old, NEW new
  PROVE  TablesTyped(LogTrustAdjustment(d, m, old, new))
  BY DEF LogTrustAdjustment, IsDb, TablesTyped

LEMMA StoredTyped ==
  ASSUME NEW d, IsDb(d), TablesTyped(d), NEW m, NEW t \in Topic
  PROVE  TablesTyped(StoreMemory(d, m, t))
<1> DEFINE row == [state |-> "active", score |-> DefaultScore,
                   topic |-> t, wide |-> FALSE, rate |-> FALSE]
           table == [i \in DOMAIN d.memories \cup {m} |-> IF i = m THEN row ELSE d.memories[i]]
           e == StoreMemory(d, m, t)
<1>1. row \in Row
  BY DEF Row, DefaultScore, Top
<1>2. e = [d EXCEPT !.memories = table]
  BY Zenon DEF StoreMemory
<1> HIDE DEF e, row
<1>3. /\ DOMAIN table = DOMAIN d.memories \cup {m}
      /\ \A i \in DOMAIN table : table[i] \in Row
  BY <1>1 DEF TablesTyped
<1> HIDE DEF table
<1>4. e.memories = table /\ e.supersedes = d.supersedes
  BY <1>2 DEF IsDb
<1>5. TablesTyped(e)
  BY <1>3, <1>4 DEF TablesTyped
<1> QED  BY <1>5 DEF e

LEMMA RelatedTyped ==
  ASSUME NEW d, IsDb(d), TablesTyped(d),
         NEW source \in DOMAIN d.memories, NEW target \in DOMAIN d.memories
  PROVE  TablesTyped(CreateRelationship(d, source, target))
<1> DEFINE e == CreateRelationship(d, source, target)
           edges == d.supersedes \cup {<<source, target>>}
<1>1. e = [d EXCEPT !.supersedes = edges]
  BY Zenon DEF CreateRelationship
<1> HIDE DEF e, edges
<1>2. e.memories = d.memories /\ e.supersedes = edges
  BY <1>1 DEF IsDb
<1>3. TablesTyped(e)
  BY <1>2 DEF TablesTyped, edges
<1> QED  BY <1>3 DEF e

-----------------------------------------------------------------------------

LEMMA TakeTyped ==
  ASSUME TrustTyped, NEW next, HeldTyped(next), Take(next)
  PROVE  TrustTyped'
<1>1. /\ asked' = asked + 1 /\ asked < MaxRequests /\ request' = next
      /\ UNCHANGED <<db, decay, ticks, shutdown>>
  BY DEF Take
<1>2. TablesTyped(db)' /\ DecayTyped(decay)' /\ HeldTyped(request)'
  BY <1>1 DEF TrustTyped, TablesTyped, DecayTyped
<1> QED  BY <1>1, <1>2, TrustBoundsAssumption DEF TrustTyped

LEMMA ServeTyped ==
  ASSUME TrustTyped, NEW op, NEW after, NEW next, Serve(op, after, next),
         TablesTyped(after), HeldTyped(next)
  PROVE  TrustTyped'
<1>1. db' = after /\ request' = next /\ UNCHANGED <<asked, decay, ticks, shutdown>>
  BY DEF Serve
<1>2. TablesTyped(db)' /\ DecayTyped(decay)' /\ HeldTyped(request)'
  BY <1>1 DEF TrustTyped, DecayTyped
<1> QED  BY <1>1, <1>2 DEF TrustTyped

LEMMA ExecuteTyped ==
  ASSUME TrustTyped, NEW after, Execute(after), TablesTyped(after)
  PROVE  TrustTyped'
<1>1. /\ asked' = asked + 1 /\ asked < MaxRequests /\ db' = after
      /\ UNCHANGED <<request, decay, ticks, shutdown>>
  BY DEF Execute
<1>2. TablesTyped(db)' /\ DecayTyped(decay)' /\ HeldTyped(request)'
  BY <1>1 DEF TrustTyped, DecayTyped, HeldTyped
<1> QED  BY <1>1, <1>2, TrustBoundsAssumption DEF TrustTyped

LEMMA ScheduleTyped ==
  ASSUME TrustTyped, NEW after, NEW next, Schedule(after, next),
         TablesTyped(after), DecayTyped(next), ticks' \in 0..MaxTicks
  PROVE  TrustTyped'
<1>1. db' = after /\ decay' = next /\ UNCHANGED <<request, asked, shutdown>>
  BY DEF Schedule
<1>2. TablesTyped(db)' /\ DecayTyped(decay)' /\ HeldTyped(request)'
  BY <1>1 DEF TrustTyped, HeldTyped
<1> QED  BY <1>1, <1>2 DEF TrustTyped

LEMMA ContinueTyped ==
  ASSUME NEW list, NEW seen, NEW at
  PROVE  HeldTyped(Continue(list, seen, at))
<1>1. Continue(list, seen, at).op \in {"idle", "merge"}
  BY DEF Continue, Idle
<1> QED  BY <1>1, HeldSimply

LEMMA RequestsTyped ==
  ASSUME TrustInv, TrustTyped, Request
  PROVE  TrustTyped'
<1>0. /\ IsDb(db) /\ TablesTyped(db)
      /\ \A m \in DOMAIN db.memories : db.memories[m].score \in 0..Top
  BY RowColumns DEF TrustInv, TrustTyped, TablesTyped
<1>1. HeldTyped(Idle) /\ \A kind, with : HeldTyped(Reply(kind, with))
  BY HeldSimply DEF Idle, Reply
<1>2. CASE Refused
  BY <1>1, <1>2, TakeTyped DEF Refused
<1>3. CASE \E kind, with : Take(Reply(kind, with))
  BY <1>1, <1>3, TakeTyped
<1>4. ASSUME NEW t \in Topic, AddMemory(t)  PROVE TrustTyped'
  <2>1. PICK m : Take([op |-> "add", m |-> m, topic |-> t])
    BY <1>4 DEF AddMemory
  <2>2. HeldTyped([op |-> "add", m |-> m, topic |-> t])
    BY DEF HeldTyped
  <2> QED  BY <2>1, <2>2, TakeTyped
<1>5. ASSUME NEW m, DeleteMemory(m) \/ AdjustDecayRate(m)  PROVE TrustTyped'
  BY <1>0, <1>5, SoftDeleteTyped, DecayRateTyped, ExecuteTyped DEF DeleteMemory, AdjustDecayRate
<1>6. ASSUME NEW m, AdjustTrust(m)  PROVE TrustTyped'
  <2> DEFINE s == db.memories[m].score
  <2>1. m \in DOMAIN db.memories
    BY <1>6 DEF AdjustTrust, GetMemory, Exists
  <2>2. PICK new \in {Raised(s, n) : n \in Plus} \cup {Lowered(s, n) : n \in Minus} :
           \E archived : Take([op |-> "adjust", m |-> m, old |-> s, new |-> new,
                                archived |-> archived])
    BY <1>6, Zenon DEF AdjustTrust
  <2>3. new \in 0..Top
    BY <1>0, <2>1, ScoreFacts DEF Plus, Minus
  <2>4. PICK archived : Take([op |-> "adjust", m |-> m, old |-> s, new |-> new,
                              archived |-> archived])
    BY <2>2
  <2>5. HeldTyped([op |-> "adjust", m |-> m, old |-> s, new |-> new, archived |-> archived])
    BY <2>3 DEF HeldTyped
  <2> QED  BY <2>4, <2>5, TakeTyped
<1>7. ASSUME NEW m, ChallengeMemory(m)  PROVE TrustTyped'
  <2>1. m \in DOMAIN db.memories
    BY <1>7 DEF ChallengeMemory, GetMemory, Exists
  <2>2. PICK archived : Take([op |-> "challenge", m |-> m, old |-> db.memories[m].score,
                              archived |-> archived])
    BY <1>7, Zenon DEF ChallengeMemory
  <2>3. HeldTyped([op |-> "challenge", m |-> m, old |-> db.memories[m].score,
                   archived |-> archived])
    BY <1>0, <2>1 DEF HeldTyped
  <2> QED  BY <2>2, <2>3, TakeTyped
<1>8. ASSUME NEW m, NEW boost \in Boosts, ElevateMemory(m, boost)  PROVE TrustTyped'
  <2>1. m \in DOMAIN db.memories
    BY <1>8 DEF ElevateMemory, GetMemory, Active
  <2>2. Take([op |-> "elevate", m |-> m, old |-> db.memories[m].score, boost |-> boost])
    BY <1>8, Zenon DEF ElevateMemory
  <2>3. HeldTyped([op |-> "elevate", m |-> m, old |-> db.memories[m].score, boost |-> boost])
    BY <1>0, <2>1 DEF HeldTyped
  <2> QED  BY <2>2, <2>3, TakeTyped
<1>9. ASSUME NEW force, Consolidate(force)  PROVE TrustTyped'
  <2>1. PICK list : Take(IF force \/ Len(list) >= 2 THEN Continue(list, {}, <<0, 0>>) ELSE Idle)
    BY <1>9, Zenon DEF Consolidate
  <2> QED  BY <1>1, <2>1, ContinueTyped, TakeTyped
<1>10. CASE \/ handleMemoryAdd \/ handleMemoryDelete \/ handleMemoryAdjustTrust
            \/ handleMemoryAdjustDecayRate \/ handleMemoryTriggerConsolidation
            \/ handleMemoryChallengeMemory \/ handleMemoryElevateMemoryTo1024
  BY <1>2, <1>4, <1>5, <1>6, <1>7, <1>8, <1>9, <1>10
  DEF handleMemoryAdd, handleMemoryDelete, handleMemoryAdjustTrust,
      handleMemoryAdjustDecayRate, handleMemoryTriggerConsolidation,
      handleMemoryChallengeMemory, handleMemoryElevateMemoryTo1024
<1>11. CASE \/ handleMemoryGet \/ handleMemoryCount \/ handleMemoryGetTrustScore
            \/ handleMemoryListArchived \/ handleMemoryGetDecayStatus
            \/ handleMemoryListFadingMemories \/ handleMemoryQueryBySourceType
            \/ handleMemoryGetStatus \/ handleMemoryGetRelationshipSummary
            \/ handleMemoryFindContradictions \/ handleMemoryResolveContradiction
            \/ handleMemoryGetDialecticHistory
  <2>1. Refused \/ \E kind, with : Take(Reply(kind, with))
    BY <1>11, Zenon
    DEF handleMemoryGet, handleMemoryCount, handleMemoryGetTrustScore,
        handleMemoryListArchived, handleMemoryGetDecayStatus,
        handleMemoryListFadingMemories, handleMemoryQueryBySourceType,
        handleMemoryGetStatus, handleMemoryGetRelationshipSummary,
        handleMemoryFindContradictions, handleMemoryResolveContradiction,
        handleMemoryGetDialecticHistory
  <2> QED  BY <1>2, <1>3, <2>1
<1> QED  BY <1>10, <1>11 DEF Request

LEMMA StatementTyped ==
  ASSUME TrustInv, TrustTyped, Statement
  PROVE  TrustTyped'
<1>0. IsDb(db) /\ TablesTyped(db) /\ RequestKept(request, db) /\ HeldTyped(request)
  BY DEF TrustInv, TrustTyped
<1>1. HeldTyped(Idle) /\ \A kind, with : HeldTyped(Reply(kind, with))
  BY HeldSimply DEF Idle, Reply
<1>2. ASSUME NEW op, Serve(op, db, Idle)  PROVE TrustTyped'
  BY <1>0, <1>1, <1>2, ServeTyped
<1>3. CASE AdjustTrustUpdate
  <2> DEFINE next == [request EXCEPT !.op = "log"]
  <2>1. request.op = "adjust" /\ request.new \in 0..Top
    BY <1>0, <1>3 DEF AdjustTrustUpdate, Serve, HeldTyped
  <2>2. next.op = "log"
    BY <1>0, <2>1 DEF RequestKept
  <2> HIDE DEF next
  <2>3. \/ Serve("adjust", UpdateTrustFields(db, request.m, request.new, request.archived), next)
        \/ Serve("adjust", db, Idle)
    BY <1>3 DEF AdjustTrustUpdate, next
  <2> QED  BY <1>0, <1>2, <2>1, <2>2, <2>3, TrustFieldsTyped, HeldSimply, ServeTyped
<1>4. CASE AdjustTrustLog
  BY <1>0, <1>1, <1>2, <1>4, LogTyped, ServeTyped DEF AdjustTrustLog
<1>5. CASE ChallengeAnswer
  <2>1. CASE Serve("challenge", db, Idle)
    BY <1>2, <2>1
  <2>2. CASE ~Serve("challenge", db, Idle)
    <3>1. PICK event \in ProcessChallenge :
             Serve("challenge", UpdateTrustFields(db, request.m, Lowered(request.old, event.change),
                                                  request.archived), Idle)
      BY <1>5, <2>2 DEF ChallengeAnswer
    <3>2. event.change \in Nat
      BY DEF ProcessChallenge
    <3>3. request.old \in 0..Top
      BY <1>0, <3>1 DEF Serve, HeldTyped
    <3>4. Lowered(request.old, event.change) \in 0..Top
      BY <3>2, <3>3, ScoreFacts
    <3> QED  BY <1>0, <1>1, <3>1, <3>4, TrustFieldsTyped, ServeTyped
  <2> QED  BY <2>1, <2>2
<1>6. CASE ElevateInsert
  <2> DEFINE next == [request EXCEPT !.op = "boost"]
  <2>1. request.op = "elevate" /\ request.old \in 0..Top /\ request.boost \in Boosts
    BY <1>0, <1>6 DEF ElevateInsert, Serve, HeldTyped
  <2>2. next.op = "boost" /\ next.old = request.old /\ next.boost = request.boost
    BY <1>0, <2>1 DEF RequestKept
  <2> HIDE DEF next
  <2>3. HeldTyped(next)
    BY <2>1, <2>2 DEF HeldTyped
  <2>4. Serve("elevate", AddMemory1024(db, request.m), next) \/ Serve("elevate", db, Idle)
    BY <1>6 DEF ElevateInsert, next
  <2> QED  BY <1>0, <1>2, <2>3, <2>4, WideTyped, ServeTyped
<1>7. CASE ElevateTrust
  <2> DEFINE up == Raised(request.old, request.boost.up)
             new == up - request.boost.down
  <2>1. CASE Serve("boost", db, Idle)
    BY <1>2, <2>1
  <2>2. CASE ~Serve("boost", db, Idle)
    <3>1. /\ request.op = "boost" /\ request.boost.down <= up
          /\ Serve("boost", UpdateTrustFields(db, request.m, new, FALSE), Idle)
      BY <1>7, <2>2 DEF ElevateTrust
    <3>2. request.old \in 0..Top /\ request.boost.up \in Nat /\ request.boost.down \in Nat
      BY <1>0, <3>1 DEF HeldTyped, Boosts
    <3>3. up \in 0..Top
      BY <3>2, ScoreFacts
    <3> HIDE DEF up
    <3>4. new \in 0..Top
      BY <3>1, <3>2, <3>3 DEF Top
    <3> HIDE DEF new
    <3> QED  BY <1>0, <1>1, <3>1, <3>4, TrustFieldsTyped, ServeTyped
  <2> QED  BY <2>1, <2>2
<1>8. CASE AddInsert
  <2> DEFINE next == IF AutoMode THEN [op |-> "sidecar", m |-> request.m] ELSE Idle
  <2>1. request.topic \in Topic
    BY <1>0, <1>8 DEF AddInsert, Serve, HeldTyped
  <2>2. HeldTyped(next)
    BY <1>1, HeldSimply
  <2>3. Serve("add", StoreMemory(db, request.m, request.topic), next) \/ Serve("add", db, Idle)
    BY <1>8 DEF AddInsert
  <2> HIDE DEF next
  <2> QED  BY <1>0, <1>2, <2>1, <2>2, <2>3, StoredTyped, ServeTyped
<1>9. CASE AddSidecar \/ WriteResponse
  BY <1>0, <1>1, <1>2, <1>9, WideTyped, ServeTyped DEF AddSidecar, WriteResponse
<1>10. CASE MergeArchive
  <2> DEFINE next == [request EXCEPT !.op = "relate"]
             lower == LowerOf(request.list, request.at)
             on == Continue(request.list, request.seen, request.at)
  <2>1. next.op = "relate"
    BY <1>0, <1>10 DEF MergeArchive, RequestKept
  <2>2. HeldTyped(on)
    BY ContinueTyped
  <2> HIDE DEF next, on, lower
  <2>3. Serve("merge", UpdateTrustFields(db, lower, 0, TRUE), next) \/ Serve("merge", db, on)
    BY <1>10 DEF MergeArchive, next, on, lower
  <2>4. TablesTyped(UpdateTrustFields(db, lower, 0, TRUE))
    BY <1>0, SoftDeleteTyped DEF UpdateTrustFields
  <2>5. HeldTyped(next)
    BY <2>1, HeldSimply
  <2> QED  BY <1>0, <2>2, <2>3, <2>4, <2>5, ServeTyped
<1>11. CASE MergeRelate
  <2> DEFINE lower == LowerOf(request.list, request.at)
             higher == HigherOf(request.list, request.at)
  <2>1. IsList(request.list, db) /\ request.at \in Pairs(request.list)
    BY <1>0, <1>11 DEF MergeRelate, RequestKept
  <2>2. lower \in DOMAIN db.memories /\ higher \in DOMAIN db.memories
    BY <2>1 DEF IsList, Pairs, LowerOf, HigherOf
  <2> HIDE DEF lower, higher
  <2>3. PICK seen : \/ Serve("relate", CreateRelationship(db, higher, lower),
                             Continue(request.list, seen, request.at))
                    \/ Serve("relate", db, Continue(request.list, request.seen, request.at))
    BY <1>11, Zenon DEF MergeRelate, lower, higher
  <2> QED  BY <1>0, <2>2, <2>3, RelatedTyped, ContinueTyped, ServeTyped
<1> QED  BY <1>3, <1>4, <1>5, <1>6, <1>7, <1>8, <1>9, <1>10, <1>11 DEF Statement

LEMMA SchedulerTyped ==
  ASSUME TrustInv, TrustTyped, Scheduler
  PROVE  TrustTyped'
<1>0. IsDb(db) /\ TablesTyped(db) /\ ticks \in 0..MaxTicks /\ DecayTyped(decay)
  BY DEF TrustInv, TrustTyped
<1>1. DecayTyped(Waiting) /\ DecayTyped([op |-> "returned"]) /\ \A queue : DecayTyped(Visit(queue))
  BY DEF DecayTyped, Waiting, Visit
<1>2. CASE Tick \/ TickFails
  <2>1. ticks' \in 0..MaxTicks
    BY <1>0, <1>2, TrustBoundsAssumption DEF Tick, TickFails
  <2> QED  BY <1>0, <1>1, <1>2, <2>1, ScheduleTyped DEF Tick, TickFails
<1>3. CASE DecayRead
  <2>1. UNCHANGED ticks
    BY <1>3 DEF DecayRead
  <2>2. CASE \E queue : Schedule(db, Visit(queue))
    BY <1>0, <1>1, <2>1, <2>2, ScheduleTyped
  <2>3. ASSUME NEW m \in Active(db), NEW new \in Decayed(db.memories[m].score), NEW queue,
               Schedule(db, [op |-> "write", queue |-> queue, new |-> new])
        PROVE  TrustTyped'
    <3>1. db.memories[m].score \in 0..Top
      BY <1>0, RowColumns DEF Active, TablesTyped
    <3>2. new \in 0..Top
      BY <3>1, DecayedTyped
    <3>3. DecayTyped([op |-> "write", queue |-> queue, new |-> new])
      BY <3>2 DEF DecayTyped
    <3> QED  BY <1>0, <2>1, <2>3, <3>3, ScheduleTyped
  <2> QED  BY <1>3, <2>2, <2>3, Zenon DEF DecayRead
<1>4. CASE DecayWrite
  <2>1. UNCHANGED ticks /\ decay.new \in 0..Top
    BY <1>0, <1>4 DEF DecayWrite, DecayTyped
  <2> QED  BY <1>0, <1>1, <1>4, <2>1, TrustFieldsTyped, ScheduleTyped DEF DecayWrite
<1>5. CASE SchedulerReturns
  BY <1>0, <1>1, <1>5, ScheduleTyped DEF SchedulerReturns
<1> QED  BY <1>2, <1>3, <1>4, <1>5 DEF Scheduler

\* Scores stay within what the CHECK of migration 000001 lets in, whatever is
\* computed from a score that was read before, and a relationship is between
\* memories that are there.
THEOREM TrustTypeCorrect == TrustSpec => []TrustTypeOK
<1>1. TrustInit => TrustTyped
  BY RowsAssumption, TrustBoundsAssumption
  DEF TrustInit, TrustTyped, TablesTyped, HeldTyped, DecayTyped, Idle, Waiting
<1>2. TrustInv /\ TrustTyped /\ [TrustNext]_trustVars => TrustTyped'
  <2> SUFFICES ASSUME TrustInv, TrustTyped, [TrustNext]_trustVars  PROVE TrustTyped'
    OBVIOUS
  <2>1. CASE Signal \/ Exit \/ UNCHANGED trustVars
    BY <2>1 DEF Signal, Exit, trustVars, TrustTyped, TablesTyped, HeldTyped, DecayTyped
  <2> QED  BY <2>1, RequestsTyped, StatementTyped, SchedulerTyped DEF TrustNext
<1>3. TrustInv /\ TrustTyped => TrustTypeOK
  BY DEF TrustInv, IsDb, TrustTyped, TablesTyped, HeldTyped, DecayTyped, TrustTypeOK
<1> QED  BY <1>1, <1>2, <1>3, TrustInductive, PTL DEF TrustSpec

(***************************************************************************)
(*                           Embedding migration                           *)
(*                                                                         *)
(* No migration, however often one is asked for, cut short and asked for   *)
(* again, loses the vector a row had when a backup first came by.          *)
(* OriginalKept is not inductive: an update replaces the vector, so one    *)
(* has to know that from its first backup on a row has that vector in its  *)
(* legacy column, and that no earlier backup left anything else there.     *)
(***************************************************************************)

RowType == [vector : Model \cup {NoModel}, label : Model,
            legacy : Model \cup {NoModel}, archived : BOOLEAN]

\* A migration that runs; of the rows it has left only the places matter.
Running ==
    /\ migration = [at |-> migration.at, to |-> migration.to, from |-> migration.from,
                    dryRun |-> migration.dryRun, todo |-> migration.todo]
    /\ migration.to \in Model
    /\ migration.at # "none"

RowsTyped ==
    /\ embeddings \in Seq(RowType)
    /\ original \in Seq(Model \cup {NoModel})
    /\ Len(original) = Len(embeddings)
    /\ embedder \in Model
    /\ migration = NoMigration \/ Running

\* The legacy column of a row is what it had at its first backup, or empty.
LegacyIsOriginal ==
    \A i \in 1..Len(embeddings) : embeddings[i].legacy = original[i]

MigrationInv == RowsTyped /\ LegacyIsOriginal

\* The rows as functions on the places of the table.
LEMMA RowsFacts ==
  ASSUME RowsTyped
  PROVE  /\ Len(embeddings) \in Nat
         /\ DOMAIN embeddings = 1..Len(embeddings)
         /\ embeddings \in [1..Len(embeddings) -> RowType]
         /\ original \in [1..Len(embeddings) -> Model \cup {NoModel}]
  BY DEF RowsTyped

LEMMA RowsFromFunction ==
  ASSUME NEW S, NEW n \in Nat, NEW f \in [1..n -> S]
  PROVE  f \in Seq(S) /\ Len(f) = n
  OBVIOUS

LEMMA MigrationInitial == MigrationInit => MigrationInv
  BY DEF MigrationInit, MigrationInv, RowsTyped, LegacyIsOriginal, NoMigration

LEMMA InsertKeeps ==
  ASSUME MigrationInv, NEW v \in Model \cup {NoModel}, Insert(v)
  PROVE  MigrationInv'
<1> DEFINE row == [vector |-> v, label |-> DefaultLabel, legacy |-> NoModel, archived |-> FALSE]
<1>1. row \in RowType /\ row.legacy = NoModel
  BY ModelAssumption DEF RowType
<1>2. /\ embeddings' = Append(embeddings, row) /\ original' = Append(original, NoModel)
      /\ UNCHANGED <<migration, embedder>>
  BY DEF Insert
<1> HIDE DEF row
<1>3. RowsTyped'
  BY <1>1, <1>2 DEF MigrationInv, RowsTyped, Running
<1>4. LegacyIsOriginal'
  BY <1>1, <1>2 DEF MigrationInv, RowsTyped, LegacyIsOriginal
<1> QED  BY <1>3, <1>4 DEF MigrationInv

\* A step that leaves the legacy columns, and what was there, as they are.
LEMMA LegacyUntouched ==
  ASSUME MigrationInv, UNCHANGED original,
         embeddings' \in Seq(RowType), Len(embeddings') = Len(embeddings),
         \A i \in 1..Len(embeddings) : embeddings'[i].legacy = embeddings[i].legacy,
         embedder' \in Model, migration' = NoMigration \/ Running'
  PROVE  MigrationInv'
  BY DEF MigrationInv, RowsTyped, LegacyIsOriginal

LEMMA NextRowRuns ==
  ASSUME Running, NextRow
  PROVE  migration' = NoMigration \/ Running'
<1>1. \/ \E todo : migration' = [migration EXCEPT !.todo = todo]
      \/ migration' = NoMigration
  BY Zenon DEF NextRow
<1> QED  BY <1>1 DEF Running

\* The request, up to the rows: nothing of a row changes.
LEMMA PreparationKeeps ==
  ASSUME MigrationInv,
         \/ \E to \in Model, from \in Model \cup {NoModel}, backup, dryRun \in BOOLEAN :
               Begin(to, from, backup, dryRun)
         \/ AddColumns
         \/ CopyFails
         \/ SelectRows
         \/ LeaveRow
         \/ RestartBackend
  PROVE  MigrationInv'
<1>1. UNCHANGED <<embeddings, original>> /\ embedder' \in Model
  BY DEF MigrationInv, RowsTyped, Begin, AddColumns, CopyFails, SelectRows, LeaveRow, RestartBackend
<1>2. migration' = NoMigration \/ Running'
  <2>1. CASE \E to \in Model, from \in Model \cup {NoModel}, backup, dryRun \in BOOLEAN :
               Begin(to, from, backup, dryRun)
    BY <2>1 DEF Begin, Running
  <2>2. CASE AddColumns
    BY <2>2 DEF MigrationInv, RowsTyped, NoMigration, Running, AddColumns
  <2>3. CASE CopyFails \/ RestartBackend
    BY <2>3 DEF CopyFails, RestartBackend
  <2>4. CASE SelectRows
    <3>1. Running
      BY <2>4 DEF MigrationInv, RowsTyped, NoMigration, SelectRows
    <3>2. \/ \E todo : migration' = [migration EXCEPT !.at = "rows", !.todo = todo]
          \/ migration' = NoMigration
      BY <2>4, Zenon DEF SelectRows
    <3> QED  BY <3>1, <3>2 DEF Running
  <2>5. CASE LeaveRow
    BY <2>5, NextRowRuns DEF MigrationInv, RowsTyped, NoMigration, LeaveRow
  <2> QED  BY <2>1, <2>2, <2>3, <2>4, <2>5
<1> QED  BY <1>1, <1>2, LegacyUntouched DEF MigrationInv, RowsTyped

LEMMA ArchiveKeeps ==
  ASSUME MigrationInv, NEW i \in 1..Len(embeddings), ArchiveRow(i)
  PROVE  MigrationInv'
<1>1. embeddings' = [embeddings EXCEPT ![i].archived = TRUE]
      /\ UNCHANGED <<original, migration, embedder>>
  BY DEF ArchiveRow
<1>2. /\ embeddings' \in Seq(RowType) /\ Len(embeddings') = Len(embeddings)
      /\ \A j \in 1..Len(embeddings) : embeddings'[j].legacy = embeddings[j].legacy
  <2>1. embeddings \in [1..Len(embeddings) -> RowType] /\ Len(embeddings) \in Nat
    BY RowsFacts DEF MigrationInv
  <2>2. /\ embeddings' \in [1..Len(embeddings) -> RowType]
        /\ \A j \in 1..Len(embeddings) : embeddings'[j].legacy = embeddings[j].legacy
    BY <1>1, <2>1 DEF RowType
  <2> QED  BY <2>1, <2>2, RowsFromFunction
<1> QED  BY <1>1, <1>2, LegacyUntouched DEF MigrationInv, RowsTyped, Running

LEMMA RowUpdateKeeps ==
  ASSUME MigrationInv, UpdateRow
  PROVE  MigrationInv'
<1> DEFINE i == Upcoming
<1>1. /\ embeddings' = [embeddings EXCEPT ![i].vector = embedder, ![i].label = migration.to]
      /\ UNCHANGED <<original, embedder>>
  BY DEF UpdateRow
<1>2. embedder \in Model /\ migration.to \in Model
  BY DEF UpdateRow, MigrationInv, RowsTyped, NoMigration, Running
<1> HIDE DEF i
<1>3. /\ embeddings' \in Seq(RowType) /\ Len(embeddings') = Len(embeddings)
      /\ \A j \in 1..Len(embeddings) : embeddings'[j].legacy = embeddings[j].legacy
  <2>1. embeddings \in [1..Len(embeddings) -> RowType] /\ Len(embeddings) \in Nat
    BY RowsFacts DEF MigrationInv
  <2>2. /\ embeddings' \in [1..Len(embeddings) -> RowType]
        /\ \A j \in 1..Len(embeddings) : embeddings'[j].legacy = embeddings[j].legacy
    BY <1>1, <1>2, <2>1 DEF RowType
  <2> QED  BY <2>1, <2>2, RowsFromFunction
<1>4. migration' = NoMigration \/ Running'
  BY NextRowRuns DEF UpdateRow, MigrationInv, RowsTyped, NoMigration
<1> QED  BY <1>1, <1>2, <1>3, <1>4, LegacyUntouched

\* The backup fills the empty legacy columns, and takes note of the same vectors.
LEMMA CopyKeeps ==
  ASSUME MigrationInv, CopyLegacy
  PROVE  MigrationInv'
<1>1. /\ embeddings' = [i \in 1..Len(embeddings) |-> Legacy(embeddings[i])]
      /\ original' = [i \in 1..Len(embeddings) |->
                        IF original[i] = NoModel THEN embeddings[i].vector ELSE original[i]]
      /\ UNCHANGED embedder
  BY DEF MigrationInv, RowsTyped, CopyLegacy
<1>2. \A row \in RowType :
         /\ Legacy(row) \in RowType
         /\ Legacy(row).legacy = IF row.legacy = NoModel THEN row.vector ELSE row.legacy
  BY DEF RowType, Legacy
<1>3. \A i \in 1..Len(embeddings) :
         /\ embeddings[i] \in RowType /\ embeddings[i].vector \in Model \cup {NoModel}
         /\ original[i] \in Model \cup {NoModel} /\ embeddings[i].legacy = original[i]
  BY RowsFacts DEF MigrationInv, LegacyIsOriginal, RowType
<1>4. embeddings' \in Seq(RowType) /\ Len(embeddings') = Len(embeddings)
  BY <1>1, <1>2, <1>3, RowsFacts, RowsFromFunction DEF MigrationInv
<1>5. original' \in Seq(Model \cup {NoModel}) /\ Len(original') = Len(embeddings)
  BY <1>1, <1>3, RowsFacts, RowsFromFunction DEF MigrationInv
<1>6. migration' = NoMigration \/ Running'
  BY DEF CopyLegacy, MigrationInv, RowsTyped, NoMigration, Running
<1>7. LegacyIsOriginal'
  BY <1>1, <1>2, <1>3, <1>4 DEF LegacyIsOriginal
<1> QED  BY <1>1, <1>4, <1>5, <1>6, <1>7 DEF MigrationInv, RowsTyped

\* Whatever is asked for, fails, crashes and is asked for again, the invariant holds.
THEOREM MigrationInductive == MigrationSpec => []MigrationInv
<1>1. MigrationInv /\ [MigrationNext]_migrationVars => MigrationInv'
  <2> SUFFICES ASSUME MigrationInv, [MigrationNext]_migrationVars PROVE MigrationInv'
    OBVIOUS
  <2>1. CASE UNCHANGED migrationVars
    BY <2>1 DEF migrationVars, MigrationInv, RowsTyped, LegacyIsOriginal, Running
  <2>2. CASE \E v \in Model \cup {NoModel} : Insert(v)
    BY <2>2, InsertKeeps
  <2>3. CASE \E i \in DOMAIN embeddings : ArchiveRow(i)
    <3>1. DOMAIN embeddings = 1..Len(embeddings)
      BY DEF MigrationInv, RowsTyped
    <3> QED  BY <2>3, <3>1, ArchiveKeeps
  <2>4. CASE handleMemoryMigrateEmbeddings \/ RestartBackend
    BY <2>4, PreparationKeeps, RowUpdateKeeps, CopyKeeps DEF handleMemoryMigrateEmbeddings
  <2> QED  BY <2>1, <2>2, <2>3, <2>4 DEF MigrationNext
<1> QED  BY MigrationInitial, <1>1, PTL DEF MigrationSpec

\* The vector a row had when a backup first came by is never lost (main.go:2853).
THEOREM OriginalNeverLost == MigrationSpec => []OriginalKept
<1>1. MigrationInv => OriginalKept
  BY DEF MigrationInv, RowsTyped, LegacyIsOriginal, OriginalKept
<1> QED  BY <1>1, MigrationInductive, PTL

-----------------------------------------------------------------------------
(* The types of a migration: the loop over the rows has one left.          *)

\* Beside the rows, where a migration can be, and that a loop over rows has one left.
MigrationPlaces ==
    /\ migration.at \in {"none", "columns", "copy", "select", "rows"}
    /\ migration.at = "rows" => DOMAIN migration.todo # {}
    /\ migrations \in 0..MaxMigrations

LEMMA PlacesStay ==
  ASSUME MigrationPlaces, UNCHANGED migrations,
         \/ UNCHANGED migration
         \/ migration' = NoMigration
         \/ migration'.at \in {"columns", "copy", "select"}
  PROVE  MigrationPlaces'
  BY DEF MigrationPlaces, NoMigration

\* Taking a row off leaves one, or the loop is over.
LEMMA NextRowLeaves ==
  ASSUME MigrationPlaces, Running, migration.at = "rows", NextRow, UNCHANGED migrations
  PROVE  MigrationPlaces'
<1> DEFINE rest == DOMAIN migration.todo \ {Upcoming}
           left == [i \in rest |-> migration.todo[i]]
<1>1. CASE rest = {}
  BY <1>1, PlacesStay DEF NextRow
<1>2. CASE rest # {}
  <2>1. migration' = [migration EXCEPT !.todo = left]
    BY <1>2, Zenon DEF NextRow
  <2>2. DOMAIN left = rest
    OBVIOUS
  <2> HIDE DEF rest, left
  <2>3. migration'.at = "rows" /\ migration'.todo = left
    BY <2>1 DEF Running
  <2> QED  BY <1>2, <2>2, <2>3 DEF MigrationPlaces
<1> QED  BY <1>1, <1>2

LEMMA MigrationPlacesStep ==
  ASSUME MigrationInv, MigrationPlaces, [MigrationNext]_migrationVars
  PROVE  MigrationPlaces'
<1>1. migration = NoMigration \/ Running
  BY DEF MigrationInv, RowsTyped
<1>2. CASE UNCHANGED migrationVars
  BY <1>2, PlacesStay DEF migrationVars
<1>3. CASE \E v \in Model \cup {NoModel} : Insert(v)
  BY <1>3, PlacesStay DEF Insert
<1>4. CASE \E i \in DOMAIN embeddings : ArchiveRow(i)
  BY <1>4, PlacesStay DEF ArchiveRow
<1>5. CASE RestartBackend
  BY <1>5, PlacesStay DEF RestartBackend
<1>6. ASSUME NEW to, NEW from, NEW backup, NEW dryRun, Begin(to, from, backup, dryRun)
      PROVE  MigrationPlaces'
  <2>1. migration'.at \in {"columns", "select"}
    BY <1>6 DEF Begin
  <2>2. migrations' = migrations + 1 /\ migrations < MaxMigrations
    BY <1>6 DEF Begin
  <2> QED  BY <2>1, <2>2, ModelAssumption DEF MigrationPlaces
<1>7. CASE AddColumns
  <2>1. Running
    BY <1>1, <1>7 DEF AddColumns, NoMigration
  <2>2. migration' = NoMigration \/ migration'.at = "copy"
    BY <1>7, <2>1 DEF AddColumns, Running
  <2> QED  BY <1>7, <2>2, PlacesStay DEF AddColumns
<1>8. CASE CopyLegacy
  <2>1. Running
    BY <1>1, <1>8 DEF CopyLegacy, NoMigration
  <2>2. migration'.at = "select"
    BY <1>8, <2>1 DEF CopyLegacy, Running
  <2> QED  BY <1>8, <2>2, PlacesStay DEF CopyLegacy
<1>9. CASE CopyFails
  BY <1>9, PlacesStay DEF CopyFails
<1>10. CASE SelectRows
  <2>1. Running
    BY <1>1, <1>10 DEF SelectRows, NoMigration
  <2> DEFINE labels == [i \in Selected |-> embeddings[i].label]
  <2>2. \/ Selected # {} /\ migration' = [migration EXCEPT !.at = "rows", !.todo = labels]
        \/ migration' = NoMigration
    BY <1>10, Zenon DEF SelectRows
  <2>3. DOMAIN labels = Selected
    OBVIOUS
  <2> HIDE DEF labels
  <2>4. Selected # {} /\ migration' = [migration EXCEPT !.at = "rows", !.todo = labels] =>
          migration'.at = "rows" /\ migration'.todo = labels
    BY <2>1 DEF Running
  <2>5. UNCHANGED migrations
    BY <1>10 DEF SelectRows
  <2> QED  BY <2>2, <2>3, <2>4, <2>5, PlacesStay DEF MigrationPlaces
<1>11. CASE LeaveRow \/ UpdateRow
  <2>1. Running
    BY <1>1, <1>11 DEF LeaveRow, UpdateRow, NoMigration
  <2> QED  BY <1>11, <2>1, NextRowLeaves DEF LeaveRow, UpdateRow
<1> QED  BY <1>2, <1>3, <1>4, <1>5, <1>6, <1>7, <1>8, <1>9, <1>10, <1>11
         DEF MigrationNext, handleMemoryMigrateEmbeddings

\* A migration is at one of its five places, and one that goes through rows has a
\* row left to go to (main.go:2853).
THEOREM MigrationTypeCorrect == MigrationSpec => []MigrationTypeOK
<1>1. MigrationInit => MigrationPlaces
  BY ModelAssumption DEF MigrationInit, MigrationPlaces, NoMigration
<1>2. MigrationInv /\ MigrationPlaces /\ [MigrationNext]_migrationVars => MigrationPlaces'
  BY MigrationPlacesStep
<1>3. MigrationInv /\ MigrationPlaces => MigrationTypeOK
  <2> SUFFICES ASSUME MigrationInv, MigrationPlaces  PROVE MigrationTypeOK
    OBVIOUS
  <2>1. /\ embeddings \in Seq(RowType) /\ embedder \in Model
        /\ original \in [DOMAIN embeddings -> Model \cup {NoModel}]
    BY RowsFacts DEF MigrationInv, RowsTyped
  <2> QED  BY <2>1 DEF MigrationTypeOK, MigrationPlaces, RowType
<1> QED  BY <1>1, <1>2, <1>3, MigrationInductive, PTL DEF MigrationSpec

(***************************************************************************)
(*                            Tiered summaries                             *)
(*                                                                         *)
(* How old what a summary describes can be, for any lifetimes, timeout,    *)
(* number of attempts and backoffs.  SummaryInTime speaks of the answer;   *)
(* it comes from the entry of the cache, whose lifetime starts only when   *)
(* the LLM has answered, so one has to follow the clock through the        *)
(* attempts of the call: each begins no later than the ones before it and  *)
(* the waits between them may have taken.                                  *)
(***************************************************************************)

\* A set of natural numbers that is not empty has a least element.
LEMMA LeastNumber ==
  ASSUME NEW T \in SUBSET Nat, T # {}
  PROVE  \E n \in T : \A m \in T : n <= m
<1> DEFINE Below == {pair \in Nat \X Nat : pair[1] < pair[2]}
<1>1. IsWellFoundedOn(Below, Nat)
  BY NatLessThanWellFounded DEF OpToRel
<1>2. \A m, n \in Nat : m < n => <<m, n>> \in Below
  OBVIOUS
<1> HIDE DEF Below
<1>3. PICK n \in T : \A m \in T : <<m, n>> \notin Below
  BY <1>1, WFMin
<1>4. \A m \in T : ~(m < n)
  BY <1>2, <1>3, Zenon
<1> QED  BY <1>4

\* A sum over the first numbers is defined by its recursion.
LEMMA SumExists ==
  ASSUME NEW M \in Nat, NEW c
  PROVE  \E f : f = [n \in 0..M |-> IF n = 0 THEN 0 ELSE f[n - 1] + c[n]]
<1> DEFINE Adds(f, m) == f = [n \in 0..m |-> IF n = 0 THEN 0 ELSE f[n - 1] + c[n]]
           T == {m \in 0..M : ~ \E f : Adds(f, m)}
<1>1. T = {}
  <2> SUFFICES ASSUME T # {}  PROVE FALSE
    OBVIOUS
  <2>0. T \in SUBSET Nat
    OBVIOUS
  <2>1. PICK m \in T : \A k \in T : m <= k
    <3> HIDE DEF T
    <3> QED  BY <2>0, LeastNumber
  <2>2. m \in 0..M /\ m \in Nat
    OBVIOUS
  <2>3. CASE m = 0
    <3> DEFINE g == [n \in 0..0 |-> 0]
    <3>1. g = [n \in 0..0 |-> IF n = 0 THEN 0 ELSE g[n - 1] + c[n]]
      OBVIOUS
    <3> QED  BY <2>3, <3>1
  <2>4. CASE m # 0
    <3>1. m - 1 \in 0..M /\ m - 1 \notin T
      BY <2>1, <2>2, <2>4
    <3>2. PICK f : Adds(f, m - 1)
      BY <3>1
    <3> DEFINE g == [n \in 0..m |-> IF n = m THEN f[m - 1] + c[m] ELSE f[n]]
    <3>3. g = [n \in 0..m |-> IF n = 0 THEN 0 ELSE g[n - 1] + c[n]]
      <4>1. \A n \in 0..m : g[n] = IF n = 0 THEN 0 ELSE g[n - 1] + c[n]
        <5> TAKE n \in 0..m
        <5>1. CASE n = m
          BY <2>2, <2>4, <5>1
        <5>2. CASE n # m
          <6>1. n \in 0..(m - 1) /\ g[n] = f[n]
            BY <2>2, <5>2
          <6>2. f[n] = IF n = 0 THEN 0 ELSE f[n - 1] + c[n]
            BY <3>2, <6>1
          <6>3. n # 0 => n - 1 \in 0..m /\ n - 1 # m /\ g[n - 1] = f[n - 1]
            BY <2>2, <5>2
          <6> QED  BY <6>1, <6>2, <6>3
        <5> QED  BY <5>1, <5>2
      <4>2. g = [n \in 0..m |-> g[n]]
        OBVIOUS
      <4> HIDE DEF g
      <4> QED  BY <4>1, <4>2
    <3> QED  BY <3>3
  <2> QED  BY <2>3, <2>4
<1>2. M \in 0..M
  OBVIOUS
<1> QED  BY <1>1, <1>2

\* The waits add up: the definition of Waited has a solution.
LEMMA WaitedAdds ==
  /\ Waited[0] = 0
  /\ \A n \in 1..(MaxRetries - 1) : Waited[n] = Waited[n - 1] + Backoff[n]
<1> DEFINE M == MaxRetries - 1
<1>1. M \in Nat
  BY SummaryAssumption
<1>2. \E f : f = [n \in 0..M |-> IF n = 0 THEN 0 ELSE f[n - 1] + Backoff[n]]
  BY <1>1, SumExists
<1>3. Waited = [n \in 0..M |-> IF n = 0 THEN 0 ELSE Waited[n - 1] + Backoff[n]]
  BY <1>2 DEF Waited
<1> QED  BY <1>1, <1>3

\* The waits are numbers, and the more the longer.
LEMMA WaitedGrows ==
  \A n \in 0..(MaxRetries - 1) : Waited[n] \in Nat /\ Waited[n] <= Waited[MaxRetries - 1]
<1> DEFINE M == MaxRetries - 1
           T == {n \in 0..M : Waited[n] \notin Nat}
           U == {k \in 0..M : ~(Waited[M - k] <= Waited[M])}
<1>1. M \in Nat /\ \A n \in 1..M : Backoff[n] \in Nat
  BY SummaryAssumption
<1>2. Waited[0] = 0 /\ \A n \in 1..M : Waited[n] = Waited[n - 1] + Backoff[n]
  BY WaitedAdds
<1>3. T = {}
  <2> SUFFICES ASSUME T # {}  PROVE FALSE
    OBVIOUS
  <2>0. T \in SUBSET Nat
    BY <1>1
  <2>1. PICK n \in T : \A k \in T : n <= k
    <3> HIDE DEF T
    <3> QED  BY <2>0, LeastNumber
  <2>2. n \in 1..M
    BY <1>1, <1>2
  <2>3. n - 1 \in 0..M /\ n - 1 \notin T
    BY <1>1, <2>1, <2>2
  <2> QED  BY <1>1, <1>2, <2>2, <2>3
<1>4. U = {}
  <2> SUFFICES ASSUME U # {}  PROVE FALSE
    OBVIOUS
  <2>0. U \in SUBSET Nat
    BY <1>1
  <2>1. PICK k \in U : \A j \in U : k <= j
    <3> HIDE DEF U
    <3> QED  BY <2>0, LeastNumber
  <2>2. k \in 0..M /\ M - k \in 0..M /\ M \in 0..M
    BY <1>1
  <2>3. k # 0
    BY <1>1, <1>3, <2>2
  <2>4. k - 1 \in 0..M /\ k - 1 \notin U
    BY <1>1, <2>1, <2>2, <2>3
  <2>5. Waited[M - (k - 1)] <= Waited[M]
    BY <2>4
  <2>6. /\ M - (k - 1) \in 1..M
        /\ (M - (k - 1)) - 1 = M - k
    BY <1>1, <2>2, <2>3
  <2>7. Waited[M - (k - 1)] = Waited[M - k] + Backoff[M - (k - 1)]
    BY <1>2, <2>6
  <2>8. Waited[M - k] \in Nat /\ Waited[M - (k - 1)] \in Nat /\ Waited[M] \in Nat
    BY <1>3, <2>2, <2>4, <2>6
  <2> QED  BY <1>1, <2>2, <2>5, <2>6, <2>7, <2>8
<1>5. ASSUME NEW n \in 0..M  PROVE Waited[n] <= Waited[M]
  <2>1. M - n \in 0..M /\ M - (M - n) = n
    BY <1>1
  <2> QED  BY <1>4, <2>1
<1> QED  BY <1>3, <1>5

\* A call of the LLM, and an entry of the cache.
Chats   == [op : {"summary", "extract", "precompress"}, tier : Tier \cup {"none"},
            value : SUBSET (1..MaxKept), taken : Nat, attempt : 1..MaxRetries, since : Nat]
Entries == [value : SUBSET (1..MaxKept), taken : Nat, expiresAt : Nat]

\* The clock runs at most to the timeout of the attempt, which began no later than
\* the attempts and the waits before it may have taken.
AskedInTime ==
    /\ asking.op = "summary" => asking.tier \in Tier
    /\ asking.since <= asking.taken + (asking.attempt - 1) * LLMTimeout + Waited[asking.attempt - 1]
    /\ now <= asking.since + LLMTimeout

\* An entry expires its lifetime after the longest call that may have made it.
KeptInTime ==
    \A tier \in DOMAIN cache :
        cache[tier].expiresAt <= cache[tier].taken + LongestChat + TTL[tier]

SummaryInv ==
    /\ kept \in Seq([trust : Level, archived : BOOLEAN]) /\ Len(kept) <= MaxKept
    /\ now \in 0..MaxNow
    /\ DOMAIN cache \subseteq Tier
    /\ \A tier \in DOMAIN cache : cache[tier] \in Entries
    /\ KeptInTime
    /\ asking = Nobody \/ (asking \in Chats /\ AskedInTime)
    /\ SummaryInTime

\* Multiples.
LEMMA TimesGrows ==
  ASSUME NEW a \in Nat, NEW b \in Nat, NEW l \in Nat, a <= b
  PROVE  a * l \in Nat /\ a * l <= b * l /\ (a + 1) * l = a * l + l
<1>1. PICK d \in Nat : b = a + d
  <2>1. b - a \in Nat /\ b = a + (b - a)
    OBVIOUS
  <2> QED  BY <2>1
<1>2. (a + d) * l = a * l + d * l /\ a * l \in Nat /\ d * l \in Nat
  OBVIOUS
<1> QED  BY <1>1, <1>2

\* A call is at its end no later than the longest there is.
LEMMA ChatBounds ==
  /\ LongestChat \in Nat
  /\ \A n \in 1..MaxRetries :
        /\ (n - 1) * LLMTimeout \in Nat /\ Waited[n - 1] \in Nat
        /\ (n - 1) * LLMTimeout + Waited[n - 1] + LLMTimeout <= LongestChat
        /\ n < MaxRetries => /\ n * LLMTimeout = (n - 1) * LLMTimeout + LLMTimeout
                             /\ Waited[n] = Waited[n - 1] + Backoff[n]
                             /\ Backoff[n] \in Nat
<1>1. LLMTimeout \in Nat /\ MaxRetries \in Nat \ {0}
  BY SummaryAssumption
<1>2. MaxRetries - 1 \in 0..(MaxRetries - 1) /\ MaxRetries * LLMTimeout \in Nat
  BY <1>1, TimesGrows
<1>3. Waited[MaxRetries - 1] \in Nat /\ LongestChat \in Nat
  BY <1>2, WaitedGrows DEF LongestChat
<1>4. ASSUME NEW n \in 1..MaxRetries
      PROVE  /\ (n - 1) * LLMTimeout \in Nat /\ Waited[n - 1] \in Nat
             /\ (n - 1) * LLMTimeout + Waited[n - 1] + LLMTimeout <= LongestChat
             /\ n < MaxRetries => /\ n * LLMTimeout = (n - 1) * LLMTimeout + LLMTimeout
                                  /\ Waited[n] = Waited[n - 1] + Backoff[n]
                                  /\ Backoff[n] \in Nat
  <2>1. n - 1 \in 0..(MaxRetries - 1) /\ n - 1 \in Nat /\ n \in Nat /\ (n - 1) + 1 = n
    BY <1>1
  <2>2. Waited[n - 1] \in Nat /\ Waited[n - 1] <= Waited[MaxRetries - 1]
    BY <2>1, WaitedGrows
  <2>3. /\ (n - 1) * LLMTimeout \in Nat
        /\ n * LLMTimeout = (n - 1) * LLMTimeout + LLMTimeout
    <3>1. n - 1 <= n
      BY <2>1
    <3>2. (n - 1) * LLMTimeout \in Nat /\ ((n - 1) + 1) * LLMTimeout = (n - 1) * LLMTimeout + LLMTimeout
      BY <1>1, <2>1, <3>1, TimesGrows
    <3> QED  BY <2>1, <3>2
  <2>4. n * LLMTimeout <= MaxRetries * LLMTimeout
    BY <1>1, <2>1, TimesGrows
  <2>5. ASSUME n < MaxRetries
        PROVE  Waited[n] = Waited[n - 1] + Backoff[n] /\ Backoff[n] \in Nat
    <3>1. n \in 1..(MaxRetries - 1)
      BY <1>1, <2>1, <2>5
    <3> QED  BY <3>1, WaitedAdds, SummaryAssumption
  <2> DEFINE P == MaxRetries * LLMTimeout
             Q == (n - 1) * LLMTimeout
             R == n * LLMTimeout
  <2>6. Q + Waited[n - 1] + LLMTimeout <= P + Waited[MaxRetries - 1]
    <3>1. P \in Nat /\ Q \in Nat /\ R = Q + LLMTimeout /\ R <= P
      BY <1>2, <2>3, <2>4
    <3> HIDE DEF P, Q, R
    <3> QED  BY <1>1, <1>3, <2>2, <3>1
  <2> QED  BY <2>2, <2>3, <2>5, <2>6 DEF LongestChat
<1> QED  BY <1>3, <1>4

\* What a summary is made of has places of memories.
LEMMA FetchedFacts ==
  ASSUME SummaryInv, NEW tier
  PROVE  fetchHighTrustMemories(tier) \in SUBSET (1..MaxKept)
  BY SummaryAssumption DEF SummaryInv, fetchHighTrustMemories, Newest, LiveMemories

\* A request that takes entries out of the cache keeps the rest.
LEMMA InvalidateKeeps ==
  ASSUME SummaryInv, NEW gone, cache' \in {cache, CacheInvalidate(gone)}
  PROVE  /\ DOMAIN cache' \subseteq Tier
         /\ \A tier \in DOMAIN cache' : cache'[tier] \in Entries
         /\ KeptInTime'
<1>1. DOMAIN cache' \subseteq DOMAIN cache /\ \A tier \in DOMAIN cache' : cache'[tier] = cache[tier]
  BY DEF CacheInvalidate
<1> QED  BY <1>1 DEF SummaryInv, KeptInTime

\* A call begins.
LEMMA ChatKeeps ==
  ASSUME SummaryInv, NEW op \in {"summary", "extract", "precompress"},
         NEW tier \in Tier \cup {"none"}, op = "summary" => tier \in Tier,
         NEW value \in SUBSET (1..MaxKept), Chat(op, tier, value), now' = now
  PROVE  asking' \in Chats /\ AskedInTime'
<1>1. now \in Nat /\ LLMTimeout \in Nat /\ 1 \in 1..MaxRetries
  BY SummaryAssumption DEF SummaryInv
<1>2. asking' \in Chats
  BY <1>1 DEF Chat, Chats
<1>3. /\ asking'.op = op /\ asking'.tier = tier
      /\ asking'.since = now /\ asking'.taken = now /\ asking'.attempt = 1
  BY DEF Chat
<1>4. 0 * LLMTimeout = 0 /\ Waited[0] = 0
  BY <1>1, WaitedAdds
<1> QED  BY <1>1, <1>2, <1>3, <1>4 DEF AskedInTime

\* Looking for a summary.
LEMMA SummaryOfKeeps ==
  ASSUME SummaryInv, NEW tier \in Tier, NEW force \in BOOLEAN, SummaryOf(tier, force)
  PROVE  SummaryInv'
<1> USE SummaryAssumption
<1>1. UNCHANGED <<kept, now>> /\ cache' \in {cache, CacheInvalidate({tier})}
  BY DEF SummaryOf, FromCache, ListFails, SayNone, AskLLM, Dropped
<1>2. /\ DOMAIN cache' \subseteq Tier
      /\ \A u \in DOMAIN cache' : cache'[u] \in Entries
      /\ KeptInTime'
  BY <1>1, InvalidateKeeps
<1>3. asking' = Nobody \/ (asking' \in Chats /\ AskedInTime')
  <2>1. CASE UNCHANGED asking
    BY <1>1, <2>1 DEF SummaryInv, AskedInTime
  <2>2. CASE AskLLM(tier, force)
    <3>1. Chat("summary", tier, fetchHighTrustMemories(tier))
      BY <2>2 DEF AskLLM
    <3> QED  BY <1>1, <3>1, ChatKeeps, FetchedFacts
  <2> QED  BY <2>1, <2>2 DEF SummaryOf, FromCache, ListFails, SayNone
<1>4. SummaryInTime'
  <2>1. CASE FromCache(tier)
    <3>1. /\ tier \in DOMAIN cache /\ cache[tier] \in Entries /\ now \in Nat
          /\ now <= cache[tier].expiresAt
          /\ cache[tier].expiresAt <= cache[tier].taken + LongestChat + TTL[tier]
      BY <2>1 DEF FromCache, CacheGet, expired, SummaryInv, KeptInTime, Entries
    <3>2. cache[tier].taken \in Nat /\ cache[tier].expiresAt \in Nat /\ TTL[tier] \in Nat
      BY <3>1 DEF Entries
    <3>3. answer'.age = now - cache[tier].taken /\ answer'.tier = tier
      BY <2>1 DEF FromCache
    <3>4. now - cache[tier].taken <= TTL[tier] + LongestChat
      BY <3>1, <3>2, ChatBounds
    <3> QED  BY <3>3, <3>4 DEF SummaryInTime
  <2>2. CASE ~FromCache(tier)
    <3>1. answer'.kind \in {"error", "none", "nothing"}
      BY <2>2 DEF SummaryOf, ListFails, SayNone, AskLLM, NoAnswer
    <3> QED  BY <3>1 DEF SummaryInTime
  <2> QED  BY <2>1, <2>2
<1> QED  BY <1>1, <1>2, <1>3, <1>4 DEF SummaryInv

\* An attempt that fails and is made again.
LEMMA RetryKeeps ==
  ASSUME SummaryInv, Retry
  PROVE  SummaryInv'
<1>1. asking \in Chats /\ AskedInTime /\ asking.attempt < MaxRetries
  BY DEF SummaryInv, Retry, Attempting
<1>2. PICK n \in 1..MaxRetries : n = asking.attempt
  BY <1>1 DEF Chats
<1>3. PICK Q, R : Q = (n - 1) * LLMTimeout /\ R = n * LLMTimeout
  OBVIOUS
<1>4. n + 1 \in 1..MaxRetries /\ n + 1 - 1 = n
  BY <1>1, <1>2, SummaryAssumption
<1>5. asking.since \in Nat /\ asking.taken \in Nat /\ now \in Nat /\ LLMTimeout \in Nat
  BY <1>1, SummaryAssumption DEF Chats, SummaryInv
<1>6. /\ asking' = [asking EXCEPT !.attempt = n + 1, !.since = now + Backoff[n]]
      /\ UNCHANGED <<kept, cache, now, answer>>
  BY <1>1, <1>2 DEF Retry, Chats
<1>7. Q \in Nat /\ R = Q + LLMTimeout
  BY <1>1, <1>2, <1>3, ChatBounds
<1>8. Backoff[n] \in Nat /\ Waited[n - 1] \in Nat /\ Waited[n] = Waited[n - 1] + Backoff[n]
  BY <1>1, <1>2, ChatBounds
<1>9. /\ asking.since <= asking.taken + Q + Waited[n - 1]
      /\ now <= asking.since + LLMTimeout
  BY <1>1, <1>2, <1>3 DEF AskedInTime
<1>10. asking' \in Chats
  <2>1. now + Backoff[n] \in Nat
    BY <1>5, <1>8
  <2> QED  BY <1>1, <1>4, <1>6, <2>1 DEF Chats
<1>11. /\ asking'.op = asking.op /\ asking'.tier = asking.tier /\ asking'.taken = asking.taken
       /\ asking'.attempt = n + 1 /\ asking'.since = now + Backoff[n]
  BY <1>1, <1>6 DEF Chats
<1>12. now + Backoff[n] <= asking.taken + R + Waited[n]
  BY <1>5, <1>7, <1>8, <1>9
<1>13. now <= now + Backoff[n] + LLMTimeout
  BY <1>5, <1>8
<1>14. AskedInTime'
  <2>1. asking'.since <= asking'.taken + (asking'.attempt - 1) * LLMTimeout + Waited[asking'.attempt - 1]
    BY <1>3, <1>4, <1>11, <1>12
  <2>2. now' <= asking'.since + LLMTimeout
    BY <1>6, <1>11, <1>13
  <2>3. asking'.op = "summary" => asking'.tier \in Tier
    BY <1>1, <1>11 DEF AskedInTime
  <2> QED  BY <2>1, <2>2, <2>3 DEF AskedInTime
<1>15. KeptInTime' /\ SummaryInTime'
  BY <1>6 DEF SummaryInv, KeptInTime, SummaryInTime
<1> QED  BY <1>6, <1>10, <1>14, <1>15 DEF SummaryInv

\* The LLM has answered in time, so what is kept of it is.
LEMMA SummarisedKeeps ==
  ASSUME SummaryInv, Summarised
  PROVE  SummaryInv'
<1> USE SummaryAssumption
<1> DEFINE tier == asking.tier
           n == asking.attempt
<1>1. asking \in Chats /\ AskedInTime /\ tier \in Tier
  BY DEF SummaryInv, Summarised, Attempting, AskedInTime
<1>2. /\ n \in 1..MaxRetries /\ asking.value \in SUBSET (1..MaxKept)
      /\ asking.since \in Nat /\ asking.taken \in Nat /\ now \in Nat /\ LLMTimeout \in Nat
      /\ TTL[tier] \in Nat
  BY <1>1 DEF Chats, SummaryInv
<1>3. now <= asking.taken + LongestChat
  <2>1. /\ asking.since <= asking.taken + (n - 1) * LLMTimeout + Waited[n - 1]
        /\ now <= asking.since + LLMTimeout
    BY <1>1 DEF AskedInTime
  <2>2. PICK Q : Q = (n - 1) * LLMTimeout
    OBVIOUS
  <2>3. /\ Q \in Nat /\ Waited[n - 1] \in Nat /\ LongestChat \in Nat
        /\ Q + Waited[n - 1] + LLMTimeout <= LongestChat
    BY <1>2, <2>2, ChatBounds
  <2>4. asking.since <= asking.taken + Q + Waited[n - 1] /\ now <= asking.since + LLMTimeout
    BY <2>1, <2>2
  <2>5. \E W : W = Waited[n - 1]
    OBVIOUS
  <2> HIDE DEF n
  <2>6. PICK W \in Nat : /\ Q + W + LLMTimeout <= LongestChat
                         /\ asking.since <= asking.taken + Q + W
    BY <2>3, <2>4, <2>5
  <2> QED  BY ONLY <1>2, <2>3, <2>4, <2>6
<1>4. cache' = [u \in DOMAIN cache \cup {tier} |->
                  IF u = tier THEN [value |-> asking.value, taken |-> asking.taken,
                                    expiresAt |-> now + TTL[tier]]
                  ELSE cache[u]]
  BY DEF Summarised, CacheSet
<1>5. DOMAIN cache' = DOMAIN cache \cup {tier} /\ DOMAIN cache' \subseteq Tier
  BY <1>1, <1>4 DEF SummaryInv
<1>6. ASSUME NEW u \in DOMAIN cache'
      PROVE  cache'[u] \in Entries /\ cache'[u].expiresAt <= cache'[u].taken + LongestChat + TTL[u]
  <2>1. CASE u = tier
    <3>1. cache'[u] = [value |-> asking.value, taken |-> asking.taken, expiresAt |-> now + TTL[tier]]
      BY <1>4, <1>5, <2>1
    <3>2. cache'[u] \in Entries
      BY <1>2, <3>1 DEF Entries
    <3> QED  BY <1>2, <1>3, <2>1, <3>1, <3>2, ChatBounds
  <2>2. CASE u # tier
    <3>1. u \in DOMAIN cache /\ cache'[u] = cache[u]
      BY <1>4, <1>5, <2>2
    <3> QED  BY <3>1 DEF SummaryInv, KeptInTime
  <2> QED  BY <2>1, <2>2
<1>7. SummaryInTime'
  <2>1. answer'.age = now - asking.taken /\ answer'.tier = tier
    BY DEF Summarised
  <2>2. LongestChat \in Nat
    BY ChatBounds
  <2>3. now - asking.taken <= TTL[tier] + LongestChat
    BY SMTT(30), <1>2, <1>3, <2>2
  <2> QED  BY <2>1, <2>3 DEF SummaryInTime
<1> QED  BY <1>5, <1>6, <1>7 DEF Summarised, SummaryInv, KeptInTime

\* The memories change, and what is asked and kept does not.
LEMMA MemoriesKeep ==
  ASSUME SummaryInv, kept' \in Seq([trust : Level, archived : BOOLEAN]), Len(kept') <= MaxKept,
         UNCHANGED <<cache, now>>, asking' \in {asking, Nobody},
         answer'.kind \notin {"cached", "fresh"}
  PROVE  SummaryInv'
<1>1. asking' = Nobody \/ (asking' \in Chats /\ AskedInTime')
  BY DEF SummaryInv, AskedInTime
<1> QED  BY <1>1 DEF SummaryInv, KeptInTime, SummaryInTime

LEMMA SummaryStep == SummaryInv /\ [SummaryNext]_summaryVars => SummaryInv'
<1> SUFFICES ASSUME SummaryInv, [SummaryNext]_summaryVars  PROVE SummaryInv'
  OBVIOUS
<1> USE SummaryAssumption
<1> DEFINE RowTypes == [trust : Level, archived : BOOLEAN]
<1>1. New \in RowTypes /\ kept \in Seq(RowTypes) /\ Len(kept) \in Nat /\ Len(kept) <= MaxKept
  BY DEF New, Level, SummaryInv
<1>2. ASSUME \E force \in BOOLEAN : GetTier0Summary(force) \/ GetTier1Summary(force)  PROVE SummaryInv'
  BY <1>2, SummaryOfKeeps DEF GetTier0Summary, GetTier1Summary, Tier
<1>3. ASSUME NEW op \in {"extract", "precompress"}, NEW text \in BOOLEAN, Extract(op, text)
      PROVE  SummaryInv'
  <2>1. asking' = Nobody \/ (asking' \in Chats /\ AskedInTime')
    <3>1. CASE text
      BY <1>3, <3>1, ChatKeeps DEF Extract
    <3>2. CASE ~text
      BY <1>3, <3>2 DEF Extract
    <3> QED  BY <3>1, <3>2
  <2>2. answer'.kind \in {"extract", "precompress", "nothing"}
    BY <1>3 DEF Extract, NoAnswer
  <2> QED  BY <1>3, <2>1, <2>2 DEF Extract, SummaryInv, KeptInTime, SummaryInTime
<1>4. CASE LLMFails
  BY <1>1, <1>4, MemoriesKeep DEF LLMFails
<1>5. CASE Extracted
  <2>1. PICK stored \in Parsed : kept' = kept \o [i \in 1..stored |-> New]
                                 /\ answer' = [kind |-> asking.op, stored |-> stored]
    BY <1>5 DEF Extracted
  <2>2. stored \in Nat /\ Len(kept) + stored <= MaxKept
    BY <1>1 DEF Parsed
  <2>3. [i \in 1..stored |-> New] \in Seq(RowTypes) /\ Len([i \in 1..stored |-> New]) = stored
    BY <1>1, <2>2, SeqDef, LenProperties
  <2>4. kept' \in Seq(RowTypes) /\ Len(kept') <= MaxKept
    <3> HIDE DEF RowTypes
    <3> QED  BY <1>1, <2>1, <2>2, <2>3, ConcatProperties
  <2>5. answer'.kind \notin {"cached", "fresh"}
    BY <1>5, <2>1 DEF Extracted
  <2> QED  BY <1>5, <2>4, <2>5, MemoriesKeep DEF Extracted
<1>6. ASSUME NEW gone, InvalidateCache(gone)  PROVE SummaryInv'
  <2>1. cache' \in {cache, CacheInvalidate(gone)} /\ UNCHANGED <<kept, now, asking>>
        /\ answer'.kind = "nothing"
    BY <1>6 DEF InvalidateCache, NoAnswer
  <2> QED  BY <2>1, InvalidateKeeps DEF SummaryInv, AskedInTime, SummaryInTime
<1>7. CASE Remember
  <2>1. kept' \in Seq(RowTypes) /\ Len(kept') <= MaxKept
    <3> HIDE DEF RowTypes
    <3> QED  BY <1>1, <1>7, AppendProperties DEF Remember
  <2> QED  BY <1>7, <2>1, MemoriesKeep DEF Remember, NoAnswer
<1>8. ASSUME NEW i \in DOMAIN kept, Raise(i) \/ Fade(i)  PROVE SummaryInv'
  <2>1. \E row \in RowTypes : kept' = [kept EXCEPT ![i] = row]
    <3>1. kept[i] \in RowTypes
      <4>1. i \in 1..Len(kept)
        BY <1>1, LenProperties
      <4> QED  BY <1>1, <4>1, ElementOfSeq
    <3>2. kept[i].trust < 2 => [kept[i] EXCEPT !.trust = kept[i].trust + 1] \in RowTypes
      <4>1. kept[i].trust < 2 => kept[i].trust + 1 \in 0..2
        BY <3>1 DEF Level
      <4> QED  BY <3>1, <4>1 DEF Level
    <3>3. [kept[i] EXCEPT !.trust = 0] \in RowTypes /\ [kept[i] EXCEPT !.archived = TRUE] \in RowTypes
      <4>1. 0 \in 0..2 /\ TRUE \in BOOLEAN
        OBVIOUS
      <4> QED  BY <3>1, <4>1 DEF Level
    <3> HIDE DEF RowTypes
    <3>4. CASE Raise(i)
      BY <3>2, <3>4 DEF Raise
    <3>5. CASE Fade(i)
      BY <3>3, <3>5 DEF Fade
    <3> QED  BY <1>8, <3>4, <3>5
  <2>2. kept' \in Seq(RowTypes) /\ Len(kept') <= MaxKept
    <3> HIDE DEF RowTypes
    <3> QED  BY <1>1, <2>1, ExceptSeq
  <2> QED  BY <1>8, <2>2, MemoriesKeep DEF Raise, Fade, NoAnswer
<1>9. CASE PassTime
  <2>1. asking = Nobody \/ (asking \in Chats /\ AskedInTime /\ now < asking.since + LLMTimeout)
    BY <1>9 DEF PassTime, SummaryInv
  <2>2. /\ UNCHANGED <<kept, cache, asking>> /\ now' = now + 1 /\ now' \in 0..MaxNow
        /\ answer'.kind = "nothing"
    BY <1>9 DEF PassTime, SummaryInv, NoAnswer
  <2>3. asking = Nobody \/ (asking \in Chats /\ AskedInTime')
    <3>1. asking \in Chats => asking.since \in Nat
      BY DEF Chats
    <3>2. now \in Nat /\ LLMTimeout \in Nat
      BY DEF SummaryInv
    <3>3. asking \in Chats /\ now < asking.since + LLMTimeout => now + 1 <= asking.since + LLMTimeout
      BY <3>1, <3>2
    <3> QED  BY <2>1, <2>2, <3>3 DEF AskedInTime
  <2> QED  BY <2>2, <2>3 DEF SummaryInv, KeptInTime, SummaryInTime
<1>10. CASE UNCHANGED summaryVars
  BY <1>10 DEF summaryVars, SummaryInv, KeptInTime, AskedInTime, SummaryInTime
<1> QED
  BY <1>2, <1>3, RetryKeeps, <1>4, SummarisedKeeps, <1>5, <1>6, <1>7, <1>8, <1>9, <1>10
     DEF SummaryNext, handleMemoryGetTier0Summary, handleMemoryGetTier1Summary,
         handleMemoryTriggerExtraction, handleMemoryPrecompressExtraction,
         TriggerExtraction, PrecompressExtraction, LiveMemories

THEOREM SummaryInductive == SummarySpec => []SummaryInv
<1>1. SummaryInit => SummaryInv
  <2> SUFFICES ASSUME SummaryInit  PROVE SummaryInv
    OBVIOUS
  <2>1. kept = <<>> /\ cache = <<>> /\ now = 0 /\ asking = Nobody /\ answer.kind = "nothing"
    BY DEF SummaryInit, NoAnswer
  <2>2. DOMAIN <<>> = {} /\ Len(<<>>) = 0 /\ <<>> \in Seq([trust : Level, archived : BOOLEAN])
    BY EmptySeq
  <2> QED  BY <2>1, <2>2, SummaryAssumption DEF SummaryInv, KeptInTime, SummaryInTime
<1> QED  BY <1>1, SummaryStep, PTL DEF SummarySpec

\* A summary that is served describes memories no older than its lifetime and the
\* longest call of the LLM, whatever the timeouts, attempts and backoffs.
THEOREM ServedInTime == SummarySpec => []SummaryInTime
<1>1. SummaryInv => SummaryInTime
  BY DEF SummaryInv
<1> QED  BY <1>1, SummaryInductive, PTL

\* The memories, the cache and the call are of their types.
THEOREM SummaryTypeCorrect == SummarySpec => []SummaryTypeOK
<1>1. ASSUME SummaryInv  PROVE SummaryTypeOK
  <2>1. /\ Len(kept) \in 0..MaxKept
        /\ \A i \in DOMAIN kept : kept[i] \in [trust : Level, archived : BOOLEAN]
    <3> DEFINE RowTypes == [trust : Level, archived : BOOLEAN]
    <3>1. kept \in Seq(RowTypes) /\ Len(kept) <= MaxKept
      BY <1>1 DEF SummaryInv
    <3> HIDE DEF RowTypes
    <3>2. Len(kept) \in 0..MaxKept /\ \A i \in DOMAIN kept : kept[i] \in RowTypes
      BY <3>1, LenProperties, ElementOfSeq, SummaryAssumption
    <3> QED  BY <3>2 DEF RowTypes
  <2>2. \A tier \in DOMAIN cache : cache[tier].value \subseteq 1..MaxKept
    BY <1>1 DEF SummaryInv, Entries
  <2>3. /\ asking.op \in {"none", "summary", "extract", "precompress"}
        /\ asking # Nobody => asking.attempt \in 1..MaxRetries
    BY <1>1 DEF SummaryInv, Nobody, Chats
  <2> QED  BY <1>1, <2>1, <2>2, <2>3 DEF SummaryInv, SummaryTypeOK
<1> QED  BY <1>1, SummaryInductive, PTL
-----------------------------------------------------------------------------
(* Thought chains.                                                         *)

\* Where a thought came from: a revision from the newest with its number on its
\* chain, a branch from one with the number before.
CameFrom(i) ==
    LET t == thoughts[i]
        WasThere(s) == s \in 1..(i - 1) /\ thoughts[s].chain = t.chain
    IN  /\ t.revises # 0 =>
              /\ WasThere(t.revises)
              /\ thoughts[t.revises].number = t.number
              /\ \A j \in 1..(i - 1) :
                    thoughts[j].chain = t.chain /\ thoughts[j].number = t.number => j <= t.revises
        /\ t.from # 0 => WasThere(t.from) /\ thoughts[t.from].number + 1 = t.number

ThoughtRows == [chain : Chain, text : Idea, number : Nat \ {0}, revises : Nat, from : Nat]

ThoughtInv ==
    /\ chains \in [Chain -> {"none", "active", "paused", "abandoned"}]
    /\ thoughts \in Seq(ThoughtRows) /\ Len(thoughts) <= MaxThoughts
    /\ \A i \in 1..Len(thoughts) : CameFrom(i)
    /\ \A note \in notes : \E i \in 1..Len(thoughts) : note = thoughtContentHash(thoughts[i])
    /\ \/ shown = <<>>
       \/ \E c \in Chain : shown = <<[chain |-> c, thoughts |-> GetThoughtChain(c)]>>

\* So many numbers.
LEMMA FirstNumbers ==
  ASSUME NEW n \in Nat
  PROVE  IsFiniteSet(0..(n - 1)) /\ Cardinality(0..(n - 1)) = n
  BY FS_Interval

\* Ranks put a finite set that is strictly ordered in order: every element has one
\* place, and what comes before another has a place before it.
LEMMA RankedInOrder ==
  ASSUME NEW S, IsFiniteSet(S), NEW Pre \in [S -> SUBSET S],
         \A i \in S : i \notin Pre[i],
         \A i, j \in S : i # j => i \in Pre[j] \/ j \in Pre[i],
         \A i, j, k \in S : i \in Pre[j] /\ j \in Pre[k] => i \in Pre[k],
         NEW list,
         \A k \in 1..Cardinality(S), i \in S :
            Cardinality(Pre[i]) = k - 1
            => list[k] \in S /\ Cardinality(Pre[list[k]]) = k - 1
  PROVE  /\ Cardinality(S) \in Nat
         /\ \A k \in 1..Cardinality(S) : list[k] \in S
         /\ \A i \in S : \E k \in 1..Cardinality(S) : list[k] = i
         /\ \A j, k \in 1..Cardinality(S) : list[j] \in Pre[list[k]] => j < k
         /\ \A j, k \in 1..Cardinality(S) : list[j] = list[k] => j = k
<1> DEFINE N == Cardinality(S)
           rank == [i \in S |-> Cardinality(Pre[i])]
<1>1. N \in Nat
  BY FS_CardinalityType
<1>2. \A i \in S : IsFiniteSet(Pre[i]) /\ Cardinality(Pre[i]) \in Nat
  <2>1. ASSUME NEW i \in S  PROVE IsFiniteSet(Pre[i]) /\ Cardinality(Pre[i]) \in Nat
    <3>1. Pre[i] \in SUBSET S
      OBVIOUS
    <3> QED  BY <3>1, FS_Subset, FS_CardinalityType
  <2> QED  BY <2>1
<1>3. \A i \in S : rank[i] \in 0..(N - 1)
  <2>1. ASSUME NEW i \in S  PROVE Cardinality(Pre[i]) < N
    <3>1. Pre[i] \in SUBSET S /\ Pre[i] # S
      OBVIOUS
    <3>2. Cardinality(Pre[i]) <= N /\ Cardinality(Pre[i]) # N
      BY <3>1, FS_Subset
    <3> QED  BY <1>1, <1>2, <3>2
  <2> HIDE DEF N
  <2>2. ASSUME NEW i \in S  PROVE rank[i] \in 0..(N - 1)
    BY <1>1, <1>2, <2>1
  <2> QED  BY <2>2
<1>4. \A i, j \in S : i \in Pre[j] => rank[i] < rank[j]
  <2>1. ASSUME NEW i \in S, NEW j \in S, i \in Pre[j]
        PROVE  Cardinality(Pre[i]) < Cardinality(Pre[j])
    <3>1. Pre[i] \in SUBSET Pre[j] /\ i \in Pre[j] /\ i \notin Pre[i]
      BY <2>1
    <3>2. Pre[i] # Pre[j]
      BY <3>1
    <3>3. /\ Cardinality(Pre[i]) <= Cardinality(Pre[j])
          /\ Cardinality(Pre[i]) # Cardinality(Pre[j])
      BY <1>2, <3>1, <3>2, FS_Subset
    <3> QED  BY <1>2, <3>3
  <2> QED  BY <2>1
<1>5. \A i, j \in S : rank[i] = rank[j] => i = j
  <2> HIDE DEF rank, N
  <2> SUFFICES ASSUME NEW i \in S, NEW j \in S, i # j  PROVE rank[i] # rank[j]
    OBVIOUS
  <2>1. rank[i] \in Nat /\ rank[j] \in Nat
    BY <1>1, <1>3
  <2>2. rank[i] < rank[j] \/ rank[j] < rank[i]
    BY <1>4
  <2> QED  BY <2>1, <2>2
<1>6. rank \in Surjection(S, 0..(N - 1))
  <2>1. rank \in Injection(S, 0..(N - 1))
    <3>1. rank \in [S -> 0..(N - 1)]
      <4> HIDE DEF N
      <4>1. rank = [i \in S |-> rank[i]]
        OBVIOUS
      <4> HIDE DEF rank
      <4> QED  BY <1>3, <4>1
    <3> HIDE DEF rank, N
    <3> QED  BY <1>5, <3>1 DEF Injection, IsInjective
  <2> HIDE DEF rank, N
  <2>2. IsFiniteSet(0..(N - 1)) /\ Cardinality(0..(N - 1)) = N
    BY <1>1, FirstNumbers
  <2> QED  BY <2>1, <2>2, FS_Injection DEF N
<1>7. \A k \in 1..N : list[k] \in S /\ rank[list[k]] = k - 1
  <2>1. ASSUME NEW k \in 1..N  PROVE list[k] \in S /\ rank[list[k]] = k - 1
    <3>1. k - 1 \in 0..(N - 1)
      BY <1>1
    <3>2. PICK i \in S : rank[i] = k - 1
      <4> HIDE DEF rank, N
      <4> QED  BY <1>6, <3>1 DEF Surjection
    <3>3. Cardinality(Pre[i]) = k - 1
      BY <3>2
    <3>4. list[k] \in S /\ Cardinality(Pre[list[k]]) = k - 1
      BY <3>3
    <3> QED  BY <3>4
  <2> QED  BY <2>1
<1> HIDE DEF rank, N
<1>8. ASSUME NEW i \in S  PROVE \E k \in 1..N : list[k] = i
  <2>1. rank[i] + 1 \in 1..N /\ (rank[i] + 1) - 1 = rank[i]
    BY <1>1, <1>3
  <2>2. list[rank[i] + 1] = i
    BY <1>5, <1>7, <2>1
  <2> QED  BY <2>1, <2>2
<1>9. ASSUME NEW j \in 1..N, NEW k \in 1..N, list[j] \in Pre[list[k]]  PROVE j < k
  <2>1. list[j] \in S /\ list[k] \in S /\ rank[list[j]] = j - 1 /\ rank[list[k]] = k - 1
    BY <1>7
  <2>2. rank[list[j]] < rank[list[k]]
    BY <1>4, <1>9, <2>1
  <2> QED  BY <1>1, <2>1, <2>2
<1>10. ASSUME NEW j \in 1..N, NEW k \in 1..N, list[j] = list[k]  PROVE j = k
  <2>1. j - 1 = k - 1
    BY <1>7, <1>10
  <2> QED  BY <1>1, <2>1
<1> QED  BY <1>1, <1>7, <1>8, <1>9, <1>10 DEF N

\* The last of some of the first numbers.
LEMMA LastNumber ==
  ASSUME NEW n \in Nat, NEW W \in SUBSET (1..n), W # {}
  PROVE  \E i \in W : \A j \in W : j <= i
<1> DEFINE T == {n - i : i \in W}
<1>1. T \in SUBSET Nat /\ T # {}
  OBVIOUS
<1>2. PICK t \in T : \A s \in T : t <= s
  <2> HIDE DEF T
  <2> QED  BY <1>1, LeastNumber
<1>3. PICK i \in W : t = n - i
  OBVIOUS
<1>4. ASSUME NEW j \in W  PROVE j <= i
  <2>1. n - j \in T
    OBVIOUS
  <2>2. n - i <= n - j
    BY <1>2, <1>3, <2>1
  <2> QED  BY <2>2
<1> QED  BY <1>4

\* The thought found by its number is the newest with it.
LEMMA NewestWithNumber ==
  ASSUME ThoughtInv, NEW c, NEW n, WithNumber(c, n) # {}
  PROVE  /\ GetThoughtByNumber(c, n) \in 1..Len(thoughts)
         /\ thoughts[GetThoughtByNumber(c, n)].chain = c
         /\ thoughts[GetThoughtByNumber(c, n)].number = n
         /\ \A j \in 1..Len(thoughts) :
               thoughts[j].chain = c /\ thoughts[j].number = n => j <= GetThoughtByNumber(c, n)
<1>1. DOMAIN thoughts = 1..Len(thoughts) /\ Len(thoughts) \in Nat
  BY LenProperties DEF ThoughtInv
<1>2. WithNumber(c, n) \in SUBSET (1..Len(thoughts))
  BY <1>1 DEF WithNumber
<1>3. \E i \in WithNumber(c, n) : \A j \in WithNumber(c, n) : j <= i
  BY <1>1, <1>2, LastNumber
<1>4. /\ GetThoughtByNumber(c, n) \in WithNumber(c, n)
      /\ \A j \in WithNumber(c, n) : j <= GetThoughtByNumber(c, n)
  BY <1>3 DEF GetThoughtByNumber
<1> QED  BY <1>1, <1>4 DEF WithNumber

\* A thought is added, with the memory of it or without.
LEMMA AddedKeeps ==
  ASSUME ThoughtInv, NEW t \in ThoughtRows, InsertThought(t), BridgeThought(t),
         shown' = <<>>, UNCHANGED chains,
         t.revises # 0 =>
            /\ t.revises \in 1..Len(thoughts)
            /\ thoughts[t.revises].chain = t.chain
            /\ thoughts[t.revises].number = t.number
            /\ \A j \in 1..Len(thoughts) :
                  thoughts[j].chain = t.chain /\ thoughts[j].number = t.number => j <= t.revises,
         t.from # 0 =>
            /\ t.from \in 1..Len(thoughts)
            /\ thoughts[t.from].chain = t.chain
            /\ thoughts[t.from].number + 1 = t.number
  PROVE  ThoughtInv'
<1> DEFINE n == Len(thoughts)
<1>1. thoughts \in Seq(ThoughtRows) /\ n \in Nat
  BY LenProperties DEF ThoughtInv
<1>2. /\ thoughts' \in Seq(ThoughtRows) /\ Len(thoughts') = n + 1
      /\ \A i \in 1..n : thoughts'[i] = thoughts[i]
      /\ thoughts'[n + 1] = t
  BY <1>1, AppendProperties DEF InsertThought
<1>3. Len(thoughts') <= MaxThoughts
  BY <1>1, <1>2, ThoughtAssumption DEF InsertThought
<1> HIDE DEF n
<1>4. ASSUME NEW i \in 1..(n + 1)  PROVE CameFrom(i)'
  <2>1. ASSUME i \in 1..n  PROVE CameFrom(i)'
    <3>1. CameFrom(i)
      BY <2>1 DEF ThoughtInv, n
    <3>2. 1..(i - 1) \subseteq 1..n
      BY <1>1, <2>1
    <3>3. thoughts'[i] = thoughts[i] /\ \A j \in 1..(i - 1) : thoughts'[j] = thoughts[j]
      BY <1>2, <2>1, <3>2
    <3> QED  BY <3>1, <3>3 DEF CameFrom
  <2>2. ASSUME i = n + 1  PROVE CameFrom(i)'
    <3>1. thoughts'[i] = t /\ i - 1 = n
      BY <1>1, <1>2, <2>2
    <3>2. \A j \in 1..n : thoughts'[j] = thoughts[j]
      BY <1>2
    <3> QED  BY <3>1, <3>2 DEF CameFrom, n
  <2> QED  BY <1>1, <2>1, <2>2
<1>5. ASSUME NEW note \in notes'
      PROVE  \E i \in 1..(n + 1) : note = thoughtContentHash(thoughts'[i])
  <2>1. CASE note \in notes
    <3>1. PICK i \in 1..n : note = thoughtContentHash(thoughts[i])
      BY <2>1 DEF ThoughtInv, n
    <3>2. i \in 1..(n + 1) /\ thoughts'[i] = thoughts[i]
      BY <1>1, <1>2
    <3> QED  BY <3>1, <3>2
  <2>2. CASE note = thoughtContentHash(t)
    <3>1. n + 1 \in 1..(n + 1)
      BY <1>1
    <3> QED  BY <1>2, <2>2, <3>1
  <2> QED  BY <2>1, <2>2 DEF BridgeThought
<1>6. /\ \A i \in 1..Len(thoughts') : CameFrom(i)'
      /\ \A note \in notes' : \E i \in 1..Len(thoughts') : note = thoughtContentHash(thoughts'[i])
  BY <1>2, <1>4, <1>5
<1> QED  BY <1>2, <1>3, <1>6 DEF ThoughtInv

\* An answer changes only what is shown.
LEMMA ShownKeeps ==
  ASSUME ThoughtInv, UNCHANGED <<thoughts, notes>>,
         chains' \in [Chain -> {"none", "active", "paused", "abandoned"}],
         \/ shown' = <<>>
         \/ \E c \in Chain : shown' = <<[chain |-> c, thoughts |-> GetThoughtChain(c)]>>
  PROVE  ThoughtInv'
<1>1. \A c : GetThoughtChain(c)' = GetThoughtChain(c)
  BY DEF GetThoughtChain
<1>2. \A i \in 1..Len(thoughts) : CameFrom(i)'
  BY DEF ThoughtInv, CameFrom
<1> QED  BY <1>1, <1>2 DEF ThoughtInv

LEMMA ThoughtStep == ThoughtInv /\ [ThoughtNext]_thoughtVars => ThoughtInv'
<1> SUFFICES ASSUME ThoughtInv, [ThoughtNext]_thoughtVars  PROVE ThoughtInv'
  OBVIOUS
<1>1. ASSUME NEW c \in Chain, StartChain(c)  PROVE ThoughtInv'
  <2>1. chains' \in [Chain -> {"none", "active", "paused", "abandoned"}]
    BY <1>1 DEF StartChain, InsertThoughtChain, ThoughtInv
  <2> QED  BY <1>1, <2>1, ShownKeeps DEF StartChain
<1>2. ASSUME NEW c \in Chain, NEW n \in Number, NEW text \in Idea, AddThought(c, n, text)
      PROVE  ThoughtInv'
  <2>1. /\ Thought(c, n, text) \in ThoughtRows
        /\ Thought(c, n, text).revises = 0 /\ Thought(c, n, text).from = 0
    BY ThoughtAssumption DEF Thought, ThoughtRows, Number
  <2> QED  BY <1>2, <2>1, AddedKeeps DEF AddThought
<1>3. ASSUME NEW c \in Chain, NEW n \in Number, NEW text \in Idea, ReviseThought(c, n, text)
      PROVE  ThoughtInv'
  <2> DEFINE t == Revision(c, n, text)
             s == GetThoughtByNumber(c, n)
  <2>1. /\ s \in 1..Len(thoughts) /\ thoughts[s].chain = c /\ thoughts[s].number = n
        /\ \A j \in 1..Len(thoughts) : thoughts[j].chain = c /\ thoughts[j].number = n => j <= s
    BY <1>3, NewestWithNumber DEF ReviseThought
  <2> HIDE DEF s
  <2>2. t = [chain |-> c, text |-> text, number |-> n, revises |-> s, from |-> 0]
    BY DEF Revision, Thought, s
  <2>3. t \in ThoughtRows /\ t.chain = c /\ t.number = n /\ t.revises = s /\ t.from = 0
    BY <2>1, <2>2, ThoughtAssumption DEF ThoughtRows, Number
  <2>4. InsertThought(t) /\ BridgeThought(t) /\ shown' = <<>> /\ UNCHANGED chains
    BY <1>3 DEF ReviseThought
  <2> HIDE DEF t
  <2> QED  BY <2>1, <2>3, <2>4, AddedKeeps
<1>4. ASSUME NEW c \in Chain, NEW n \in Number \cup {0}, NEW text \in Idea, BranchThought(c, n, text)
      PROVE  ThoughtInv'
  <2> DEFINE t == Branch(c, n, text)
             s == GetThoughtByNumber(c, n)
  <2>1. s \in 1..Len(thoughts) /\ thoughts[s].chain = c /\ thoughts[s].number = n
    BY <1>4, NewestWithNumber DEF BranchThought
  <2> HIDE DEF s
  <2>2. t = [chain |-> c, text |-> text, number |-> n + 1, revises |-> 0, from |-> s]
    BY DEF Branch, Thought, s
  <2>3. t \in ThoughtRows /\ t.chain = c /\ t.number = n + 1 /\ t.revises = 0 /\ t.from = s
    BY <2>1, <2>2, ThoughtAssumption DEF ThoughtRows, Number
  <2>4. InsertThought(t) /\ BridgeThought(t) /\ shown' = <<>> /\ UNCHANGED chains
    BY <1>4 DEF BranchThought
  <2> HIDE DEF t
  <2> QED  BY <2>1, <2>3, <2>4, AddedKeeps
<1>5. ASSUME NEW c \in Chain, PauseChain(c) \/ ResumeChain(c) \/ AbandonChain(c)  PROVE ThoughtInv'
  <2>1. \E s \in {"active", "paused", "abandoned"} : UpdateThoughtChainStatus(c, s)
    BY <1>5 DEF PauseChain, ResumeChain, AbandonChain
  <2>2. chains' \in [Chain -> {"none", "active", "paused", "abandoned"}]
    BY <2>1 DEF UpdateThoughtChainStatus, ThoughtInv
  <2> QED  BY <2>1, <2>2, ShownKeeps DEF UpdateThoughtChainStatus
<1>6. ASSUME NEW c \in Chain, GetChain(c)  PROVE ThoughtInv'
  BY <1>6, ShownKeeps DEF GetChain, ThoughtInv
<1>7. ASSUME NEW text \in Idea, GetRelated(text)  PROVE ThoughtInv'
  BY <1>7, ShownKeeps DEF GetRelated, GetRelatedChains, ThoughtInv
<1>8. CASE UNCHANGED thoughtVars
  BY <1>8, ShownKeeps DEF thoughtVars, ThoughtInv
<1> QED
  BY <1>1, <1>2, <1>3, <1>4, <1>5, <1>6, <1>7, <1>8
     DEF ThoughtNext, handleMemoryStartThoughtChain, handleMemoryAddThought,
         handleMemoryGetThoughtChain, handleMemoryGetRelatedThoughtChains,
         handleMemoryReviseThought, handleMemoryBranchThought, handleMemoryPauseThoughtChain,
         handleMemoryResumeThoughtChain, handleMemoryAbandonThoughtChain

\* What is known of every thought, its memory and the chains shown is kept by every
\* request.
THEOREM ThoughtInductive == ThoughtSpec => []ThoughtInv
<1>1. ThoughtInit => ThoughtInv
  <2> SUFFICES ASSUME ThoughtInit  PROVE ThoughtInv
    OBVIOUS
  <2>1. thoughts = <<>> /\ notes = {} /\ shown = <<>> /\ chains = [c \in Chain |-> "none"]
    BY DEF ThoughtInit
  <2>2. Len(<<>>) = 0 /\ <<>> \in Seq(ThoughtRows)
    BY EmptySeq
  <2>3. 1..0 = {}
    OBVIOUS
  <2> QED  BY <2>1, <2>2, <2>3, ThoughtAssumption DEF ThoughtInv
<1> QED  BY <1>1, ThoughtStep, PTL DEF ThoughtSpec

\* A chain is shown by number and age, each of its thoughts in one place.
LEMMA ChainShown ==
  ASSUME ThoughtInv, NEW c \in Chain, NEW list, list = GetThoughtChain(c)
  PROVE  /\ \A k \in DOMAIN list : list[k] \in 1..Len(thoughts) /\ thoughts[list[k]].chain = c
         /\ \A i \in 1..Len(thoughts) :
               thoughts[i].chain = c => \E k \in DOMAIN list : list[k] = i
         /\ \A j, k \in DOMAIN list :
               \/ thoughts[list[j]].number < thoughts[list[k]].number
               \/ thoughts[list[j]].number = thoughts[list[k]].number /\ list[j] < list[k]
               => j < k
<1> DEFINE R == {i \in DOMAIN thoughts : thoughts[i].chain = c}
           Before(i, j) == \/ thoughts[i].number < thoughts[j].number
                           \/ thoughts[i].number = thoughts[j].number /\ i < j
           Precedes == [i \in R |-> {j \in R : Before(j, i)}]
<1>1. DOMAIN thoughts = 1..Len(thoughts) /\ Len(thoughts) \in Nat
  BY LenProperties DEF ThoughtInv
<1>2. R \in SUBSET (1..Len(thoughts)) /\ IsFiniteSet(R)
  <2>1. R \in SUBSET (1..Len(thoughts))
    BY <1>1
  <2> HIDE DEF R
  <2>2. IsFiniteSet(1..Len(thoughts))
    BY <1>1, FS_Interval
  <2> QED  BY <2>1, <2>2, FS_Subset
<1>3. \A i \in R : thoughts[i].chain = c
  OBVIOUS
<1>4. \A i \in R : thoughts[i].number \in Nat
  <2>1. \A i \in 1..Len(thoughts) : thoughts[i] \in ThoughtRows
    BY ElementOfSeq DEF ThoughtInv
  <2> QED  BY <1>2, <2>1 DEF ThoughtRows
<1>5. \A i \in 1..Len(thoughts) : thoughts[i].chain = c => i \in R
  BY <1>1
<1>6. \A i \in R : Precedes[i] = {j \in R : Before(j, i)}
  OBVIOUS
<1>7. ASSUME NEW k \in 1..Cardinality(R), NEW i \in R, Cardinality(Precedes[i]) = k - 1
      PROVE  list[k] \in R /\ Cardinality(Precedes[list[k]]) = k - 1
  <2>1. list[k] = CHOOSE h \in R : Cardinality({j \in R : Before(j, h)}) = k - 1
    BY DEF GetThoughtChain
  <2>2. Cardinality({j \in R : Before(j, i)}) = k - 1
    BY <1>6, <1>7
  <2> HIDE DEF R, Before, Precedes
  <2>3. list[k] \in R /\ Cardinality({j \in R : Before(j, list[k])}) = k - 1
    BY <2>1, <2>2
  <2> QED  BY <1>6, <2>3
<1>8. \A i, j \in R : i \in Precedes[j] <=> Before(i, j)
  OBVIOUS
<1> HIDE DEF R
<1>9. Precedes \in [R -> SUBSET R]
  OBVIOUS
<1> HIDE DEF Precedes
<1>10. /\ \A i \in R : i \notin Precedes[i]
       /\ \A i, j \in R : i # j => i \in Precedes[j] \/ j \in Precedes[i]
       /\ \A i, j, k \in R : i \in Precedes[j] /\ j \in Precedes[k] => i \in Precedes[k]
  BY <1>2, <1>4, <1>8
<1>11. /\ Cardinality(R) \in Nat
       /\ \A k \in 1..Cardinality(R) : list[k] \in R
       /\ \A i \in R : \E k \in 1..Cardinality(R) : list[k] = i
       /\ \A j, k \in 1..Cardinality(R) : list[j] \in Precedes[list[k]] => j < k
  <2>1. \A k \in 1..Cardinality(R), i \in R :
           Cardinality(Precedes[i]) = k - 1
           => list[k] \in R /\ Cardinality(Precedes[list[k]]) = k - 1
    BY <1>7
  <2>2. \A S, Pre : S = R /\ Pre = Precedes =>
           /\ Cardinality(S) \in Nat
           /\ \A k \in 1..Cardinality(S) : list[k] \in S
           /\ \A i \in S : \E k \in 1..Cardinality(S) : list[k] = i
           /\ \A j, k \in 1..Cardinality(S) : list[j] \in Pre[list[k]] => j < k
    <3> SUFFICES ASSUME NEW S, NEW Pre, S = R, Pre = Precedes
                 PROVE  /\ Cardinality(S) \in Nat
                        /\ \A k \in 1..Cardinality(S) : list[k] \in S
                        /\ \A i \in S : \E k \in 1..Cardinality(S) : list[k] = i
                        /\ \A j, k \in 1..Cardinality(S) : list[j] \in Pre[list[k]] => j < k
      OBVIOUS
    <3>1. /\ IsFiniteSet(S) /\ Pre \in [S -> SUBSET S]
          /\ \A i \in S : i \notin Pre[i]
          /\ \A i, j \in S : i # j => i \in Pre[j] \/ j \in Pre[i]
          /\ \A i, j, k \in S : i \in Pre[j] /\ j \in Pre[k] => i \in Pre[k]
          /\ \A k \in 1..Cardinality(S), i \in S :
                Cardinality(Pre[i]) = k - 1
                => list[k] \in S /\ Cardinality(Pre[list[k]]) = k - 1
      BY <1>2, <1>9, <1>10, <2>1
    <3> QED  BY <3>1, RankedInOrder
  <2> QED  BY <2>2
<1>12. DOMAIN list = 1..Cardinality(R)
  BY DEF GetThoughtChain, R
<1> QED  BY <1>2, <1>3, <1>5, <1>8, <1>11, <1>12

\* No thought is revised twice, since a revision finds the newest; a thought is
\* shown after what it came from; and a memory is of a thought that is there.
THEOREM AlwaysReadable == ThoughtSpec => []HistoryReadable
<1>1. ASSUME ThoughtInv  PROVE HistoryReadable
  <2>1. DOMAIN thoughts = 1..Len(thoughts) /\ Len(thoughts) \in Nat
    BY <1>1, LenProperties DEF ThoughtInv
  <2>2. \A i \in DOMAIN thoughts : thoughts[i] \in ThoughtRows /\ CameFrom(i)
    BY <1>1, <2>1, ElementOfSeq DEF ThoughtInv
  <2>3. ASSUME NEW i \in DOMAIN thoughts, NEW j \in DOMAIN thoughts,
               thoughts[i].revises # 0, thoughts[i].revises = thoughts[j].revises
        PROVE  ~(i < j)
    <3> SUFFICES ASSUME i < j  PROVE FALSE
      OBVIOUS
    <3> DEFINE s == thoughts[i].revises
    <3>1. s \in 1..(i - 1) /\ thoughts[s].chain = thoughts[i].chain
          /\ thoughts[s].number = thoughts[i].number
      BY <2>2, <2>3 DEF CameFrom
    <3>2. /\ thoughts[s].chain = thoughts[j].chain /\ thoughts[s].number = thoughts[j].number
          /\ \A k \in 1..(j - 1) :
                thoughts[k].chain = thoughts[j].chain /\ thoughts[k].number = thoughts[j].number
                => k <= s
      BY <2>2, <2>3 DEF CameFrom
    <3>3. i \in 1..(j - 1)
      BY <2>1
    <3> HIDE DEF s
    <3>4. i <= s
      BY <3>1, <3>2, <3>3
    <3> QED  BY <2>1, <3>1, <3>4
  <2>4. \A i, j \in DOMAIN thoughts :
           thoughts[i].revises # 0 /\ thoughts[i].revises = thoughts[j].revises => i = j
    <3>1. \A i, j \in DOMAIN thoughts : i < j \/ j < i \/ i = j
      BY <2>1
    <3> QED  BY <2>3, <3>1
  <2>5. ASSUME NEW s \in DOMAIN shown, NEW k \in DOMAIN shown[s].thoughts,
               NEW source \in {thoughts[shown[s].thoughts[k]].revises,
                               thoughts[shown[s].thoughts[k]].from} \ {0}
        PROVE  /\ thoughts[source].chain = shown[s].chain
               /\ (CHOOSE j \in DOMAIN shown[s].thoughts : shown[s].thoughts[j] = source) < k
    <3>1. shown # <<>>
      OBVIOUS
    <3>2. PICK c \in Chain : shown = <<[chain |-> c, thoughts |-> GetThoughtChain(c)]>>
      BY <1>1, <3>1 DEF ThoughtInv
    <3>3. PICK list : list = GetThoughtChain(c)
      OBVIOUS
    <3>4. shown[s].chain = c /\ shown[s].thoughts = list
      BY <3>2, <3>3
    <3> DEFINE i == list[k]
               at == CHOOSE j \in DOMAIN list : list[j] = source
    <3>5. i \in 1..Len(thoughts) /\ thoughts[i].chain = c
      BY <1>1, <3>3, <3>4, ChainShown
    <3>6. source \in {thoughts[i].revises, thoughts[i].from} \ {0}
      BY <3>4
    <3>7. CameFrom(i) /\ thoughts[i].number \in Nat
      BY <2>1, <2>2, <3>5 DEF ThoughtRows
    <3> HIDE DEF i
    <3>8. /\ source \in 1..(i - 1) /\ thoughts[source].chain = c
          /\ \/ thoughts[source].number = thoughts[i].number
             \/ thoughts[source].number + 1 = thoughts[i].number
      BY <3>5, <3>6, <3>7 DEF CameFrom
    <3>9. source \in 1..Len(thoughts) /\ source < i
      BY <2>1, <3>5, <3>8
    <3>10. thoughts[source].number \in Nat
      BY <2>1, <2>2, <3>9 DEF ThoughtRows
    <3>11. at \in DOMAIN list /\ list[at] = source
      BY <1>1, <3>3, <3>8, <3>9, ChainShown
    <3> HIDE DEF at
    <3>12. \/ thoughts[list[at]].number < thoughts[list[k]].number
           \/ thoughts[list[at]].number = thoughts[list[k]].number /\ list[at] < list[k]
      BY <3>7, <3>8, <3>9, <3>10, <3>11 DEF i
    <3>13. at < k
      BY <1>1, <3>3, <3>4, <3>11, <3>12, ChainShown
    <3> QED  BY <3>4, <3>8, <3>13 DEF at
  <2>6. notes \subseteq {thoughtContentHash(thoughts[i]) : i \in DOMAIN thoughts}
    BY <1>1, <2>1 DEF ThoughtInv
  <2> QED  BY <2>4, <2>5, <2>6 DEF HistoryReadable
<1> QED  BY <1>1, ThoughtInductive, PTL

\* The chains and the thoughts are of their types, and a thought comes from one
\* that was there before it.
THEOREM ThoughtTypeCorrect == ThoughtSpec => []ThoughtTypeOK
<1>1. ASSUME ThoughtInv  PROVE ThoughtTypeOK
  <2>1. DOMAIN thoughts = 1..Len(thoughts) /\ Len(thoughts) \in Nat
    BY <1>1, LenProperties DEF ThoughtInv
  <2>2. ASSUME NEW i \in DOMAIN thoughts
        PROVE  /\ thoughts[i].chain \in Chain
               /\ thoughts[i].text \in Idea
               /\ thoughts[i].number \in Nat \ {0}
               /\ thoughts[i].revises \in 0..(i - 1)
               /\ thoughts[i].from \in 0..(i - 1)
    <3>1. thoughts[i] \in ThoughtRows /\ CameFrom(i)
      BY <1>1, <2>1, ElementOfSeq DEF ThoughtInv
    <3>2. i \in Nat \ {0} /\ 0 \in 0..(i - 1) /\ 1..(i - 1) \subseteq 0..(i - 1)
      BY <2>1
    <3> QED  BY <3>1, <3>2 DEF ThoughtRows, CameFrom
  <2> QED  BY <1>1, <2>2 DEF ThoughtInv, ThoughtTypeOK
<1> QED  BY <1>1, ThoughtInductive, PTL
-----------------------------------------------------------------------------
(* Rank fusion.                                                            *)

\* Addition, number by number.
LEMMA TotalAdds ==
  ASSUME NEW c, Len(c) \in Nat
  PROVE  \E sum : /\ Total(c) = sum[Len(c)]
                  /\ sum[0] = 0
                  /\ \A n \in 1..Len(c) : sum[n] = sum[n - 1] + c[n]
<1> DEFINE M == Len(c)
           sum == CHOOSE f : f = [n \in 0..M |-> IF n = 0 THEN 0 ELSE f[n - 1] + c[n]]
<1>1. sum = [n \in 0..M |-> IF n = 0 THEN 0 ELSE sum[n - 1] + c[n]]
  <2>1. \E f : f = [n \in 0..M |-> IF n = 0 THEN 0 ELSE f[n - 1] + c[n]]
    BY SumExists
  <2> QED  BY <2>1
<1>2. Total(c) = sum[M]
  BY DEF Total
<1> HIDE DEF sum
<1>3. sum[0] = 0 /\ \A n \in 1..M : sum[n] = sum[n - 1] + c[n]
  BY <1>1
<1> QED  BY <1>2, <1>3

LEMMA SumsKeepOrder ==
  ASSUME NEW a \in Nat, NEW b \in Nat, NEW c \in Nat, NEW d \in Nat, a <= b, c <= d
  PROVE  /\ a + c \in Nat /\ b + d \in Nat /\ a + c <= b + d
         /\ a < b \/ c < d => a + c < b + d
  OBVIOUS

\* What is not less anywhere has a total that is not less, and greater if it is
\* greater somewhere.
LEMMA TotalGrows ==
  ASSUME NEW M \in Nat, NEW c \in [1..M -> Nat], NEW d \in [1..M -> Nat],
         \A n \in 1..M : c[n] <= d[n],
         \E n \in 1..M : c[n] < d[n]
  PROVE  Total(c) \in Nat /\ Total(d) \in Nat /\ Total(c) < Total(d)
<1>1. Len(c) = M /\ Len(d) = M
  BY LenProperties
<1>2. PICK p : /\ Total(c) = p[M] /\ p[0] = 0
               /\ \A n \in 1..M : p[n] = p[n - 1] + c[n]
  <2>1. Len(c) \in Nat
    BY <1>1
  <2> QED  BY ZenonT(40), <1>1, <2>1, TotalAdds
<1>3. PICK q : /\ Total(d) = q[M] /\ q[0] = 0
               /\ \A n \in 1..M : q[n] = q[n - 1] + d[n]
  <2>1. Len(d) \in Nat
    BY <1>1
  <2> QED  BY ZenonT(40), <1>1, <2>1, TotalAdds
<1>4. PICK at \in 1..M : c[at] < d[at]
  OBVIOUS
<1> DEFINE Right(n) == /\ p[n] \in Nat /\ q[n] \in Nat /\ p[n] <= q[n]
                       /\ at <= n => p[n] < q[n]
           T == {n \in 0..M : ~Right(n)}
<1>5. T = {}
  <2> SUFFICES ASSUME T # {}  PROVE FALSE
    OBVIOUS
  <2>0. T \in SUBSET Nat
    OBVIOUS
  <2>1. PICK n \in T : \A k \in T : n <= k
    <3> HIDE DEF T
    <3> QED  BY <2>0, LeastNumber
  <2>2. n \in 0..M /\ n \in Nat /\ ~Right(n)
    OBVIOUS
  <2>3. n # 0
    BY SMTT(30), <1>2, <1>3, <2>2
  <2>4. n - 1 \in 0..M /\ n \in 1..M /\ n - 1 \notin T
    <3> HIDE DEF T
    <3> QED  BY <2>1, <2>2, <2>3
  <2>5. Right(n - 1)
    BY <2>4
  <2>6. p[n] = p[n - 1] + c[n] /\ q[n] = q[n - 1] + d[n] /\ c[n] <= d[n]
    BY <1>2, <1>3, <2>4
  <2>7. c[n] \in Nat /\ d[n] \in Nat
    BY <2>4
  <2>8. PICK a, b : a = p[n - 1] /\ b = q[n - 1]
    OBVIOUS
  <2>9. a \in Nat /\ b \in Nat /\ a <= b /\ (at <= n - 1 => a < b)
    BY <2>5, <2>8
  <2>10. /\ p[n] = a + c[n] /\ q[n] = b + d[n]
         /\ p[n] \in Nat /\ q[n] \in Nat /\ p[n] <= q[n]
         /\ a < b \/ c[n] < d[n] => p[n] < q[n]
    <3> HIDE DEF T, Right
    <3>1. p[n] = a + c[n] /\ q[n] = b + d[n]
      BY <2>6, <2>8
    <3>2. /\ a + c[n] \in Nat /\ b + d[n] \in Nat /\ a + c[n] <= b + d[n]
          /\ a < b \/ c[n] < d[n] => a + c[n] < b + d[n]
      <4>1. a \in Nat /\ b \in Nat /\ a <= b
        BY <2>9
      <4>2. c[n] \in Nat /\ d[n] \in Nat /\ c[n] <= d[n]
        BY <2>6, <2>7
      <4> QED  BY ONLY <4>1, <4>2, SumsKeepOrder
    <3> QED  BY ONLY <3>1, <3>2
  <2>11. ASSUME at <= n  PROVE a < b \/ c[n] < d[n]
    <3>1. at = n \/ at <= n - 1
      BY <2>2, <2>11
    <3> QED  BY <1>4, <2>9, <3>1
  <2> QED  BY <2>2, <2>10, <2>11
<1>6. M \in 0..M /\ at <= M
  OBVIOUS
<1> QED  BY <1>2, <1>3, <1>5, <1>6

\* Of two denominators of the same number the smaller has the greater quotient.
LEMMA SmallerDivides ==
  ASSUME NEW s \in Nat \ {0}, NEW a \in Nat \ {0}, NEW b \in Nat \ {0}, a < b,
         s % a = 0, s % b = 0
  PROVE  s \div a \in Nat /\ s \div b \in Nat /\ s \div b < s \div a
<1>1. ASSUME NEW d \in Nat \ {0}, s % d = 0  PROVE s \div d \in Nat /\ s = d * (s \div d)
  BY <1>1
<1>2. PICK p \in Nat, q \in Nat : p = s \div a /\ q = s \div b /\ s = a * p /\ s = b * q
  BY <1>1
<1>3. q < p
  <2> SUFFICES ASSUME p <= q  PROVE FALSE
    OBVIOUS
  <2>1. PICK c \in Nat : q = p + c
    <3>1. q - p \in Nat /\ q = p + (q - p)
      OBVIOUS
    <3> QED  BY <3>1
  <2>2. PICK e \in Nat \ {0} : b = a + e
    <3>1. b - a \in Nat \ {0} /\ b = a + (b - a)
      OBVIOUS
    <3> QED  BY <3>1
  <2>3. q # 0
    BY <1>2
  <2>4. PICK ap, ac, eq, aq, bq :
            ap = a * p /\ ac = a * c /\ eq = e * q /\ aq = a * q /\ bq = b * q
    OBVIOUS
  <2>5. ap \in Nat /\ ac \in Nat /\ eq \in Nat /\ aq \in Nat
    BY <2>4
  <2>6. eq # 0
    BY <2>3, <2>4
  <2>7. aq = ap + ac
    BY <2>1, <2>4
  <2>8. bq = aq + eq
    BY <2>2, <2>4
  <2>9. ap = bq
    BY <1>2, <2>4
  <2> QED  BY <2>5, <2>6, <2>7, <2>8, <2>9
<1> QED  BY <1>2, <1>3

\* A better place counts more.
LEMMA BetterCountsMore ==
  ASSUME NEW m \in 0..Cardinality(Item), NEW n \in 0..Cardinality(Item), m < n
  PROVE  Reciprocal(m) \in Nat /\ Reciprocal(n) \in Nat /\ Reciprocal(n) < Reciprocal(m)
<1>1. Cardinality(Item) \in Nat
  BY RankFusionAssumption, FS_CardinalityType
<1>2. PICK a, b : a = RRFConstant + m /\ b = RRFConstant + n
  OBVIOUS
<1>3. a \in Nat \ {0} /\ b \in Nat \ {0} /\ a < b
  BY <1>1, <1>2, RankFusionAssumption
<1>4. Scale \in Nat \ {0} /\ Scale % a = 0 /\ Scale % b = 0
  BY <1>2, RankFusionAssumption
<1> QED  BY <1>2, <1>3, <1>4, SmallerDivides DEF Reciprocal

LEMMA ReciprocalCounts ==
  ASSUME NEW m \in 0..Cardinality(Item)
  PROVE  Reciprocal(m) \in Nat \ {0}
<1>1. Cardinality(Item) \in Nat
  BY RankFusionAssumption, FS_CardinalityType
<1>2. PICK a : a = RRFConstant + m
  OBVIOUS
<1>3. a \in Nat \ {0} /\ Scale \in Nat \ {0} /\ Scale % a = 0
  BY <1>1, <1>2, RankFusionAssumption
<1>4. Scale \div a \in Nat /\ Scale = a * (Scale \div a)
  BY <1>3
<1>5. Scale \div a # 0
  <2> SUFFICES ASSUME Scale \div a = 0  PROVE FALSE
    OBVIOUS
  <2> QED  BY <1>3, <1>4
<1> QED  BY <1>2, <1>4, <1>5 DEF Reciprocal

\* A ranking is a sequence of items without repetition, no longer than they are.
LEMMA RankingFacts ==
  ASSUME NEW r \in Rankings
  PROVE  /\ Len(r) \in 0..Cardinality(Item) /\ r \in [1..Len(r) -> Item]
         /\ \A i, j \in 1..Len(r) : r[i] = r[j] => i = j
         /\ r # Failed
<1>0. Cardinality(Item) \in Nat
  BY RankFusionAssumption, FS_CardinalityType
<1>1. PICK n \in 0..Cardinality(Item) : r \in [1..n -> Item]
  BY DEF Rankings
<1>2. Len(r) = n
  BY <1>0, <1>1, LenProperties
<1>3. \A i, j \in 1..n : r[i] = r[j] => i = j
  BY <1>1 DEF Rankings, IsInjective
<1>4. r # Failed
  <2> SUFFICES ASSUME r = Failed  PROVE FALSE
    OBVIOUS
  <2>1. Len(Failed) = 1 /\ Failed[1] = "failed"
    BY DEF Failed
  <2>2. r[1] \in Item
    BY <1>1, <1>2, <2>1
  <2> QED  BY <2>1, <2>2, RankFusionAssumption
<1> QED  BY <1>1, <1>2, <1>3, <1>4

LEMMA IsRanking ==
  ASSUME NEW n \in 0..Cardinality(Item), NEW r \in [1..n -> Item],
         \A i, j \in 1..n : r[i] = r[j] => i = j
  PROVE  r \in Rankings
  BY DEF Rankings, IsInjective

\* What is cut off is the end.
LEMMA FirstOfFacts ==
  ASSUME NEW r \in Rankings, NEW n \in Nat
  PROVE  /\ FirstOf(n, r) \in Rankings
         /\ Len(FirstOf(n, r)) = IF Len(r) < n THEN Len(r) ELSE n
         /\ \A i \in 1..Len(FirstOf(n, r)) : i \in 1..Len(r) /\ FirstOf(n, r)[i] = r[i]
<1> DEFINE f == FirstOf(n, r)
           m == IF Len(r) < n THEN Len(r) ELSE n
<1>1. Cardinality(Item) \in Nat
  BY RankFusionAssumption, FS_CardinalityType
<1>2. /\ Len(r) \in 0..Cardinality(Item) /\ r \in [1..Len(r) -> Item]
      /\ \A i, j \in 1..Len(r) : r[i] = r[j] => i = j
  BY RankingFacts
<1>3. m \in 0..Cardinality(Item) /\ m <= Len(r)
  BY <1>1, <1>2
<1>4. f \in [1..m -> Item] /\ \A i \in 1..m : i \in 1..Len(r) /\ f[i] = r[i]
  <2>0. PICK l : l = Len(r) /\ l \in Nat
    BY <1>1, <1>2
  <2>1. CASE l > n
    <3>1. f = SubSeq(r, 1, n) /\ m = n
      BY <2>0, <2>1 DEF FirstOf
    <3>2. \A i \in 1..n : i \in 1..l
      BY <2>0, <2>1
    <3>3. \A i \in 1..n : r[i] \in Item
      BY <1>2, <2>0, <3>2
    <3>4. f \in Seq(Item) /\ Len(f) = n /\ \A i \in 1..n : f[i] = r[i]
      <4>1. /\ SubSeq(r, 1, n) \in Seq(Item)
            /\ Len(SubSeq(r, 1, n)) = IF 1 <= n THEN n - 1 + 1 ELSE 0
            /\ \A i \in 1 .. n - 1 + 1 : SubSeq(r, 1, n)[i] = r[1 + i - 1]
        BY <3>3, SubSeqProperties
      <4>2. Len(SubSeq(r, 1, n)) = n /\ \A i \in 1..n : SubSeq(r, 1, n)[i] = r[i]
        BY <4>1
      <4> QED  BY <3>1, <4>1, <4>2
    <3>5. f \in [1..n -> Item]
      BY <3>4, LenProperties
    <3> HIDE DEF f, m
    <3> QED  BY <2>0, <3>1, <3>2, <3>4, <3>5
  <2>2. CASE ~(l > n)
    <3>1. f = r
      BY <2>0, <2>2 DEF FirstOf
    <3>2. m = Len(r)
      BY <2>0, <2>2
    <3> HIDE DEF f, m
    <3> QED  BY <1>2, <3>1, <3>2
  <2> QED  BY <2>1, <2>2
<1>5. Len(f) = m
  BY <1>1, <1>3, <1>4, LenProperties
<1> HIDE DEF f, m
<1>6. f \in Rankings
  BY <1>2, <1>3, <1>4, IsRanking
<1> QED  BY <1>4, <1>5, <1>6 DEF f, m

\* A place in a ranking.
LEMMA PlaceFacts ==
  ASSUME NEW r \in Rankings, NEW i \in 1..Len(r)
  PROVE  Place(r, r[i]) = i
<1>1. r \in [1..Len(r) -> Item] /\ \A j, k \in 1..Len(r) : r[j] = r[k] => j = k
  BY RankingFacts
<1>2. DOMAIN r = 1..Len(r)
  BY <1>1
<1> QED  BY <1>1, <1>2 DEF Place
\* A ranking has as many items as places.
LEMMA ItemsOfRanking ==
  ASSUME NEW r \in Rankings
  PROVE  Cardinality(Range(r)) = Len(r)
<1>1. /\ Len(r) \in Nat /\ r \in [1..Len(r) -> Item]
      /\ \A i, j \in 1..Len(r) : r[i] = r[j] => i = j
  <2>1. Cardinality(Item) \in Nat
    BY RankFusionAssumption, FS_CardinalityType
  <2> QED  BY <2>1, RankingFacts
<1>2. r \in Bijection(1..Len(r), Range(r))
  BY <1>1 DEF Range, Bijection, Injection, Surjection, IsInjective
<1>3. IsFiniteSet(1..Len(r)) /\ Cardinality(1..Len(r)) = Len(r)
  <2>1. PICK n \in Nat : n = Len(r)
    BY <1>1
  <2>2. IsFiniteSet(1..n) /\ Cardinality(1..n) = n
    BY FS_Interval
  <2> QED  BY <2>1, <2>2
<1> QED  BY <1>2, <1>3, FS_Bijection DEF ExistsBijection

\* What an order of a set has: every member, once.
LEMMA OrderingFacts ==
  ASSUME NEW S, S \subseteq Item, NEW r \in Orderings(S)
  PROVE  /\ r \in Rankings /\ Len(r) = Cardinality(S) /\ Len(r) \in Nat
         /\ \A i \in 1..Len(r) : r[i] \in S
         /\ \A x \in S : \E i \in 1..Len(r) : r[i] = x
<1> DEFINE n == Cardinality(S)
<1>1. IsFiniteSet(S) /\ n \in 0..Cardinality(Item) /\ n \in Nat
  BY RankFusionAssumption, FS_Subset, FS_CardinalityType
<1>2. r \in [1..n -> S] /\ \A i, j \in 1..n : r[i] = r[j] => i = j
  BY DEF Orderings, IsInjective
<1>3. IsFiniteSet(1..n) /\ Cardinality(1..n) = n
  BY <1>1, FS_Interval
<1>4. r \in Injection(1..n, S)
  BY <1>2 DEF Injection, IsInjective
<1>5. r \in Surjection(1..n, S)
  BY <1>1, <1>3, <1>4, FS_Injection
<1>6. \A x \in S : \E i \in 1..n : r[i] = x
  BY <1>5 DEF Surjection
<1>7. Len(r) = n
  BY <1>1, <1>2, LenProperties
<1>8. r \in Rankings
  <2>1. r \in [1..n -> Item]
    BY <1>2
  <2> HIDE DEF n
  <2> QED  BY <1>1, <1>2, <2>1, IsRanking
<1> QED  BY <1>1, <1>2, <1>6, <1>7, <1>8

\* The answer of a sort: as long as it may be, and nothing is put behind what has a
\* smaller score, nor cut off before it.
LEMMA SortedFacts ==
  ASSUME NEW S, S \subseteq Item, NEW score \in [S -> Nat], NEW n \in Nat,
         NEW f \in Sorted(score, n)
  PROVE  /\ f \in Rankings /\ Range(f) \subseteq S
         /\ Len(f) = IF Cardinality(S) < n THEN Cardinality(S) ELSE n
         /\ \A y \in Range(f), x \in S :
               score[y] < score[x] => x \in Range(f) /\ Place(f, x) < Place(f, y)
<1>1. PICK r \in Orderings(S) :
          /\ f = FirstOf(n, r)
          /\ \A i, j \in DOMAIN r : i < j => score[r[i]] >= score[r[j]]
  BY DEF Sorted
<1>2. /\ r \in Rankings /\ Len(r) = Cardinality(S) /\ Len(r) \in Nat
      /\ \A i \in 1..Len(r) : r[i] \in S
      /\ \A x \in S : \E i \in 1..Len(r) : r[i] = x
  BY OrderingFacts
<1>3. DOMAIN r = 1..Len(r)
  BY <1>2, RankingFacts
<1>4. /\ f \in Rankings
      /\ Len(f) = IF Len(r) < n THEN Len(r) ELSE n
      /\ \A i \in 1..Len(f) : i \in 1..Len(r) /\ f[i] = r[i]
  BY <1>1, <1>2, FirstOfFacts
<1>5. Range(f) = {f[i] : i \in 1..Len(f)}
  BY <1>4, RankingFacts DEF Range
<1>6. Range(f) \subseteq S
  BY <1>2, <1>4, <1>5
<1>7. ASSUME NEW y \in Range(f), NEW x \in S, score[y] < score[x]
      PROVE  x \in Range(f) /\ Place(f, x) < Place(f, y)
  <2>1. PICK j \in 1..Len(f) : y = f[j]
    BY <1>5
  <2>2. PICK i \in 1..Len(r) : r[i] = x
    BY <1>2
  <2>3. j \in 1..Len(r) /\ r[j] = y
    BY <1>4, <2>1
  <2>4. score[x] \in Nat /\ score[y] \in Nat
    BY <1>6
  <2>5. i # j
    BY <1>7, <2>2, <2>3, <2>4
  <2>6. ~(j < i)
    <3> SUFFICES ASSUME j < i  PROVE FALSE
      OBVIOUS
    <3>1. score[r[j]] >= score[r[i]]
      BY <1>1, <1>3, <2>2, <2>3
    <3> QED  BY <1>7, <2>2, <2>3, <2>4, <3>1
  <2>7. Len(f) \in Nat
    BY <1>2, <1>4
  <2>8. i \in 1..Len(f) /\ i < j
    BY <1>2, <2>1, <2>2, <2>5, <2>6, <2>7
  <2>9. f[i] = x /\ x \in Range(f)
    BY <1>4, <1>5, <2>2, <2>8
  <2>10. Place(f, x) = i /\ Place(f, y) = j
    BY <1>4, <2>1, <2>8, <2>9, PlaceFacts
  <2> QED  BY <2>8, <2>9, <2>10
<1> QED  BY <1>2, <1>4, <1>6, <1>7

\* What a ranking adds is a number, by the place.
LEMMA ContributionNumber ==
  ASSUME NEW r \in Rankings, NEW best \in {0, 1}, NEW x
  PROVE  /\ Contribution(r, x, best) \in Nat
         /\ x \in Range(r) =>
               \E i \in 1..Len(r) : /\ Place(r, x) = i /\ i - 1 + best \in 0..Cardinality(Item)
                                    /\ Contribution(r, x, best) = Reciprocal(i - 1 + best)
<1>0. Cardinality(Item) \in Nat
  BY RankFusionAssumption, FS_CardinalityType
<1>1. Len(r) \in 0..Cardinality(Item) /\ Range(r) = {r[i] : i \in 1..Len(r)}
  BY RankingFacts DEF Range
<1>2. CASE x \in Range(r)
  <2>1. PICK i \in 1..Len(r) : x = r[i]
    BY <1>1, <1>2
  <2>2. Place(r, x) = i
    BY <2>1, PlaceFacts
  <2>3. PICK m : m = i - 1 + best
    OBVIOUS
  <2>4. m \in 0..Cardinality(Item)
    BY <1>0, <1>1, <2>3
  <2>5. Contribution(r, x, best) = Reciprocal(m)
    BY <1>2, <2>2, <2>3 DEF Contribution
  <2>6. Reciprocal(m) \in Nat
    BY <2>4, ReciprocalCounts
  <2> QED  BY <2>2, <2>3, <2>4, <2>5, <2>6
<1>3. CASE x \notin Range(r)
  BY <1>3 DEF Contribution
<1> QED  BY <1>2, <1>3

\* It is more for what is better placed.
LEMMA ContributionFacts ==
  ASSUME NEW r \in Rankings, NEW best \in {0, 1}, NEW x, NEW y,
         y \in Range(r) => x \in Range(r) /\ Place(r, x) < Place(r, y)
  PROVE  /\ Contribution(r, y, best) <= Contribution(r, x, best)
         /\ y \in Range(r) => Contribution(r, y, best) < Contribution(r, x, best)
<1>1. CASE y \in Range(r)
  <2>1. x \in Range(r) /\ Place(r, x) < Place(r, y)
    BY <1>1
  <2>2. PICK i \in 1..Len(r) : /\ Place(r, x) = i /\ i - 1 + best \in 0..Cardinality(Item)
                               /\ Contribution(r, x, best) = Reciprocal(i - 1 + best)
    BY <2>1, ContributionNumber
  <2>3. PICK j \in 1..Len(r) : /\ Place(r, y) = j /\ j - 1 + best \in 0..Cardinality(Item)
                               /\ Contribution(r, y, best) = Reciprocal(j - 1 + best)
    BY <1>1, ContributionNumber
  <2>4. PICK m, n : m = i - 1 + best /\ n = j - 1 + best
    OBVIOUS
  <2>5. m < n
    BY <2>1, <2>2, <2>3, <2>4
  <2>6. Reciprocal(m) \in Nat /\ Reciprocal(n) \in Nat /\ Reciprocal(n) < Reciprocal(m)
    BY <2>2, <2>3, <2>4, <2>5, BetterCountsMore
  <2> QED  BY <2>2, <2>3, <2>4, <2>6
<1>2. CASE y \notin Range(r)
  <2>1. Contribution(r, y, best) = 0
    BY <1>2 DEF Contribution
  <2>2. Contribution(r, x, best) \in Nat
    BY ContributionNumber
  <2> QED  BY <1>2, <2>1, <2>2
<1> QED  BY <1>1, <1>2

LEMMA TotalNumber ==
  ASSUME NEW M \in Nat \ {0}, NEW c \in [1..M -> Nat]
  PROVE  Total(c) \in Nat
<1> DEFINE d == [n \in 1..M |-> c[n] + 1]
<1>1. d \in [1..M -> Nat] /\ \A n \in 1..M : c[n] < d[n]
  OBVIOUS
<1>2. 1 \in 1..M
  OBVIOUS
<1> HIDE DEF d
<1> QED  BY <1>1, <1>2, TotalGrows

\* Of two rankings, what is better placed wherever the other is scores more.
LEMMA FusedFacts ==
  ASSUME NEW a \in Rankings, NEW b \in Rankings, NEW best \in {0, 1}, NEW lists, lists = <<a, b>>
  PROVE  /\ ItemsIn(lists) = Range(a) \cup Range(b) /\ ItemsIn(lists) \subseteq Item
         /\ Fused(lists, best) \in [ItemsIn(lists) -> Nat]
         /\ \A x, y \in ItemsIn(lists) :
               (\A i \in {1, 2} : y \in Range(lists[i]) =>
                   x \in Range(lists[i]) /\ Place(lists[i], x) < Place(lists[i], y)) =>
               Fused(lists, best)[y] < Fused(lists, best)[x]
<1>1. DOMAIN lists = {1, 2} /\ lists[1] = a /\ lists[2] = b /\ Len(lists) = 2 /\ 1..2 = {1, 2}
  OBVIOUS
<1>2. ItemsIn(lists) = Range(a) \cup Range(b)
  BY <1>1 DEF ItemsIn
<1>3. Range(a) \subseteq Item /\ Range(b) \subseteq Item
  BY RankingFacts DEF Range
<1> DEFINE c(x) == [i \in 1..2 |-> Contribution(lists[i], x, best)]
<1>4. \A x \in ItemsIn(lists) : Fused(lists, best)[x] = Total(c(x))
  BY <1>1 DEF Fused
<1>5. ASSUME NEW x \in ItemsIn(lists)  PROVE c(x) \in [1..2 -> Nat]
  <2>1. Contribution(a, x, best) \in Nat /\ Contribution(b, x, best) \in Nat
    BY ContributionNumber
  <2> QED  BY <1>1, <2>1
<1>6. ASSUME NEW x \in ItemsIn(lists)  PROVE Total(c(x)) \in Nat
  <2>1. c(x) \in [1..2 -> Nat] /\ 2 \in Nat \ {0}
    BY <1>5, <1>6
  <2> HIDE DEF c
  <2> QED  BY ONLY <2>1, TotalNumber
<1>7. ASSUME NEW x \in ItemsIn(lists), NEW y \in ItemsIn(lists),
             \A i \in {1, 2} : y \in Range(lists[i]) =>
                 x \in Range(lists[i]) /\ Place(lists[i], x) < Place(lists[i], y)
      PROVE  Total(c(y)) < Total(c(x))
  <2>1. ASSUME NEW i \in {1, 2}
        PROVE  /\ c(y)[i] <= c(x)[i]
               /\ y \in Range(lists[i]) => c(y)[i] < c(x)[i]
    <3>1. lists[i] \in Rankings
      BY <1>1
    <3>2. /\ Contribution(lists[i], y, best) <= Contribution(lists[i], x, best)
          /\ y \in Range(lists[i]) =>
                Contribution(lists[i], y, best) < Contribution(lists[i], x, best)
      BY <1>7, <3>1, ContributionFacts
    <3> QED  BY <1>1, <3>2
  <2>2. \E i \in {1, 2} : y \in Range(lists[i])
    BY <1>1, <1>2
  <2>3. c(x) \in [1..2 -> Nat] /\ c(y) \in [1..2 -> Nat]
    BY <1>5
  <2> HIDE DEF c
  <2>4. (\A i \in 1..2 : c(y)[i] <= c(x)[i]) /\ \E i \in 1..2 : c(y)[i] < c(x)[i]
    BY <1>1, <2>1, <2>2
  <2> QED  BY <2>3, <2>4, TotalGrows
<1> HIDE DEF c
<1>8. Fused(lists, best) \in [ItemsIn(lists) -> Nat]
  <2>1. DOMAIN Fused(lists, best) = ItemsIn(lists) /\ Fused(lists, best) = [x \in ItemsIn(lists) |-> Fused(lists, best)[x]]
    BY DEF Fused
  <2> QED  BY <1>4, <1>6, <2>1
<1> QED  BY <1>2, <1>3, <1>4, <1>7, <1>8
\* The search being answered: a fused answer comes from two rankings, both there, and
\* is one of those their scores allow.
SearchInv ==
    search # NoSearch =>
        /\ search.op \in {"list", "fused"}
        /\ search.topK \in Nat
        /\ search.result \in Rankings \cup {Failed}
        /\ search.op = "fused" =>
              \E a, b \in Rankings, best \in {0, 1} :
                 /\ search.lists = <<a, b>>
                 /\ search.result \in Sorted(Fused(<<a, b>>, best), search.topK)

\* An answer that holds for an operation's arguments is one that may be given.
Answerable(op, lists, topK, result) ==
    /\ op \in {"list", "fused"} /\ topK \in Nat /\ result \in Rankings \cup {Failed}
    /\ op = "fused" =>
          \E a, b \in Rankings, best \in {0, 1} :
             lists = <<a, b>> /\ result \in Sorted(Fused(<<a, b>>, best), topK)

LEMMA AnswerKept ==
  ASSUME NEW op, NEW lists, NEW topK, NEW result, Answerable(op, lists, topK, result),
         SearchAnswer(op, lists, topK, result)
  PROVE  SearchInv'
  BY DEF SearchInv, SearchAnswer, Answerable

LEMMA FusedAnswer ==
  ASSUME NEW a \in Rankings, NEW b \in Rankings, NEW best \in {0, 1}, NEW topK \in Nat,
         NEW result \in Sorted(Fused(<<a, b>>, best), topK)
  PROVE  Answerable("fused", <<a, b>>, topK, result)
<1>1. PICK lists : lists = <<a, b>>
  OBVIOUS
<1>2. ItemsIn(lists) \subseteq Item /\ Fused(lists, best) \in [ItemsIn(lists) -> Nat]
  BY <1>1, FusedFacts
<1>3. result \in Rankings
  BY <1>1, <1>2, SortedFacts
<1> QED  BY <1>3 DEF Answerable

\* A list that the store gives is a ranking, or no list.
LEMMA StoredLists ==
  ASSUME NEW n \in Nat
  PROVE  /\ Or10(n) \in Nat
         /\ QueryMemoriesByVector(n) \subseteq Rankings \cup {Failed}
         /\ SearchMemoriesText(n) \subseteq Rankings \cup {Failed}
         /\ GetSimilar(n) \subseteq Rankings \cup {Failed}
<1>1. Or10(n) \in Nat
  BY DEF Or10
<1> QED  BY <1>1, FirstOfFacts DEF QueryMemoriesByVector, SearchMemoriesText, GetSimilar

LEMMA NothingFound ==
  <<>> \in Rankings /\ QueryMemories1024 \subseteq Rankings \cup {Failed}
<1>1. Cardinality(Item) \in Nat
  BY RankFusionAssumption, FS_CardinalityType
<1>2. PICK r : r = <<>>
  OBVIOUS
<1>3. 0 \in 0..Cardinality(Item) /\ r \in [1..0 -> Item] /\ \A i \in 1..0 : FALSE
  <2>1. r \in Seq(Item) /\ Len(r) = 0
    BY <1>2
  <2>2. r \in [1..0 -> Item]
    BY <2>1, LenProperties
  <2> QED  BY <1>1, <2>2
<1>4. <<>> \in Rankings
  BY <1>2, <1>3, IsRanking
<1> QED  BY <1>4 DEF QueryMemories1024

\* Each of the ways to search gives an answer that may be given.
LEMMA HybridAnswer ==
  ASSUME NEW v \in Rankings \cup {Failed}, NEW t \in Rankings \cup {Failed}, NEW topK \in Nat,
         NEW r \in HybridSearch(v, t, topK)
  PROVE  Answerable(IF Failed \in {v, t} THEN "list" ELSE "fused", <<v, t>>, topK, r)
<1>1. CASE Failed \in {v, t}
  BY <1>1 DEF HybridSearch, Answerable
<1>2. CASE Failed \notin {v, t}
  <2>1. v \in Rankings /\ t \in Rankings /\ r \in Sorted(Fused(<<v, t>>, 1), topK)
    BY <1>2 DEF HybridSearch, rrfMerge
  <2> QED  BY <1>2, <2>1, FusedAnswer
<1> QED  BY <1>1, <1>2

LEMMA AutoAnswer ==
  ASSUME NEW v \in Rankings \cup {Failed}, NEW t \in Rankings \cup {Failed}, NEW topK \in Nat,
         NEW wide \in QueryMemories1024, NEW r \in autoQuery(v, t, wide, topK)
  PROVE  Answerable(IF Failed \in {v, t} THEN "list" ELSE "fused", <<v, t>>, topK, r)
<1> DEFINE Got(list)  == IF list = Failed THEN <<>> ELSE <<list>>
           Rows(list) == IF list = <<>> THEN <<>> ELSE Got(list)
           lists      == Got(v) \o Got(t) \o Rows(wide)
<1>1. r \in IF Len(lists) > 1 THEN Sorted(rrfFuseMultiList(lists), topK)
            ELSE {FirstOf(topK, IF v # Failed THEN v ELSE IF t # Failed THEN t ELSE <<>>)}
  BY DEF autoQuery
<1>2. Rows(wide) = <<>>
  BY DEF QueryMemories1024
<1>5. Got(v) \in Seq({v, t}) /\ Got(t) \in Seq({v, t})
  OBVIOUS
<1>6. lists = Got(v) \o Got(t)
  <2>1. Got(v) \o Got(t) \in Seq({v, t})
    BY <1>5, ConcatProperties
  <2> HIDE DEF Got, Rows
  <2> QED  BY <1>2, <2>1, ConcatEmptySeq
<1>3. CASE Failed \in {v, t}
  <2>1. Got(v) = <<>> \/ Got(t) = <<>>
    BY <1>3
  <2>2. Got(v) \o Got(t) \in {Got(v), Got(t)}
    <3> HIDE DEF Got
    <3> QED  BY <1>5, <2>1, ConcatEmptySeq
  <2>3. ~(Len(lists) > 1)
    <3>1. Len(Got(v)) <= 1 /\ Len(Got(t)) <= 1
      OBVIOUS
    <3> HIDE DEF Got, Rows, lists
    <3> QED  BY <1>6, <2>2, <3>1
  <2>4. r = FirstOf(topK, IF v # Failed THEN v ELSE IF t # Failed THEN t ELSE <<>>)
    BY <1>1, <2>3
  <2>5. r \in Rankings
    BY <2>4, NothingFound, FirstOfFacts
  <2> QED  BY <1>3, <2>5 DEF Answerable
<1>4. CASE Failed \notin {v, t}
  <2>1. Got(v) \o Got(t) = <<v, t>>
    <3>1. Got(v) = <<v>> /\ Got(t) = <<t>>
      BY <1>4
    <3>2. <<v>> \o <<t>> = <<v, t>>
      <4>1. PICK w, p, q, S : w = p \o q /\ p = <<v>> /\ q = <<t>> /\ S = {v, t}
        OBVIOUS
      <4>2. p \in Seq(S) /\ q \in Seq(S) /\ Len(p) = 1 /\ Len(q) = 1 /\ p[1] = v /\ q[1] = t
        BY <4>1
      <4>3. w \in Seq(S) /\ Len(w) = 2 /\ w[1] = v /\ w[2] = t
        BY <4>1, <4>2, ConcatProperties
      <4>4. PICK u : u = <<v, t>>
        OBVIOUS
      <4>5. u \in Seq(S) /\ Len(u) = 2 /\ u[1] = v /\ u[2] = t
        BY <4>1, <4>4
      <4>6. \A i \in 1..2 : i = 1 \/ i = 2
        OBVIOUS
      <4>7. w = u
        BY <4>3, <4>5, <4>6, SeqEqual
      <4> QED  BY <4>1, <4>4, <4>7
    <3> HIDE DEF Got
    <3> QED  BY <3>1, <3>2
  <2>2. lists = <<v, t>> /\ Len(lists) > 1
    <3> HIDE DEF Got, Rows, lists
    <3>1. lists = <<v, t>>
      BY <1>6, <2>1
    <3> QED  BY <3>1
  <2>3. r \in Sorted(Fused(<<v, t>>, 0), topK)
    BY <1>1, <2>2 DEF rrfFuseMultiList
  <2> QED  BY <1>4, <2>3, FusedAnswer
<1> QED  BY <1>3, <1>4

LEMMA RRFAnswer ==
  ASSUME NEW a \in Rankings \cup {Failed}, NEW b \in Rankings \cup {Failed}, NEW topK \in Nat,
         NEW r \in RRFSearch(<<a, b>>, topK)
  PROVE  Answerable(IF r = Failed THEN "list" ELSE "fused", <<a, b>>, topK, r)
<1>1. Range(<<a, b>>) = {a, b}
  BY DEF Range
<1>2. CASE Failed \in {a, b}
  BY <1>1, <1>2 DEF RRFSearch, Answerable
<1>3. CASE Failed \notin {a, b}
  <2>1. r \in Sorted(Fused(<<a, b>>, 1), topK)
    BY <1>1, <1>3 DEF RRFSearch, rrfMerge
  <2>2. Answerable("fused", <<a, b>>, topK, r)
    BY <1>3, <2>1, FusedAnswer
  <2>3. r # Failed
    <3>1. PICK lists : lists = <<a, b>>
      OBVIOUS
    <3>2. ItemsIn(lists) \subseteq Item /\ Fused(lists, 1) \in [ItemsIn(lists) -> Nat]
      BY <1>3, <3>1, FusedFacts
    <3>3. r \in Rankings
      <4>1. r \in Sorted(Fused(lists, 1), topK)
        BY <2>1, <3>1
      <4> QED  BY <3>2, <4>1, SortedFacts
    <3> QED  BY <3>3, RankingFacts
  <2> QED  BY <2>2, <2>3
<1> QED  BY <1>2, <1>3

\* No step gives an answer that may not be given.
LEMMA SearchStep ==
  ASSUME SearchInv, [SearchNext]_search
  PROVE  SearchInv'
<1>1. CASE UNCHANGED search
  BY <1>1 DEF SearchInv
<1>2. CASE SearchReply
  BY <1>2 DEF SearchReply, SearchInv
<1>3. CASE handleMemoryQuery
  <2>1. PICK topK \in Limit : QueryMemories(topK)
    BY <1>3 DEF handleMemoryQuery
  <2>2. topK \in Nat /\ 3 * topK \in Nat
    BY RankFusionAssumption
  <2>3. ASSUME NEW t \in SearchMemoriesText(topK), SearchAnswer("list", <<>>, topK, t)
        PROVE  SearchInv'
    <3>1. Answerable("list", <<>>, topK, t)
      BY <2>2, StoredLists DEF Answerable
    <3> QED  BY <2>3, <3>1, AnswerKept
  <2>4. ASSUME NEW v \in QueryMemoriesByVector(topK), SearchAnswer("list", <<>>, topK, v)
        PROVE  SearchInv'
    <3>1. Answerable("list", <<>>, topK, v)
      BY <2>2, StoredLists DEF Answerable
    <3> QED  BY <2>4, <3>1, AnswerKept
  <2>5. ASSUME NEW v \in QueryMemoriesByVector(3 * topK), NEW t \in SearchMemoriesText(3 * topK),
               NEW r \in HybridSearch(v, t, topK),
               SearchAnswer(IF Failed \in {v, t} THEN "list" ELSE "fused", <<v, t>>, topK, r)
        PROVE  SearchInv'
    <3>1. v \in Rankings \cup {Failed} /\ t \in Rankings \cup {Failed}
      BY <2>2, StoredLists
    <3>2. Answerable(IF Failed \in {v, t} THEN "list" ELSE "fused", <<v, t>>, topK, r)
      BY <2>2, <3>1, HybridAnswer
    <3> QED  BY <2>5, <3>2, AnswerKept
  <2> QED  BY <2>1, <2>3, <2>4, <2>5 DEF QueryMemories
<1>4. CASE QueryByMode
  <2>1. PICK topK \in Limit :
          \/ \E r \in gpuQuery : SearchAnswer("list", <<>>, topK, r)
          \/ \E v \in QueryMemoriesByVector(topK + 5), t \in SearchMemoriesText(topK + 5),
                wide \in QueryMemories1024 :
                \E r \in autoQuery(v, t, wide, topK) :
                   SearchAnswer(IF Failed \in {v, t} THEN "list" ELSE "fused", <<v, t>>, topK, r)
    BY <1>4 DEF QueryByMode
  <2>2. topK \in Nat /\ topK + 5 \in Nat
    BY RankFusionAssumption
  <2>3. ASSUME NEW r \in gpuQuery, SearchAnswer("list", <<>>, topK, r)
        PROVE  SearchInv'
    <3>1. Answerable("list", <<>>, topK, r)
      BY <2>2, NothingFound DEF Answerable, gpuQuery
    <3> QED  BY <2>3, <3>1, AnswerKept
  <2>4. ASSUME NEW v \in QueryMemoriesByVector(topK + 5), NEW t \in SearchMemoriesText(topK + 5),
               NEW wide \in QueryMemories1024, NEW r \in autoQuery(v, t, wide, topK),
               SearchAnswer(IF Failed \in {v, t} THEN "list" ELSE "fused", <<v, t>>, topK, r)
        PROVE  SearchInv'
    <3>1. v \in Rankings \cup {Failed} /\ t \in Rankings \cup {Failed}
      BY <2>2, StoredLists
    <3>2. Answerable(IF Failed \in {v, t} THEN "list" ELSE "fused", <<v, t>>, topK, r)
      BY <2>2, <3>1, AutoAnswer
    <3> QED  BY <2>4, <3>2, AnswerKept
  <2> QED  BY <2>1, <2>3, <2>4
<1>5. CASE handleMemorySearchRRF
  <2>1. PICK topK \in Limit, a \in Rankings \cup {Failed}, b \in Rankings \cup {Failed} :
           \E r \in RRFSearch(<<a, b>>, Or10(topK)) :
              SearchAnswer(IF r = Failed THEN "list" ELSE "fused", <<a, b>>, Or10(topK), r)
    BY <1>5 DEF handleMemorySearchRRF
  <2>2. PICK n : n = Or10(topK)
    OBVIOUS
  <2>3. n \in Nat
    BY <2>2, RankFusionAssumption, StoredLists
  <2>4. PICK r \in RRFSearch(<<a, b>>, n) :
           SearchAnswer(IF r = Failed THEN "list" ELSE "fused", <<a, b>>, n, r)
    BY <2>1, <2>2
  <2>5. Answerable(IF r = Failed THEN "list" ELSE "fused", <<a, b>>, n, r)
    BY <2>3, <2>4, RRFAnswer
  <2> QED  BY <2>4, <2>5, AnswerKept
<1>6. CASE SimilarMemories
  <2>1. PICK topK \in Limit : \E r \in GetSimilar(topK) : SearchAnswer("list", <<>>, topK, r)
    BY <1>6 DEF SimilarMemories
  <2>2. PICK r \in GetSimilar(topK) : SearchAnswer("list", <<>>, topK, r)
    BY <2>1
  <2>3. Answerable("list", <<>>, topK, r)
    BY RankFusionAssumption, StoredLists DEF Answerable
  <2> QED  BY <2>2, <2>3, AnswerKept
<1> QED  BY <1>1, <1>2, <1>3, <1>4, <1>5, <1>6 DEF SearchNext, SearchRequest

\* Whatever the rankings and their limits, the answer being given is one that its
\* rankings allow.
THEOREM SearchInductive == SearchSpec => []SearchInv
<1>1. SearchInit => SearchInv
  BY DEF SearchInit, SearchInv
<1>2. SearchInv /\ [SearchNext]_search => SearchInv'
  BY SearchStep
<1> QED  BY <1>1, <1>2, PTL DEF SearchSpec

\* A fused answer is as long as it may be, has no item twice, and never puts an item
\* behind one that it beats in every ranking, for any number of memories and any k.
THEOREM AlwaysRespectsDominance == SearchSpec => []FusionRespectsDominance
<1>1. SearchInv => FusionRespectsDominance
  <2> SUFFICES ASSUME SearchInv, search.op = "fused"
               PROVE  LET r     == search.result
                          found == ItemsIn(search.lists)
                      IN  /\ Cardinality(Range(r)) = Len(r)
                          /\ Range(r) \subseteq found
                          /\ Len(r) = IF Cardinality(found) < search.topK
                                      THEN Cardinality(found) ELSE search.topK
                          /\ \A y \in Range(r), x \in found :
                                Dominates(x, y) => x \in Range(r) /\ Place(r, x) < Place(r, y)
    BY DEF FusionRespectsDominance
  <2>1. search # NoSearch
    BY DEF NoSearch
  <2>2. PICK a \in Rankings, b \in Rankings, best \in {0, 1} :
           search.lists = <<a, b>> /\ search.result \in Sorted(Fused(<<a, b>>, best), search.topK)
    BY <2>1 DEF SearchInv
  <2>3. PICK lists, topK, r : lists = search.lists /\ topK = search.topK /\ r = search.result
    OBVIOUS
  <2>4. topK \in Nat /\ lists = <<a, b>> /\ r \in Sorted(Fused(lists, best), topK)
    BY <2>1, <2>2, <2>3 DEF SearchInv
  <2>5. /\ ItemsIn(lists) \subseteq Item
        /\ Fused(lists, best) \in [ItemsIn(lists) -> Nat]
        /\ \A x, y \in ItemsIn(lists) :
              (\A i \in {1, 2} : y \in Range(lists[i]) =>
                  x \in Range(lists[i]) /\ Place(lists[i], x) < Place(lists[i], y)) =>
              Fused(lists, best)[y] < Fused(lists, best)[x]
    BY <2>4, FusedFacts
  <2>6. /\ r \in Rankings /\ Range(r) \subseteq ItemsIn(lists)
        /\ Len(r) = IF Cardinality(ItemsIn(lists)) < topK
                    THEN Cardinality(ItemsIn(lists)) ELSE topK
        /\ \A y \in Range(r), x \in ItemsIn(lists) :
              Fused(lists, best)[y] < Fused(lists, best)[x] =>
              x \in Range(r) /\ Place(r, x) < Place(r, y)
    BY <2>4, <2>5, SortedFacts
  <2>7. DOMAIN lists = {1, 2}
    BY <2>4
  <2>8. \A x, y : Dominates(x, y) =>
           \A i \in {1, 2} : y \in Range(lists[i]) =>
              x \in Range(lists[i]) /\ Place(lists[i], x) < Place(lists[i], y)
    BY <2>3, <2>7 DEF Dominates
  <2>9. \A y \in Range(r), x \in ItemsIn(lists) :
           Dominates(x, y) => x \in Range(r) /\ Place(r, x) < Place(r, y)
    BY <2>5, <2>6, <2>8
  <2>10. Cardinality(Range(r)) = Len(r)
    BY <2>6, ItemsOfRanking
  <2> QED  BY <2>3, <2>6, <2>9, <2>10
<1> QED  BY <1>1, SearchInductive, PTL

\* The search being answered is well formed: an answer is a ranking or a failure.
THEOREM SearchTypeCorrect == SearchSpec => []SearchTypeOK
<1>1. SearchInv => SearchTypeOK
  BY DEF SearchInv, SearchTypeOK
<1> QED  BY <1>1, SearchInductive, PTL

(***************************************************************************)
(*                             Knowledge graph                             *)
(*                                                                         *)
(* What a breadth-first walk answers, for any graph, any depth and filter, *)
(* and whatever order the rows of a read come in.  The invariant supposes  *)
(* a depth for each entity visited: some path has it; the queue is by it,  *)
(* and no two of the queue are more than one apart; and what no longer     *)
(* waits has had its neighbours visited, at most one deeper.  That is what *)
(* makes the first path found a shortest one, and what makes the closure   *)
(* complete: a path to an entity cannot leave what has been visited.  A    *)
(* failed read gives up the last of these, so what is answered is still    *)
(* true, and may be less.                                                  *)
(***************************************************************************)

-----------------------------------------------------------------------------
(* What can be reached.                                                    *)

LEMMA WithinStart ==
  ASSUME NEW from \in Entity, NEW over  PROVE from \in Within(from, over, 0)
<1> DEFINE at == [i \in 0..0 |-> from]
<1>1. at \in [0..0 -> Entity] /\ at[0] = from
  OBVIOUS
<1>2. \A i \in 1..0 : FALSE
  OBVIOUS
<1> HIDE DEF at
<1>3. 0 \in 0..0
  OBVIOUS
<1> QED  BY <1>1, <1>2, <1>3 DEF Within

LEMMA WithinMore ==
  ASSUME NEW from, NEW over, NEW m \in Nat, NEW n \in Nat, m <= n
  PROVE  Within(from, over, m) \subseteq Within(from, over, n)
<1>1. 0..m \subseteq 0..n
  OBVIOUS
<1> QED  BY <1>1, Zenon DEF Within

LEMMA WithinNext ==
  ASSUME NEW from, NEW over, NEW n \in Nat, NEW e \in Within(from, over, n),
         NEW l \in over, NEW f \in Entity, {l[1], l[2]} = {e, f}
  PROVE  f \in Within(from, over, n + 1)
<1>1. PICK m \in 0..n : \E at \in [0..m -> Entity] :
           /\ at[0] = from /\ at[m] = e
           /\ \A i \in 1..m : \E k \in over : {k[1], k[2]} = {at[i - 1], at[i]}
  BY Zenon DEF Within
<1>2. PICK at \in [0..m -> Entity] :
           /\ at[0] = from /\ at[m] = e
           /\ \A i \in 1..m : \E k \in over : {k[1], k[2]} = {at[i - 1], at[i]}
  BY <1>1, Zenon
<1> DEFINE to == [i \in 0..(m + 1) |-> IF i = m + 1 THEN f ELSE at[i]]
<1>3. m + 1 \in 0..(n + 1) /\ m \in Nat
  OBVIOUS
<1>4. to \in [0..(m + 1) -> Entity] /\ to[0] = from /\ to[m + 1] = f
  BY <1>2, <1>3
<1>5. ASSUME NEW i \in 1..(m + 1)
      PROVE  \E k \in over : {k[1], k[2]} = {to[i - 1], to[i]}
  <2>1. CASE i = m + 1
    <3>1. to[i - 1] = e /\ to[i] = f
      BY <1>2, <1>3, <2>1
    <3> HIDE DEF to
    <3> QED  BY <3>1, Zenon
  <2>2. CASE i # m + 1
    <3>1. i \in 1..m /\ to[i - 1] = at[i - 1] /\ to[i] = at[i]
      BY <1>3, <2>2
    <3> HIDE DEF to
    <3> QED  BY <1>2, <3>1, Zenon
  <2> QED  BY <2>1, <2>2
<1> HIDE DEF to
<1> QED  BY <1>3, <1>4, <1>5, Zenon DEF Within

\* A set that has the start, and with each entity nearer than n its neighbours, has all
\* entities within n.
LEMMA WithinClosed ==
  ASSUME NEW from, NEW over, NEW n \in Nat, NEW V, NEW d, from \in V, d[from] = 0,
         \A e \in V : d[e] \in Nat,
         \A e \in V, f \in Entity, l \in over :
            d[e] < n /\ {l[1], l[2]} = {e, f} => f \in V /\ d[f] <= d[e] + 1
  PROVE  \A e \in Within(from, over, n) : e \in V /\ d[e] <= n
<1> SUFFICES ASSUME NEW e \in Within(from, over, n)  PROVE e \in V /\ d[e] <= n
  OBVIOUS
<1>1. PICK m \in 0..n : \E at \in [0..m -> Entity] :
           /\ at[0] = from /\ at[m] = e
           /\ \A i \in 1..m : \E k \in over : {k[1], k[2]} = {at[i - 1], at[i]}
  BY Zenon DEF Within
<1>2. PICK at \in [0..m -> Entity] :
           /\ at[0] = from /\ at[m] = e
           /\ \A i \in 1..m : \E k \in over : {k[1], k[2]} = {at[i - 1], at[i]}
  BY <1>1, Zenon
<1> DEFINE T == {i \in 0..m : ~(at[i] \in V /\ d[at[i]] <= i)}
<1>3. CASE T = {}
  <2>1. m \in 0..m /\ m <= n
    OBVIOUS
  <2>2. e \in V /\ d[e] <= m
    BY <1>2, <1>3, <2>1
  <2> QED  BY <2>1, <2>2
<1>4. CASE T # {}
  <2>1. T \in SUBSET Nat
    OBVIOUS
  <2>2. PICK i \in T : \A j \in T : i <= j
    <3> HIDE DEF T
    <3> QED  BY <1>4, <2>1, LeastNumber
  <2>3. i \in 0..m /\ ~(at[i] \in V /\ d[at[i]] <= i)
    OBVIOUS
  <2>4. i # 0
    BY <1>2, <2>3
  <2>5. i - 1 \in 0..m /\ i - 1 \notin T /\ i \in 1..m
    BY <2>2, <2>3, <2>4
  <2>6. at[i - 1] \in V /\ d[at[i - 1]] <= i - 1
    BY <2>5
  <2>7. PICK k \in over : {k[1], k[2]} = {at[i - 1], at[i]}
    BY <1>2, <2>5, Zenon
  <2>8. d[at[i - 1]] \in Nat /\ d[at[i - 1]] < n
    BY <2>6, <2>5
  <2>9. at[i] \in Entity
    BY <1>2, <2>3
  <2>10. at[i] \in V /\ d[at[i]] <= d[at[i - 1]] + 1
    BY <2>6, <2>7, <2>8, <2>9
  <2>11. d[at[i]] \in Nat
    BY <2>10
  <2> QED  BY <2>3, <2>6, <2>8, <2>10, <2>11
<1> QED  BY <1>3, <1>4

LEMMA LeadsFurther ==
  ASSUME NEW S, NEW p \in Seq(S), NEW from, NEW e, Leads(p, from, e),
         NEW l \in S, NEW f \in Entity, {l[1], l[2]} = {e, f}
  PROVE  Leads(Append(p, l), from, f)
<1> DEFINE m == Len(p)
           q == Append(p, l)
<1>1. m \in Nat /\ DOMAIN p = 1..m
  BY LenProperties
<1>2. Len(q) = m + 1 /\ DOMAIN q = 1..(m + 1) /\ q[m + 1] = l /\ \A i \in 1..m : q[i] = p[i]
  <2>1. q \in Seq(S) /\ Len(q) = m + 1 /\ q[m + 1] = l /\ \A i \in 1..m : q[i] = p[i]
    BY AppendProperties
  <2> QED  BY <2>1, LenProperties
<1>3. PICK at \in [0..m -> Entity] :
          /\ at[0] = from /\ at[m] = e
          /\ \A i \in DOMAIN p : {p[i][1], p[i][2]} = {at[i - 1], at[i]}
  BY Zenon DEF Leads
<1> HIDE DEF q, m
<1> DEFINE to == [i \in 0..(m + 1) |-> IF i = m + 1 THEN f ELSE at[i]]
<1>4. to \in [0..(m + 1) -> Entity] /\ to[0] = from /\ to[m + 1] = f
  BY <1>1, <1>3
<1>5. ASSUME NEW i \in DOMAIN q  PROVE {q[i][1], q[i][2]} = {to[i - 1], to[i]}
  <2>1. CASE i = m + 1
    <3>1. to[i - 1] = e /\ to[i] = f
      BY <1>1, <1>3, <2>1
    <3> HIDE DEF to
    <3> QED  BY <1>2, <2>1, <3>1
  <2>2. CASE i # m + 1
    <3>1. i \in 1..m /\ to[i - 1] = at[i - 1] /\ to[i] = at[i]
      BY <1>1, <1>2, <2>2
    <3> HIDE DEF to
    <3>2. q[i] = p[i] /\ {p[i][1], p[i][2]} = {at[i - 1], at[i]}
      BY <1>1, <1>2, <1>3, <3>1, Zenon
    <3> QED  BY <3>1, <3>2
  <2> QED  BY <2>1, <2>2
<1> HIDE DEF to
<1>6. to \in [0..Len(q) -> Entity] /\ to[Len(q)] = f
  BY <1>2, <1>4, Zenon
<1> QED  BY <1>4, <1>5, <1>6, Zenon DEF Leads, q

LEMMA NeighbourEnds ==
  ASSUME NEW l, NEW e, e \in {l[1], l[2]}
  PROVE  {l[1], l[2]} = {e, Neighbour(l, e)}
BY DEF Neighbour

LEMMA OnlyNeighbour ==
  ASSUME NEW l, NEW e, NEW f, {l[1], l[2]} = {e, f}
  PROVE  e \in {l[1], l[2]} /\ f = Neighbour(l, e)
BY DEF Neighbour
-----------------------------------------------------------------------------
(* The invariant.                                                          *)

QueueEntry == [id : Entity, depth : Nat, path : Seq(links)]

WalkRecord ==
    [op : {"closure", "chain", "graph", "list"}, start : Entity, end : SUBSET Entity,
     depth : Nat, types : SUBSET RelType, queue : Seq(QueueEntry), node : QueueEntry,
     rows : SUBSET links, visited : SUBSET Entity, entities : SUBSET Entity,
     rels : SUBSET links, chain : Seq(links), done : BOOLEAN, failures : Nat]

Near(n)   == Within(walk.start, Usable, n)
Queues(e) == \E i \in DOMAIN walk.queue : walk.queue[i].id = e

\* What has been visited was found at a depth, which some path has.
Found(d) ==
    /\ walk.start \in walk.visited
    /\ d[walk.start] = 0
    /\ \A e \in walk.visited : e \in Near(d[e])

\* The queue is by depth, and all that has been visited is at most one deeper than
\* the node being looked at.
Layered(d) ==
    /\ walk.node.id \in walk.visited
    /\ walk.node.depth = d[walk.node.id]
    /\ walk.rows \subseteq Relationships(walk.node.id)
    /\ walk.rows # {} => walk.node.depth < walk.depth
    /\ \A i \in DOMAIN walk.queue :
          /\ walk.queue[i].id \in walk.visited
          /\ walk.queue[i].depth = d[walk.queue[i].id]
          /\ walk.node.depth <= walk.queue[i].depth
    /\ \A i, j \in DOMAIN walk.queue : i <= j => walk.queue[i].depth <= walk.queue[j].depth
    /\ \A e \in walk.visited : d[e] <= walk.node.depth + 1

\* The relationship of an entity has been looked at.
LookedAt(e, l) ==
    /\ e \in {l[1], l[2]}
    /\ ~Queues(e)
    /\ ~(e = walk.node.id /\ l \in walk.rows)

Closed(d) ==
    walk.failures = 0 =>
        \A e \in walk.visited, l \in Usable :
           d[e] < walk.depth /\ LookedAt(e, l) =>
              /\ Neighbour(l, e) \in walk.visited
              /\ d[Neighbour(l, e)] <= d[e] + 1
              /\ walk.op # "chain" => l \in walk.rels

Collected(d) ==
    walk.op # "chain" =>
        /\ walk.entities \subseteq walk.visited
        /\ walk.failures = 0 => walk.entities = walk.visited
        /\ walk.rels \subseteq Usable
        /\ \A l \in walk.rels :
              /\ {l[1], l[2]} \subseteq walk.visited
              /\ \E e \in {l[1], l[2]} : d[e] < walk.depth

Explored(d) == Found(d) /\ Layered(d) /\ Closed(d) /\ Collected(d)

Arrives(n) ==
    /\ Range(n.path) \subseteq Usable
    /\ Len(n.path) = n.depth
    /\ Leads(n.path, walk.start, n.id)

\* A chain that has not arrived has not been where it is to end.
Searching ==
    walk.op = "chain" =>
        /\ walk.chain = <<>>
        /\ \E e \in Entity : walk.end = {e}
        /\ walk.end # {walk.start} => walk.end \cap walk.visited = {}
        /\ Arrives(walk.node)
        /\ \A i \in DOMAIN walk.queue : Arrives(walk.queue[i])

ChainFound ==
    /\ walk.op = "chain"
    /\ walk.chain # <<>>
    /\ Range(walk.chain) \subseteq Usable
    /\ \E e \in walk.end : Leads(walk.chain, walk.start, e)
    /\ Len(walk.chain) <= walk.depth
    /\ walk.failures = 0 /\ walk.end # {walk.start} =>
          walk.end \cap Near(Len(walk.chain) - 1) = {}

WalkInv ==
    /\ walk \in WalkRecord
    /\ \/ walk.op = "list" /\ walk.done
       \/ walk.done /\ ChainFound
       \/ /\ walk.op # "list" /\ ~walk.done /\ walk.depth # 0
          /\ Searching
          /\ \E d \in [walk.visited -> 0..walk.depth] : Explored(d)

GraphInv ==
    /\ links \subseteq Entity \X Entity \X RelType
    /\ walk = NoWalk \/ WalkInv

LEMMA WalkFields ==
  ASSUME walk \in WalkRecord
  PROVE  /\ walk # NoWalk
         /\ walk.op \in {"closure", "chain", "graph", "list"}
         /\ walk.start \in Entity /\ walk.end \in SUBSET Entity
         /\ walk.depth \in Nat
         /\ walk.queue \in Seq(QueueEntry) /\ walk.node \in QueueEntry
         /\ walk.rows \in SUBSET links /\ walk.visited \in SUBSET Entity
         /\ walk.entities \in SUBSET Entity /\ walk.rels \in SUBSET links
         /\ walk.chain \in Seq(links) /\ walk.done \in BOOLEAN
         /\ walk.failures \in Nat
<1> HIDE DEF QueueEntry
<1> QED  BY DEF WalkRecord, NoWalk

LEMMA QueueFields ==
  ASSUME walk \in WalkRecord
  PROVE  /\ Len(walk.queue) \in Nat
         /\ DOMAIN walk.queue = 1..Len(walk.queue)
         /\ \A i \in DOMAIN walk.queue : walk.queue[i] \in QueueEntry
<1>1. walk.queue \in Seq(QueueEntry)
  BY WalkFields
<1> QED  BY <1>1, LenProperties, ElementOfSeq

LEMMA QueuedTyped ==
  ASSUME NEW e \in Entity, NEW n \in Nat, NEW p \in Seq(links)
  PROVE  /\ Queued(e, n, p) \in QueueEntry
         /\ Queued(e, n, p).id = e /\ Queued(e, n, p).depth = n /\ Queued(e, n, p).path = p
BY DEF Queued, QueueEntry

LEMMA LinkEnds ==
  ASSUME links \subseteq Entity \X Entity \X RelType, NEW l \in links
  PROVE  l[1] \in Entity /\ l[2] \in Entity
OBVIOUS

\* What has been looked at up to a depth is all there is up to it.
LEMMA NearVisited ==
  ASSUME links \subseteq Entity \X Entity \X RelType, walk \in WalkRecord,
         NEW d \in [walk.visited -> 0..walk.depth], Found(d), Closed(d), walk.failures = 0,
         NEW n \in Nat, n <= walk.depth,
         \A e \in walk.visited, l \in Usable :
            d[e] < n /\ e \in {l[1], l[2]} => LookedAt(e, l)
  PROVE  \A e \in Near(n) : e \in walk.visited /\ d[e] <= n
<1>1. walk.depth \in Nat
  BY WalkFields
<1>2. walk.start \in walk.visited /\ d[walk.start] = 0
  BY DEF Found
<1>3. \A e \in walk.visited : d[e] \in Nat
  BY <1>1
<1>4. ASSUME NEW e \in walk.visited, NEW f \in Entity, NEW l \in Usable,
             d[e] < n, {l[1], l[2]} = {e, f}
      PROVE  f \in walk.visited /\ d[f] <= d[e] + 1
  <2>1. e \in {l[1], l[2]} /\ f = Neighbour(l, e)
    <3>1. {l[1], l[2]} = {e, f}
      BY <1>4
    <3> QED  BY <3>1 DEF Neighbour
  <2>2. LookedAt(e, l) /\ d[e] < walk.depth
    BY <1>1, <1>3, <1>4, <2>1
  <2> QED  BY <2>1, <2>2 DEF Closed
<1> QED  BY <1>2, <1>3, <1>4, WithinClosed DEF Near

-----------------------------------------------------------------------------
(* What it shows.                                                          *)

LEMMA ChainIsExact ==
  ASSUME GraphInv, Answered, walk.op = "chain"
  PROVE  WalksAreExact
<1> DEFINE Reach(n) == Within(walk.start, Usable, n)
<1>1. WalkInv /\ walk \in WalkRecord /\ ~Walking
  BY Zenon DEF GraphInv, Answered, WalkInv
<1> SUFFICES
       /\ walk.chain # <<>> =>
             /\ Range(walk.chain) \subseteq Usable
             /\ \E e \in walk.end : Leads(walk.chain, walk.start, e)
             /\ Len(walk.chain) <= walk.depth
       /\ walk.failures = 0 /\ walk.end # {walk.start} =>
             IF walk.chain = <<>> THEN walk.end \cap Reach(walk.depth) = {}
             ELSE walk.end \cap Reach(Len(walk.chain) - 1) = {}
  BY Zenon DEF WalksAreExact
<1>2. CASE walk.done /\ ChainFound
  BY <1>2, Zenon DEF ChainFound, Near
<1>3. CASE ~walk.done /\ Searching /\ \E d \in [walk.visited -> 0..walk.depth] : Explored(d)
  <2>1. PICK d \in [walk.visited -> 0..walk.depth] : Explored(d)
    BY <1>3
  <2>2. walk.queue = <<>> /\ walk.rows = {}
    BY <1>1, <1>3 DEF Walking, Answered
  <2>3. walk.chain = <<>>
    BY <1>3 DEF Searching
  <2>4. ASSUME walk.failures = 0, walk.end # {walk.start}
        PROVE  walk.end \cap Reach(walk.depth) = {}
    <3>1. walk.depth \in Nat
      BY <1>1, WalkFields
    <3>2. \A e \in walk.visited, l \in Usable : e \in {l[1], l[2]} => LookedAt(e, l)
      BY <2>2 DEF LookedAt, Queues
    <3>3. walk.depth <= walk.depth
      BY <3>1
    <3>4. links \subseteq Entity \X Entity \X RelType
      BY DEF GraphInv
    <3>5. \A e \in Near(walk.depth) : e \in walk.visited
      BY <1>1, <2>1, <2>4, <3>1, <3>2, <3>3, <3>4, NearVisited DEF Explored
    <3>6. walk.end \cap walk.visited = {}
      BY <1>3, <2>4 DEF Searching
    <3> QED  BY <3>5, <3>6 DEF Near
  <2> QED  BY <2>3, <2>4
<1> QED  BY <1>1, <1>2, <1>3 DEF WalkInv

LEMMA ClosureIsExact ==
  ASSUME GraphInv, Answered, walk.op # "chain", walk.op # "list"
  PROVE  WalksAreExact
<1> DEFINE Reach(n) == Within(walk.start, Usable, n)
<1>1. WalkInv /\ walk \in WalkRecord /\ ~Walking
  BY Zenon DEF GraphInv, Answered, WalkInv
<1>2. walk.entities = buildResultFromChain
  BY DEF buildResultFromChain
<1> SUFFICES
       /\ walk.entities \subseteq Reach(walk.depth)
       /\ walk.rels \subseteq Usable
       /\ walk.failures = 0 =>
             /\ walk.entities = Reach(walk.depth)
             /\ walk.rels = {l \in Usable : {l[1], l[2]} \cap Reach(walk.depth - 1) # {}}
  BY <1>2, Zenon DEF WalksAreExact
<1>3. ~walk.done
  BY <1>1, Zenon DEF WalkInv, ChainFound
<1>4. PICK d \in [walk.visited -> 0..walk.depth] : Explored(d)
  BY <1>1, <1>3, Zenon DEF WalkInv
<1>5. walk.queue = <<>> /\ walk.rows = {}
  BY <1>1, <1>3 DEF Walking, Answered
<1>6. walk.depth \in Nat /\ walk.depth # 0
  <2>1. walk.depth # 0
    BY <1>1, <1>3, Zenon DEF WalkInv
  <2> QED  BY <1>1, <2>1, WalkFields
<1>7. Collected(d) /\ Found(d) /\ Closed(d) /\ links \subseteq Entity \X Entity \X RelType
  BY <1>4, Zenon DEF Explored, GraphInv
<1>8. ASSUME NEW e \in walk.visited, NEW n \in Nat, d[e] <= n  PROVE e \in Reach(n)
  <2>1. e \in Near(d[e]) /\ d[e] \in Nat
    BY <1>6, <1>7 DEF Found
  <2> QED  BY <1>8, <2>1, WithinMore DEF Near
<1>9. walk.entities \subseteq Reach(walk.depth)
  <2>1. \A e \in walk.visited : d[e] <= walk.depth
    BY <1>6
  <2> QED  BY <1>6, <1>7, <1>8, <2>1 DEF Collected
<1>10. ASSUME walk.failures = 0
       PROVE  /\ walk.entities = Reach(walk.depth)
              /\ walk.rels = {l \in Usable : {l[1], l[2]} \cap Reach(walk.depth - 1) # {}}
  <2>1. \A e \in walk.visited, l \in Usable : e \in {l[1], l[2]} => LookedAt(e, l)
    BY <1>5 DEF LookedAt, Queues
  <2>2. ASSUME NEW n \in Nat, n <= walk.depth
        PROVE  \A e \in Reach(n) : e \in walk.visited /\ d[e] <= n
    BY <1>1, <1>7, <1>10, <2>1, <2>2, NearVisited DEF Near
  <2>3. walk.entities = walk.visited
    BY <1>7, <1>10 DEF Collected
  <2>4. walk.depth <= walk.depth /\ walk.depth - 1 \in Nat /\ walk.depth - 1 <= walk.depth
    BY <1>6
  <2>5. walk.entities = Reach(walk.depth)
    BY <1>6, <1>9, <2>2, <2>3, <2>4
  <2>6. ASSUME NEW l \in walk.rels
        PROVE  l \in Usable /\ {l[1], l[2]} \cap Reach(walk.depth - 1) # {}
    <3>1. l \in Usable
      BY <1>7 DEF Collected
    <3>2. PICK e \in walk.visited : e \in {l[1], l[2]} /\ d[e] < walk.depth
      BY <1>7, Zenon DEF Collected
    <3>3. d[e] <= walk.depth - 1
      BY <1>6, <3>2
    <3>4. e \in Reach(walk.depth - 1)
      BY <1>8, <2>4, <3>3
    <3> HIDE DEF Reach
    <3> QED  BY <3>1, <3>2, <3>4
  <2>7. ASSUME NEW l \in Usable, NEW e \in {l[1], l[2]}, e \in Reach(walk.depth - 1)
        PROVE  l \in walk.rels
    <3>1. e \in walk.visited /\ d[e] <= walk.depth - 1
      BY <2>2, <2>4, <2>7
    <3>2. d[e] < walk.depth
      BY <1>6, <3>1
    <3>3. LookedAt(e, l)
      BY <2>1, <3>1
    <3> QED  BY <1>7, <1>10, <3>1, <3>2, <3>3 DEF Closed
  <2> HIDE DEF Reach
  <2>8. walk.rels = {l \in Usable : {l[1], l[2]} \cap Reach(walk.depth - 1) # {}}
    BY <2>6, <2>7
  <2> QED  BY <2>5, <2>8
<1>11. walk.rels \subseteq Usable
  BY <1>7 DEF Collected
<1> QED  BY <1>9, <1>10, <1>11

LEMMA GraphInvExact == ASSUME GraphInv  PROVE WalksAreExact
BY ChainIsExact, ClosureIsExact, Zenon DEF WalksAreExact
-----------------------------------------------------------------------------
(* The steps.                                                              *)

LEMMA GraphInitially == ASSUME GraphInit  PROVE GraphInv
BY DEF GraphInit, GraphInv

LEMMA WalkEnds == ASSUME GraphInv, walk' = NoWalk, links' = links  PROVE GraphInv'
BY DEF GraphInv

LEMMA LinkAdded ==
  ASSUME GraphInv, NEW s \in Entity, NEW t \in Entity, NEW type \in RelType,
         CreateEntityRelationship(s, t, type)
  PROVE  GraphInv'
BY DEF GraphInv, CreateEntityRelationship, InsertEntityRelationship

LEMMA ListBegins ==
  ASSUME GraphInv, NEW found \in SUBSET Entity, Listed(found)  PROVE GraphInv'
<1>1. PICK e : e \in Entity /\ e = CHOOSE f \in Entity : TRUE
  BY KnowledgeGraphAssumption
<1>2. <<>> \in Seq(links) /\ <<>> \in Seq(QueueEntry)
  BY EmptySeq
<1>3. links' = links /\ walk' = [NewWalk("list", e, {}, 0, {})
                                    EXCEPT !.entities = found, !.done = TRUE]
  BY <1>1, Zenon DEF Listed
<1> DEFINE E == QueueEntry
           n == Queued(e, 0, <<>>)
           q == <<n>>
<1>4. E' = E
  BY <1>3 DEF QueueEntry
<1>5. n \in E
  BY <1>1, <1>2, QueuedTyped
<1>6. q \in Seq(E)
  <2> HIDE DEF n, E
  <2> QED  BY <1>5
<1>7. walk' = [op |-> "list", start |-> e, end |-> {}, depth |-> 0, types |-> {},
               queue |-> q, node |-> n, rows |-> {}, visited |-> {e},
               entities |-> found, rels |-> {}, chain |-> <<>>, done |-> TRUE,
               failures |-> 0]
  BY <1>3 DEF NewWalk
<1> HIDE DEF n, q, E
<1>8. walk' \in [op : {"closure", "chain", "graph", "list"}, start : Entity,
                 end : SUBSET Entity, depth : Nat, types : SUBSET RelType, queue : Seq(E),
                 node : E, rows : SUBSET links, visited : SUBSET Entity,
                 entities : SUBSET Entity, rels : SUBSET links, chain : Seq(links),
                 done : BOOLEAN, failures : Nat]
  BY <1>1, <1>2, <1>5, <1>6, <1>7
<1>9. (walk \in WalkRecord)'
  BY <1>3, <1>4, <1>8, Zenon DEF WalkRecord, E
<1>10. walk'.op = "list" /\ walk'.done
  BY <1>7
<1> QED  BY <1>3, <1>9, <1>10, Zenon DEF GraphInv, WalkInv

LEMMA WalkBegins ==
  ASSUME GraphInv, NEW op \in {"closure", "chain", "graph"}, NEW start \in Entity,
         NEW end \in SUBSET Entity, op = "chain" => \E e \in Entity : end = {e},
         NEW depth \in Nat \ {0}, NEW types \in SUBSET RelType,
         StartWalk(op, start, end, depth, types)
  PROVE  GraphInv'
<1> DEFINE q == <<Queued(start, 0, <<>>)>>
           n == Queued(start, 0, <<>>)
<1>1. links' = links /\ walk' = NewWalk(op, start, end, depth, types)
  BY DEF StartWalk
<1>2. /\ walk'.op = op /\ walk'.start = start /\ walk'.end = end /\ walk'.depth = depth
      /\ walk'.types = types /\ walk'.queue = q /\ walk'.node = n
      /\ walk'.rows = {} /\ walk'.visited = {start} /\ walk'.entities = {start}
      /\ walk'.rels = {} /\ walk'.chain = <<>> /\ walk'.done = FALSE /\ walk'.failures = 0
  BY <1>1, Zenon DEF NewWalk
<1>3. <<>> \in Seq(links) /\ Range(<<>>) = {} /\ Len(<<>>) = 0 /\ DOMAIN <<>> = {}
  <2>1. <<>> \in Seq(links) /\ Len(<<>>) = 0
    BY EmptySeq
  <2>2. DOMAIN <<>> = 1..0
    BY <2>1, LenProperties
  <2> QED  BY <2>1, <2>2 DEF Range
<1>4. n \in QueueEntry /\ n.id = start /\ n.depth = 0 /\ n.path = <<>>
  BY <1>3 DEF Queued, QueueEntry
<1>5. q \in Seq(QueueEntry) /\ Len(q) = 1 /\ q[1] = n /\ DOMAIN q = 1..1
  <2> HIDE DEF n
  <2>1. <<n>> \in Seq(QueueEntry) /\ Len(<<n>>) = 1 /\ <<n>>[1] = n
    BY <1>4
  <2> QED  BY <2>1, LenProperties DEF n
<1>6. (walk \in WalkRecord)'
  <2>1. walk' = [op |-> op, start |-> start, end |-> end, depth |-> depth, types |-> types,
                 queue |-> q, node |-> n, rows |-> {}, visited |-> {start},
                 entities |-> {start}, rels |-> {}, chain |-> <<>>, done |-> FALSE,
                 failures |-> 0]
    BY <1>1, Zenon DEF NewWalk
  <2>2. (QueueEntry = [id : Entity, depth : Nat, path : Seq(links)])' /\ links' = links
    BY <1>1 DEF QueueEntry
  <2> HIDE DEF n, q
  <2> DEFINE E == QueueEntry
  <2>3. E' = E
    BY <1>1 DEF QueueEntry
  <2>4. n \in E /\ q \in Seq(E)
    BY <1>4, <1>5
  <2> HIDE DEF E
  <2>5. walk' \in [op : {"closure", "chain", "graph", "list"}, start : Entity,
                   end : SUBSET Entity, depth : Nat, types : SUBSET RelType, queue : Seq(E),
                   node : E, rows : SUBSET links, visited : SUBSET Entity,
                   entities : SUBSET Entity, rels : SUBSET links, chain : Seq(links),
                   done : BOOLEAN, failures : Nat]
    BY <1>3, <2>1, <2>4
  <2> QED  BY <1>1, <2>3, <2>5, Zenon DEF WalkRecord, E
<1> HIDE DEF n, q
<1>7. start \in Within(start, Usable', 0)
  BY WithinStart
<1>8. (Near(0) = Within(start, Usable, 0))'
  BY <1>2, Zenon DEF Near
<1>9. \A i \in DOMAIN q : q[i] = n
  BY <1>5
<1>10. Leads(<<>>, start, start)
  <2>1. PICK at : at = [i \in 0..0 |-> start]
    OBVIOUS
  <2>2. at \in [0..0 -> Entity] /\ at[0] = start
    BY <2>1
  <2> QED  BY <1>3, <2>2 DEF Leads
<1>11. PICK d : d = [e \in {start} |-> 0]
  OBVIOUS
<1>12. d \in [{start} -> 0..depth] /\ d[start] = 0
  BY <1>11
<1>13. Found(d)'
  <2>1. ASSUME NEW e \in {start}  PROVE (e \in Near(d[e]))'
    BY <1>7, <1>8, <1>12
  <2> QED  BY <1>2, <1>12, <2>1 DEF Found
<1>14. Layered(d)'
  BY <1>2, <1>4, <1>5, <1>9, <1>12 DEF Layered
<1>15. Closed(d)'
  <2>1. Queues(start)'
    BY <1>2, <1>4, <1>5 DEF Queues
  <2> QED  BY <1>2, <2>1 DEF Closed, LookedAt
<1>16. Collected(d)'
  BY <1>2 DEF Collected
<1>17. Arrives(n)'
  BY <1>2, <1>3, <1>4, <1>10, Zenon DEF Arrives
<1>18. Searching'
  <2>1. op = "chain" /\ end # {start} => end \cap {start} = {}
    OBVIOUS
  <2> QED  BY <1>2, <1>9, <1>17, <2>1, Zenon DEF Searching
<1>19. (\E f \in [walk.visited -> 0..walk.depth] : Explored(f))'
  BY <1>2, <1>12, <1>13, <1>14, <1>15, <1>16, Zenon DEF Explored
<1>20. op # "list"
  OBVIOUS
<1> QED  BY <1>1, <1>2, <1>6, <1>18, <1>19, <1>20, Zenon DEF GraphInv, WalkInv
\* What no step of a walk changes.
WalkKept ==
    /\ links' = links
    /\ walk'.op = walk.op /\ walk'.start = walk.start /\ walk'.end = walk.end
    /\ walk'.depth = walk.depth /\ walk'.types = walk.types

LEMMA KeptReach ==
  ASSUME WalkKept
  PROVE  /\ Usable' = Usable
         /\ \A n : (Near(n) = Within(walk.start, Usable, n))'
         /\ \A n : Within(walk'.start, Usable', n) = Near(n)
         /\ \A e : Relationships(e)' = Relationships(e)
<1>1. Usable' = Usable
  BY DEF WalkKept, Usable, Passes
<1>2. \A e : Relationships(e)' = Relationships(e)
  BY DEF WalkKept, Relationships
<1>3. walk'.start = walk.start
  BY DEF WalkKept
<1> QED  BY <1>1, <1>2, <1>3, Zenon DEF Near

\* A row that leads to nothing new.
LEMMA RowPassed ==
  ASSUME links \subseteq Entity \X Entity \X RelType,
         walk \in WalkRecord, (walk \in WalkRecord)', WalkKept, walk.depth # 0,
         walk.op # "list", ~walk.done, ~walk'.done, Searching,
         NEW d \in [walk.visited -> 0..walk.depth], Explored(d), NEW l \in walk.rows,
         walk'.queue = walk.queue, walk'.node = walk.node, walk'.visited = walk.visited,
         walk'.entities = walk.entities, walk'.failures = walk.failures,
         walk'.chain = walk.chain, walk'.rows = walk.rows \ {l},
         l \in Usable => Neighbour(l, walk.node.id) \in walk.visited,
         walk.rels \subseteq walk'.rels, walk'.rels \subseteq walk.rels \cup {l},
         walk.op # "chain" => (l \in Usable => l \in walk'.rels),
         walk.op # "chain" => (l \in walk'.rels => l \in walk.rels \/ l \in Usable)
  PROVE  WalkInv'
<1>1. Found(d) /\ Layered(d) /\ Closed(d) /\ Collected(d)
  BY DEF Explored
<1>2. Usable' = Usable /\ (\A n : Near(n)' = Near(n))
      /\ \A e : Relationships(e)' = Relationships(e)
  BY KeptReach, Zenon DEF Near
<1>3. walk.depth \in Nat /\ walk.rows \in SUBSET links
  BY WalkFields
<1>4. /\ walk.node.id \in walk.visited /\ walk.node.id \in {l[1], l[2]}
      /\ d[walk.node.id] = walk.node.depth /\ walk.node.depth < walk.depth
      /\ \A e \in walk.visited : d[e] <= walk.node.depth + 1
  BY <1>1 DEF Layered, Relationships
<1>5. Found(d)'
  BY <1>1, <1>2, Zenon DEF Found, WalkKept
<1>6. Layered(d)'
  <2>1. walk'.rows \subseteq walk.rows /\ walk'.depth = walk.depth
    BY DEF WalkKept
  <2> QED  BY <1>1, <1>2, <2>1 DEF Layered
<1>7. Closed(d)'
  <2> SUFFICES ASSUME walk.failures = 0, NEW e \in walk.visited, NEW k \in Usable,
                      d[e] < walk.depth, LookedAt(e, k)'
               PROVE  /\ Neighbour(k, e) \in walk.visited
                      /\ d[Neighbour(k, e)] <= d[e] + 1
                      /\ walk.op # "chain" => k \in walk'.rels
    <3>1. Usable' = Usable
      BY <1>2
    <3> QED  BY <3>1 DEF Closed, WalkKept
  <2>1. CASE LookedAt(e, k)
    <3>1. /\ Neighbour(k, e) \in walk.visited
          /\ d[Neighbour(k, e)] <= d[e] + 1
          /\ walk.op # "chain" => k \in walk.rels
      BY <1>1, <2>1 DEF Closed
    <3> QED  BY <3>1
  <2>2. CASE ~LookedAt(e, k)
    <3>1. e = walk.node.id /\ k = l
      BY <2>2 DEF LookedAt, Queues
    <3> QED  BY <1>4, <3>1
  <2> QED  BY <2>1, <2>2
<1>8. Collected(d)'
  <2> SUFFICES ASSUME walk.op # "chain"
               PROVE  /\ walk'.entities \subseteq walk'.visited
                      /\ walk'.failures = 0 => walk'.entities = walk'.visited
                      /\ walk'.rels \subseteq Usable
                      /\ \A k \in walk'.rels :
                            /\ {k[1], k[2]} \subseteq walk.visited
                            /\ \E e \in {k[1], k[2]} : d[e] < walk.depth
    <3>1. Usable' = Usable /\ walk'.op = walk.op /\ walk'.depth = walk.depth
      BY <1>2 DEF WalkKept
    <3> QED  BY <3>1, Zenon DEF Collected
  <2>1. /\ walk.entities \subseteq walk.visited
        /\ walk.failures = 0 => walk.entities = walk.visited
        /\ walk.rels \subseteq Usable
        /\ \A k \in walk.rels : /\ {k[1], k[2]} \subseteq walk.visited
                                /\ \E e \in {k[1], k[2]} : d[e] < walk.depth
    BY <1>1, Zenon DEF Collected
  <2>2. walk'.rels \subseteq Usable
    BY <2>1
  <2>3. ASSUME NEW k \in walk'.rels
        PROVE  /\ {k[1], k[2]} \subseteq walk.visited
               /\ \E e \in {k[1], k[2]} : d[e] < walk.depth
    <3>1. CASE k \in walk.rels
      BY <2>1, <3>1, Zenon
    <3>2. CASE k = l
      <4>1. {l[1], l[2]} = {walk.node.id, Neighbour(l, walk.node.id)}
        BY <1>4 DEF Neighbour
      <4>2. Neighbour(l, walk.node.id) \in walk.visited
        BY <2>2, <3>2
      <4>3. {l[1], l[2]} \subseteq walk.visited
        BY <1>4, <4>1, <4>2
      <4>4. \E e \in {l[1], l[2]} : d[e] < walk.depth
        BY <1>4
      <4> QED  BY <3>2, <4>3, <4>4
    <3> QED  BY <3>1, <3>2
  <2> QED  BY <2>1, <2>2, <2>3
<1>9. \A n : Arrives(n) => Arrives(n)'
  BY <1>2, Zenon DEF Arrives, WalkKept
<1>10. Searching'
  BY <1>9, Zenon DEF Searching, WalkKept
<1>11. (d \in [walk.visited -> 0..walk.depth])'
  BY DEF WalkKept
<1>12. walk'.op # "list" /\ walk'.depth # 0
  BY DEF WalkKept
<1> QED  BY <1>5, <1>6, <1>7, <1>8, <1>10, <1>11, <1>12, Zenon DEF WalkInv, Explored

\* The queue with one more.
LEMMA QueueGrows ==
  ASSUME walk \in WalkRecord, NEW n \in QueueEntry, walk'.queue = Append(walk.queue, n)
  PROVE  /\ DOMAIN walk'.queue = 1..(Len(walk.queue) + 1)
         /\ \A i \in DOMAIN walk.queue : i \in DOMAIN walk'.queue
                                         /\ walk'.queue[i] = walk.queue[i]
         /\ walk'.queue[Len(walk.queue) + 1] = n
         /\ \A i \in DOMAIN walk'.queue : i \in DOMAIN walk.queue \/ i = Len(walk.queue) + 1
<1>1. walk.queue \in Seq(QueueEntry)
  BY WalkFields
<1>2. DOMAIN walk.queue = 1..Len(walk.queue) /\ Len(walk.queue) \in Nat
  BY QueueFields
<1>3. /\ walk'.queue \in Seq(QueueEntry) /\ Len(walk'.queue) = Len(walk.queue) + 1
      /\ \A i \in 1..Len(walk.queue) : walk'.queue[i] = walk.queue[i]
      /\ walk'.queue[Len(walk.queue) + 1] = n
  BY <1>1, AppendProperties
<1>4. DOMAIN walk'.queue = 1..(Len(walk.queue) + 1)
  BY <1>3, LenProperties
<1> QED  BY <1>2, <1>3, <1>4
LEMMA PathGrows ==
  ASSUME NEW S, NEW p \in Seq(S), NEW l \in S, NEW U, Range(p) \subseteq U, l \in U
  PROVE  Len(Append(p, l)) = Len(p) + 1 /\ Range(Append(p, l)) \subseteq U
<1>1. /\ Append(p, l) \in Seq(S) /\ Len(Append(p, l)) = Len(p) + 1
      /\ \A i \in 1..Len(p) : Append(p, l)[i] = p[i]
      /\ Append(p, l)[Len(p) + 1] = l
  BY AppendProperties
<1>2. DOMAIN Append(p, l) = 1..(Len(p) + 1) /\ DOMAIN p = 1..Len(p) /\ Len(p) \in Nat
  BY <1>1, LenProperties
<1>3. \A i \in DOMAIN Append(p, l) : i = Len(p) + 1 \/ i \in DOMAIN p
  BY <1>2
<1> QED  BY <1>1, <1>2, <1>3 DEF Range

\* A row that leads to what has not been visited, which is queued, or cannot be read.
LEMMA RowLeads ==
  ASSUME links \subseteq Entity \X Entity \X RelType,
         walk \in WalkRecord, (walk \in WalkRecord)', WalkKept, walk.depth # 0,
         walk.op # "list", ~walk.done, ~walk'.done, Searching,
         NEW d \in [walk.visited -> 0..walk.depth], Explored(d),
         NEW l \in walk.rows, l \in Usable, NEW e, e = Neighbour(l, walk.node.id),
         NEW p \in Seq(links), e \notin walk.visited,
         walk'.visited = walk.visited \cup {e}, walk'.node = walk.node,
         walk'.rows = walk.rows \ {l}, walk'.chain = walk.chain,
         \/ /\ walk'.queue = Append(walk.queue, Queued(e, walk.node.depth + 1, p))
            /\ walk'.failures = walk.failures
         \/ /\ walk'.queue = walk.queue
            /\ walk'.failures # 0,
         walk.op # "chain" =>
            /\ walk'.rels = walk.rels \cup {l}
            /\ walk'.entities \subseteq walk.entities \cup {e}
            /\ walk'.failures = 0 => walk'.entities = walk.entities \cup {e},
         walk.op = "chain" => e \notin walk.end /\ p = Append(walk.node.path, l)
  PROVE  WalkInv'
<1> DEFINE n == Queued(e, walk.node.depth + 1, p)
           last == Len(walk.queue) + 1
<1>1. Found(d) /\ Layered(d) /\ Closed(d) /\ Collected(d)
  BY DEF Explored
<1>2. Usable' = Usable /\ (\A m : Near(m)' = Near(m))
      /\ \A f : Relationships(f)' = Relationships(f)
  BY KeptReach, Zenon DEF Near
<1>3. /\ walk.depth \in Nat /\ walk.rows \in SUBSET links /\ walk.node \in QueueEntry
      /\ walk.visited \in SUBSET Entity
  BY WalkFields
<1>4. /\ walk.node.id \in walk.visited /\ walk.node.id \in {l[1], l[2]}
      /\ d[walk.node.id] = walk.node.depth /\ walk.node.depth < walk.depth
      /\ \A f \in walk.visited : d[f] <= walk.node.depth + 1 /\ d[f] \in Nat
  BY <1>1, <1>3 DEF Layered, Relationships
<1>5. walk.node.depth \in Nat /\ walk.node.path \in Seq(links)
  BY <1>3 DEF QueueEntry
<1>6. e \in Entity /\ {l[1], l[2]} = {walk.node.id, e}
  BY <1>3, <1>4, LinkEnds DEF Neighbour
<1>7. n \in QueueEntry /\ n.id = e /\ n.depth = walk.node.depth + 1 /\ n.path = p
  BY <1>5, <1>6, QueuedTyped
<1>8. PICK f : f = [x \in walk'.visited |-> IF x = e THEN walk.node.depth + 1 ELSE d[x]]
  OBVIOUS
<1>9. /\ f \in [walk'.visited -> 0..walk.depth] /\ f[e] = walk.node.depth + 1
      /\ \A x \in walk.visited : x \in walk'.visited /\ x # e /\ f[x] = d[x]
  BY <1>3, <1>4, <1>5, <1>8
<1>10. /\ walk'.depth = walk.depth /\ walk'.start = walk.start /\ walk'.op = walk.op
       /\ walk'.end = walk.end
  BY DEF WalkKept
<1> HIDE DEF n
<1>11. Found(f)'
  <2>1. walk.node.id \in Near(walk.node.depth)
    BY <1>1, <1>4 DEF Found
  <2>2. e \in Near(walk.node.depth + 1)
    BY <1>5, <1>6, <2>1, WithinNext DEF Near
  <2>3. ASSUME NEW x \in walk'.visited  PROVE x \in Near(f[x])
    BY <1>1, <1>9, <2>2, <2>3 DEF Found
  <2>4. walk.start \in walk.visited /\ d[walk.start] = 0
    BY <1>1 DEF Found
  <2>5. walk'.start \in walk'.visited /\ f[walk'.start] = 0
    BY <1>9, <1>10, <2>4
  <2>6. (\A x \in walk.visited : x \in Near(f[x]))'
    BY <1>2, <2>3
  <2> QED  BY <2>5, <2>6, Zenon DEF Found
<1>12. /\ \A i \in DOMAIN walk.queue : i \in DOMAIN walk'.queue
                                       /\ walk'.queue[i] = walk.queue[i]
       /\ \A i \in DOMAIN walk'.queue :
             \/ i \in DOMAIN walk.queue
             \/ i = last /\ walk'.queue[i] = n /\ walk'.failures = walk.failures
       /\ walk'.failures = 0 => walk.failures = 0 /\ Queues(e)'
       /\ DOMAIN walk.queue = 1..Len(walk.queue) /\ Len(walk.queue) \in Nat
  <2>1. DOMAIN walk.queue = 1..Len(walk.queue) /\ Len(walk.queue) \in Nat
    BY QueueFields
  <2>2. CASE walk'.queue = Append(walk.queue, n) /\ walk'.failures = walk.failures
    <3>1. /\ DOMAIN walk'.queue = 1..last
          /\ \A i \in DOMAIN walk.queue : i \in DOMAIN walk'.queue
                                       /\ walk'.queue[i] = walk.queue[i]
          /\ walk'.queue[last] = n
          /\ \A i \in DOMAIN walk'.queue : i \in DOMAIN walk.queue \/ i = last
      BY <1>7, <2>2, QueueGrows, Zenon
    <3>2. last \in DOMAIN walk'.queue
      BY <2>1, <3>1
    <3>3. Queues(e)'
      BY <1>7, <3>1, <3>2 DEF Queues
    <3> HIDE DEF last
    <3> QED  BY <2>1, <2>2, <3>1, <3>3
  <2>3. CASE walk'.queue = walk.queue /\ walk'.failures # 0
    BY <2>1, <2>3, Zenon
  <2> QED  BY <2>2, <2>3 DEF n
<1>13. Layered(f)'
  <2>1. /\ walk'.node.id \in walk'.visited /\ walk'.node.depth = f[walk'.node.id]
        /\ walk'.rows \subseteq Relationships(walk'.node.id)
        /\ walk'.rows # {} => walk'.node.depth < walk'.depth
    BY <1>1, <1>4, <1>9, <1>10 DEF Layered
  <2>2. ASSUME NEW i \in DOMAIN walk'.queue
        PROVE  /\ walk'.queue[i].id \in walk'.visited
               /\ walk'.queue[i].depth = f[walk'.queue[i].id]
               /\ walk'.node.depth <= walk'.queue[i].depth
    <3>1. CASE i \in DOMAIN walk.queue
      <4>1. walk'.queue[i] = walk.queue[i]
        BY <1>12, <3>1
      <4> QED  BY <1>1, <1>9, <3>1, <4>1 DEF Layered
    <3>2. CASE walk'.queue[i] = n
      BY <1>5, <1>7, <1>9, <3>2
    <3> QED  BY <1>12, <3>1, <3>2
  <2>3. ASSUME NEW i \in DOMAIN walk'.queue, NEW j \in DOMAIN walk'.queue, i <= j
        PROVE  walk'.queue[i].depth <= walk'.queue[j].depth
    <3>1. CASE i \in DOMAIN walk.queue /\ j \in DOMAIN walk.queue
      <4>1. walk'.queue[i] = walk.queue[i] /\ walk'.queue[j] = walk.queue[j]
        BY <1>12, <3>1
      <4> QED  BY <1>1, <2>3, <3>1, <4>1 DEF Layered
    <3>2. CASE i \in DOMAIN walk.queue /\ walk'.queue[j] = n
      <4>1. walk'.queue[i] = walk.queue[i]
        BY <1>12, <3>2
      <4>2. walk.queue[i].id \in walk.visited /\ walk.queue[i].depth = d[walk.queue[i].id]
        BY <1>1, <3>2 DEF Layered
      <4> QED  BY <1>4, <1>7, <3>2, <4>1, <4>2
    <3>3. CASE i = last /\ j \in DOMAIN walk.queue
      BY <1>12, <2>3, <3>3
    <3>4. CASE walk'.queue[i] = n /\ walk'.queue[j] = n
      BY <1>5, <1>7, <3>4
    <3> QED  BY <1>12, <3>1, <3>2, <3>3, <3>4
  <2>4. \A x \in walk'.visited : f[x] <= walk'.node.depth + 1
    BY <1>4, <1>5, <1>9
  <2>5. (walk.rows \subseteq Relationships(walk.node.id))'
    BY <1>2, <2>1, Zenon
  <2> QED  BY <2>1, <2>2, <2>3, <2>4, <2>5 DEF Layered
<1>14. Closed(f)'
  <2> SUFFICES ASSUME walk'.failures = 0, NEW x \in walk'.visited, NEW k \in Usable,
                      f[x] < walk.depth, LookedAt(x, k)'
               PROVE  /\ Neighbour(k, x) \in walk'.visited
                      /\ f[Neighbour(k, x)] <= f[x] + 1
                      /\ walk.op # "chain" => k \in walk'.rels
    BY <1>2, <1>10 DEF Closed
  <2>1. x \in walk.visited /\ f[x] = d[x]
    BY <1>9, <1>12 DEF LookedAt
  <2>2. CASE LookedAt(x, k)
    <3>1. /\ Neighbour(k, x) \in walk.visited
          /\ d[Neighbour(k, x)] <= d[x] + 1
          /\ walk.op # "chain" => k \in walk.rels
      BY <1>1, <1>12, <2>1, <2>2 DEF Closed
    <3> QED  BY <1>9, <2>1, <3>1
  <2>3. CASE ~LookedAt(x, k)
    <3>1. ~Queues(x)
      BY <1>12 DEF LookedAt, Queues
    <3>2. x = walk.node.id /\ k = l
      BY <2>3, <3>1 DEF LookedAt
    <3>3. Neighbour(k, x) = e /\ d[x] = walk.node.depth
      BY <1>4, <3>2
    <3> QED  BY <1>5, <1>9, <2>1, <3>2, <3>3
  <2> QED  BY <2>2, <2>3
<1>15. Collected(f)'
  <2> SUFFICES ASSUME walk.op # "chain"
               PROVE  /\ walk'.entities \subseteq walk'.visited
                      /\ walk'.failures = 0 => walk'.entities = walk'.visited
                      /\ walk'.rels \subseteq Usable
                      /\ \A k \in walk'.rels :
                            /\ {k[1], k[2]} \subseteq walk'.visited
                            /\ \E x \in {k[1], k[2]} : f[x] < walk.depth
    BY <1>2, <1>10, Zenon DEF Collected
  <2>1. /\ walk.entities \subseteq walk.visited
        /\ walk.failures = 0 => walk.entities = walk.visited
        /\ walk.rels \subseteq Usable
        /\ \A k \in walk.rels : /\ {k[1], k[2]} \subseteq walk.visited
                                /\ \E x \in {k[1], k[2]} : d[x] < walk.depth
    BY <1>1, Zenon DEF Collected
  <2>2. ASSUME NEW k \in walk'.rels
        PROVE  /\ {k[1], k[2]} \subseteq walk'.visited
               /\ \E x \in {k[1], k[2]} : f[x] < walk.depth
    <3>1. CASE k = l
      <4>1. walk.node.id \in walk'.visited /\ f[walk.node.id] < walk.depth
        BY <1>4, <1>9
      <4>2. {l[1], l[2]} \subseteq walk'.visited
        BY <1>6, <4>1
      <4> QED  BY <1>4, <3>1, <4>1, <4>2, Zenon
    <3>2. CASE k \in walk.rels
      <4>1. {k[1], k[2]} \subseteq walk.visited
        BY <2>1, <3>2, Zenon
      <4>2. PICK x \in {k[1], k[2]} : d[x] < walk.depth
        BY <2>1, <3>2, Zenon
      <4>3. f[x] < walk.depth
        BY <1>9, <4>1, <4>2
      <4> QED  BY <4>1, <4>2, <4>3
    <3> QED  BY <3>1, <3>2
  <2> QED  BY <1>12, <2>1, <2>2
<1>16. Searching'
  <2> SUFFICES ASSUME walk.op = "chain"  PROVE Searching'
    BY <1>10 DEF Searching
  <2>1. /\ walk.chain = <<>> /\ \E x \in Entity : walk.end = {x}
        /\ walk.end # {walk.start} => walk.end \cap walk.visited = {}
        /\ Arrives(walk.node) /\ \A i \in DOMAIN walk.queue : Arrives(walk.queue[i])
    BY DEF Searching
  <2>2. \A m : Arrives(m) => Arrives(m)'
    BY <1>2, <1>10, Zenon DEF Arrives
  <2>3. Arrives(n)
    <3>1. p = Append(walk.node.path, l)
      OBVIOUS
    <3>2. /\ Range(walk.node.path) \subseteq Usable
          /\ Len(walk.node.path) = walk.node.depth
          /\ Leads(walk.node.path, walk.start, walk.node.id)
      BY <2>1 DEF Arrives
    <3>3. l \in links
      BY <1>3
    <3>4. PICK old : old = walk.node.path
      OBVIOUS
    <3>5. PICK ls, U : ls = links /\ U = Usable
      OBVIOUS
    <3>6. PICK from, id : from = walk.start /\ id = walk.node.id
      OBVIOUS
    <3>7. /\ old \in Seq(ls) /\ Range(old) \subseteq U /\ Leads(old, from, id)
          /\ l \in ls /\ l \in U /\ {l[1], l[2]} = {id, e} /\ p = Append(old, l)
      BY <1>5, <1>6, <3>1, <3>2, <3>3, <3>4, <3>5, <3>6, Zenon
    <3>8. Leads(p, from, e)
      BY ONLY <1>6, <3>7, LeadsFurther
    <3>9. Len(p) = Len(old) + 1 /\ Range(p) \subseteq U
      BY ONLY <3>7, PathGrows
    <3>10. Len(p) = walk.node.depth + 1 /\ Range(p) \subseteq Usable
      BY <3>2, <3>4, <3>5, <3>9
    <3>11. Leads(p, walk.start, e)
      BY <3>6, <3>8, Zenon
    <3> QED  BY <1>7, <3>10, <3>11 DEF Arrives
  <2>4. walk'.end # {walk'.start} => walk'.end \cap walk'.visited = {}
    BY <1>10, <2>1
  <2>5. ASSUME NEW i \in DOMAIN walk'.queue  PROVE Arrives(walk.queue[i])'
    <3>1. PICK m : m = walk'.queue[i]
      OBVIOUS
    <3>2. Arrives(m)
      <4>1. CASE i \in DOMAIN walk.queue
        BY <1>12, <2>1, <3>1, <4>1
      <4>2. CASE walk'.queue[i] = n
        BY <2>3, <3>1, <4>2, Zenon
      <4> QED  BY <1>12, <4>1, <4>2
    <3>3. Arrives(m)'
      BY <2>2, <3>2, Zenon
    <3> QED  BY <3>1, <3>3, Zenon DEF Arrives
  <2>6. Arrives(walk.node)'
    <3>1. PICK m : m = walk.node
      OBVIOUS
    <3>2. Arrives(m)'
      BY <2>1, <2>2, <3>1, Zenon
    <3> QED  BY <3>1, <3>2, Zenon DEF Arrives
  <2> QED  BY <1>10, <2>1, <2>4, <2>5, <2>6, Zenon DEF Searching
<1>17. (\E g \in [walk.visited -> 0..walk.depth] : Explored(g))'
  BY <1>9, <1>10, <1>11, <1>13, <1>14, <1>15, Zenon DEF Explored
<1> QED  BY <1>10, <1>16, <1>17, Zenon DEF WalkInv
\* The next of the queue, with its relationships if it is near enough and they can be read.
LEMMA NextTaken ==
  ASSUME links \subseteq Entity \X Entity \X RelType,
         walk \in WalkRecord, (walk \in WalkRecord)', WalkKept, walk.depth # 0,
         walk.op # "list", ~walk.done, ~walk'.done, Searching,
         NEW d \in [walk.visited -> 0..walk.depth], Explored(d),
         walk.rows = {}, walk.queue # <<>>,
         walk'.queue = Tail(walk.queue), walk'.node = Head(walk.queue),
         walk'.visited = walk.visited, walk'.entities = walk.entities,
         walk'.rels = walk.rels, walk'.chain = walk.chain,
         walk'.failures = 0 => walk.failures = 0,
         \/ /\ walk'.rows = Relationships(walk'.node.id)
            /\ walk'.node.depth < walk.depth
         \/ /\ walk'.rows = {}
            /\ walk'.failures = 0 => walk'.node.depth >= walk.depth
  PROVE  WalkInv'
<1>1. Found(d) /\ Layered(d) /\ Closed(d) /\ Collected(d)
  BY DEF Explored
<1>2. Usable' = Usable /\ (\A m : Near(m)' = Near(m))
      /\ \A f : Relationships(f)' = Relationships(f)
  BY KeptReach, Zenon DEF Near
<1>3. /\ walk.depth \in Nat /\ walk.queue \in Seq(QueueEntry) /\ walk.node \in QueueEntry
      /\ walk'.node \in QueueEntry
  <2>1. walk.queue \in Seq(QueueEntry) /\ walk.depth \in Nat /\ walk.node \in QueueEntry
    BY WalkFields
  <2> QED  BY <2>1, HeadTailProperties
<1>4. /\ walk'.depth = walk.depth /\ walk'.start = walk.start /\ walk'.op = walk.op
      /\ walk'.end = walk.end
  BY DEF WalkKept
<1>5. /\ DOMAIN walk.queue = 1..Len(walk.queue) /\ Len(walk.queue) \in Nat \ {0}
      /\ DOMAIN walk'.queue = 1..(Len(walk.queue) - 1)
      /\ walk'.node = walk.queue[1]
      /\ \A i \in 1..(Len(walk.queue) - 1) : walk'.queue[i] = walk.queue[i + 1]
  <2>1. /\ walk'.queue \in Seq(QueueEntry) /\ Len(walk'.queue) = Len(walk.queue) - 1
        /\ \A i \in 1..Len(walk'.queue) : walk'.queue[i] = walk.queue[i + 1]
    BY <1>3, HeadTailProperties
  <2>2. Len(walk.queue) \in Nat \ {0} /\ DOMAIN walk.queue = 1..Len(walk.queue)
    BY <1>3, EmptySeq, LenProperties
  <2>3. DOMAIN walk'.queue = 1..Len(walk'.queue)
    BY <2>1, LenProperties
  <2>4. walk'.node = walk.queue[1]
    BY <1>3
  <2> QED  BY <2>1, <2>2, <2>3, <2>4
<1>6. /\ 1 \in DOMAIN walk.queue
      /\ \A i \in DOMAIN walk'.queue : /\ i + 1 \in DOMAIN walk.queue /\ 1 <= i + 1
                                       /\ walk'.queue[i] = walk.queue[i + 1]
      /\ \A i \in DOMAIN walk.queue : i = 1 \/ \E j \in DOMAIN walk'.queue : i = j + 1
  <2>1. ASSUME NEW i \in DOMAIN walk'.queue
        PROVE  /\ i + 1 \in DOMAIN walk.queue /\ 1 <= i + 1
               /\ walk'.queue[i] = walk.queue[i + 1]
    BY <1>5
  <2>2. ASSUME NEW i \in DOMAIN walk.queue, i # 1
        PROVE  \E j \in DOMAIN walk'.queue : i = j + 1
    <3>1. i - 1 \in DOMAIN walk'.queue /\ i = (i - 1) + 1
      BY <1>5, <2>2
    <3> QED  BY <3>1
  <2>3. 1 \in DOMAIN walk.queue
    BY <1>5
  <2> QED  BY <2>1, <2>2, <2>3
<1>7. \A i \in DOMAIN walk.queue : /\ walk.queue[i].depth \in Nat
                                   /\ walk.queue[i].id \in walk.visited
                                   /\ walk.queue[i].depth = d[walk.queue[i].id]
  BY <1>1, QueueFields DEF QueueEntry, Layered
<1>8. /\ walk'.node.id \in walk.visited /\ walk'.node.depth = d[walk'.node.id]
      /\ walk.node.depth <= walk'.node.depth
      /\ walk.node.depth \in Nat /\ walk'.node.depth \in Nat
  BY <1>1, <1>3, <1>5, <1>6, <1>7 DEF Layered, QueueEntry
<1>9. Found(d)'
  BY <1>1, <1>2, <1>4, Zenon DEF Found
<1>10. Layered(d)'
  <2>1. /\ walk'.rows # {} => walk'.node.depth < walk'.depth
        /\ (walk.rows \subseteq Relationships(walk.node.id))'
    <3>1. PICK id : id = walk'.node.id
      OBVIOUS
    <3>2. walk'.rows \subseteq Relationships(id)
      BY <3>1
    <3>3. walk'.rows \subseteq Relationships(id)'
      BY <1>2, <3>2, Zenon
    <3>4. (walk.rows \subseteq Relationships(walk.node.id))'
      BY <3>1, <3>3, Zenon DEF Relationships
    <3> QED  BY <1>4, <3>4
  <2>2. ASSUME NEW i \in DOMAIN walk'.queue
        PROVE  /\ walk'.queue[i].id \in walk'.visited
               /\ walk'.queue[i].depth = d[walk'.queue[i].id]
               /\ walk'.node.depth <= walk'.queue[i].depth
    BY <1>1, <1>5, <1>6, <1>7 DEF Layered
  <2>3. ASSUME NEW i \in DOMAIN walk'.queue, NEW j \in DOMAIN walk'.queue, i <= j
        PROVE  walk'.queue[i].depth <= walk'.queue[j].depth
    <3>1. i + 1 <= j + 1
      BY <1>5, <2>3
    <3> QED  BY <1>1, <1>6, <3>1 DEF Layered
  <2>4. \A x \in walk'.visited : d[x] <= walk'.node.depth + 1
    <3>1. ASSUME NEW x \in walk.visited  PROVE d[x] <= walk'.node.depth + 1
      <4>1. d[x] <= walk.node.depth + 1 /\ d[x] \in Nat
        BY <1>1, <1>3 DEF Layered
      <4> QED  BY <1>8, <4>1
    <3> QED  BY <3>1
  <2> QED  BY <1>8, <2>1, <2>2, <2>3, <2>4 DEF Layered
<1>11. Closed(d)'
  <2> SUFFICES ASSUME walk'.failures = 0, NEW x \in walk.visited, NEW k \in Usable,
                      d[x] < walk.depth, LookedAt(x, k)'
               PROVE  /\ Neighbour(k, x) \in walk.visited
                      /\ d[Neighbour(k, x)] <= d[x] + 1
                      /\ walk.op # "chain" => k \in walk.rels
    BY <1>2, <1>4 DEF Closed
  <2>1. x # walk'.node.id
    <3>1. CASE x = walk'.node.id
      <4>1. walk'.rows = Relationships(walk'.node.id)
        BY <1>3, <1>8, <3>1
      <4>2. k \in Relationships(x)
        BY DEF LookedAt, Relationships, Usable
      <4> QED  BY <3>1, <4>1, <4>2 DEF LookedAt
    <3> QED  BY <3>1
  <2>2. ~Queues(x)
    <3>1. ASSUME NEW i \in DOMAIN walk.queue, walk.queue[i].id = x  PROVE FALSE
      <4>1. i # 1
        BY <1>5, <2>1, <3>1
      <4>2. PICK j \in DOMAIN walk'.queue : i = j + 1
        BY <1>6, <4>1
      <4>3. walk'.queue[j].id = x
        BY <1>6, <3>1, <4>2
      <4> QED  BY <4>3 DEF LookedAt, Queues
    <3> QED  BY <3>1 DEF Queues
  <2>3. LookedAt(x, k)
    BY <2>2 DEF LookedAt
  <2> QED  BY <1>1, <2>3 DEF Closed
<1>12. Collected(d)'
  BY <1>1, <1>2, <1>4 DEF Collected
<1>13. Searching'
  <2> SUFFICES ASSUME walk.op = "chain"  PROVE Searching'
    BY <1>4 DEF Searching
  <2>1. \A m : Arrives(m) => Arrives(m)'
    BY <1>2, <1>4, Zenon DEF Arrives
  <2>2. \A i \in DOMAIN walk.queue : Arrives(walk.queue[i])
    BY DEF Searching
  <2>3. ASSUME NEW m, m = walk'.node  PROVE Arrives(m)'
    BY <1>5, <1>6, <2>1, <2>2, <2>3, Zenon
  <2>4. ASSUME NEW i \in DOMAIN walk'.queue, NEW m, m = walk'.queue[i]  PROVE Arrives(m)'
    BY <1>6, <2>1, <2>2, <2>4, Zenon
  <2>5. Arrives(walk.node)' /\ (\A i \in DOMAIN walk.queue : Arrives(walk.queue[i]))'
    BY <2>3, <2>4, Zenon DEF Arrives
  <2>6. /\ walk'.chain = <<>> /\ \E x \in Entity : walk'.end = {x}
        /\ walk'.end # {walk'.start} => walk'.end \cap walk'.visited = {}
    BY <1>4 DEF Searching
  <2> QED  BY <2>5, <2>6, Zenon DEF Searching
<1>14. (\E g \in [walk.visited -> 0..walk.depth] : Explored(g))'
  BY <1>4, <1>9, <1>10, <1>11, <1>12, Zenon DEF Explored
<1> QED  BY <1>4, <1>13, <1>14, Zenon DEF WalkInv

\* A row that leads to the end of a chain.
LEMMA RowArrives ==
  ASSUME links \subseteq Entity \X Entity \X RelType,
         walk \in WalkRecord, (walk \in WalkRecord)', WalkKept, walk.depth # 0,
         walk.op = "chain", ~walk.done, walk'.done, Searching,
         NEW d \in [walk.visited -> 0..walk.depth], Explored(d),
         NEW l \in walk.rows, l \in Usable, NEW e, e = Neighbour(l, walk.node.id),
         e \in walk.end, walk'.chain = Append(walk.node.path, l),
         walk'.failures = walk.failures
  PROVE  WalkInv'
<1>1. Found(d) /\ Layered(d) /\ Closed(d) /\ Collected(d)
  BY DEF Explored
<1>2. Usable' = Usable /\ (\A m : Near(m)' = Near(m))
  BY KeptReach, Zenon DEF Near
<1>3. /\ walk.depth \in Nat /\ walk.rows \in SUBSET links /\ walk.node \in QueueEntry
      /\ walk.end \in SUBSET Entity
  BY WalkFields
<1>4. walk.node.depth \in Nat /\ walk.node.path \in Seq(links)
  BY <1>3 DEF QueueEntry
<1>5. /\ walk'.depth = walk.depth /\ walk'.start = walk.start /\ walk'.op = walk.op
      /\ walk'.end = walk.end
  BY DEF WalkKept
<1>6. /\ walk.node.id \in {l[1], l[2]} /\ walk.node.depth < walk.depth
      /\ d[walk.node.id] = walk.node.depth
  BY <1>1 DEF Layered, Relationships
<1>7. {l[1], l[2]} = {walk.node.id, e} /\ e \in Entity
  BY <1>3, <1>6 DEF Neighbour
<1>8. /\ walk'.chain # <<>> /\ Range(walk'.chain) \subseteq Usable
      /\ Len(walk'.chain) = walk.node.depth + 1 /\ Leads(walk'.chain, walk.start, e)
  <2>1. /\ Range(walk.node.path) \subseteq Usable
        /\ Len(walk.node.path) = walk.node.depth
        /\ Leads(walk.node.path, walk.start, walk.node.id)
    BY DEF Searching, Arrives
  <2>2. PICK old : old = walk.node.path
    OBVIOUS
  <2>3. PICK ls, U : ls = links /\ U = Usable
    OBVIOUS
  <2>4. PICK from, id : from = walk.start /\ id = walk.node.id
    OBVIOUS
  <2>5. PICK p : p = walk'.chain
    OBVIOUS
  <2>6. /\ old \in Seq(ls) /\ Range(old) \subseteq U /\ Leads(old, from, id)
        /\ l \in ls /\ l \in U /\ {l[1], l[2]} = {id, e} /\ p = Append(old, l)
    BY <1>3, <1>4, <1>7, <2>1, <2>2, <2>3, <2>4, <2>5
  <2>7. Leads(p, from, e)
    BY ONLY <1>7, <2>6, LeadsFurther
  <2>8. Len(p) = Len(old) + 1 /\ Range(p) \subseteq U
    BY ONLY <2>6, PathGrows
  <2>9. p # <<>>
    BY ONLY <2>6, AppendProperties
  <2>10. Len(p) = walk.node.depth + 1
    BY <2>1, <2>2, <2>8
  <2> QED  BY <2>3, <2>4, <2>5, <2>7, <2>8, <2>9, <2>10, Zenon
<1>9. ASSUME walk.failures = 0, walk.end # {walk.start}
      PROVE  walk.end \cap Near(walk.node.depth) = {}
  <2>1. ASSUME NEW x \in walk.visited, NEW k \in Usable, d[x] < walk.node.depth,
               x \in {k[1], k[2]}
        PROVE  LookedAt(x, k)
    <3>1. d[x] \in Nat
      BY <1>3
    <3>2. ~Queues(x)
      <4>1. ASSUME NEW i \in DOMAIN walk.queue, walk.queue[i].id = x  PROVE FALSE
        <5>1. walk.queue[i].depth = d[x] /\ walk.node.depth <= walk.queue[i].depth
          BY <1>1, <4>1 DEF Layered
        <5> QED  BY <1>4, <2>1, <3>1, <5>1
      <4> QED  BY <4>1 DEF Queues
    <3>3. x # walk.node.id
      BY <1>4, <1>6, <2>1
    <3> QED  BY <2>1, <3>2, <3>3 DEF LookedAt
  <2>2. walk.node.depth <= walk.depth
    BY <1>3, <1>4, <1>6
  <2>3. \A x \in Near(walk.node.depth) : x \in walk.visited
    BY <1>1, <1>4, <1>9, <2>1, <2>2, NearVisited
  <2>4. walk.end \cap walk.visited = {}
    BY <1>9 DEF Searching
  <2> QED  BY <2>3, <2>4
<1>10. ChainFound'
  <2>1. PICK n : n = Len(walk'.chain) - 1
    OBVIOUS
  <2>2. n = walk.node.depth
    BY <1>4, <1>8, <2>1
  <2>3. walk'.failures = 0 /\ walk'.end # {walk'.start} => walk'.end \cap Near(n) = {}
    BY <1>5, <1>9, <2>2
  <2>4. walk'.failures = 0 /\ walk'.end # {walk'.start} => walk'.end \cap Near(n)' = {}
    BY <1>2, <2>3, Zenon
  <2>5. (walk.failures = 0 /\ walk.end # {walk.start} =>
           walk.end \cap Near(Len(walk.chain) - 1) = {})'
    BY <2>1, <2>4, Zenon DEF Near
  <2>6. Len(walk'.chain) <= walk'.depth
    BY <1>3, <1>4, <1>5, <1>6, <1>8
  <2>7. \E x \in walk'.end : Leads(walk'.chain, walk'.start, x)
    BY <1>5, <1>8, Zenon
  <2> QED  BY <1>2, <1>5, <1>8, <2>5, <2>6, <2>7, Zenon DEF ChainFound
<1> QED  BY <1>10, Zenon DEF WalkInv
-----------------------------------------------------------------------------
(* The actions.                                                            *)

\* A step of a walk that is going on has the invariant to start from.
LEMMA WalkGoesOn ==
  ASSUME GraphInv, Walking
  PROVE  /\ links \subseteq Entity \X Entity \X RelType
         /\ walk \in WalkRecord /\ walk.depth # 0 /\ walk.op # "list" /\ ~walk.done
         /\ Searching
         /\ \E d \in [walk.visited -> 0..walk.depth] : Explored(d)
BY Zenon DEF GraphInv, WalkInv, Walking

LEMMA RowsWalked ==
  ASSUME GraphInv, Walking, NEW l \in walk.rows
  PROVE  /\ l \in links /\ walk.node \in QueueEntry /\ walk.node.id \in Entity
         /\ walk.node.depth + 1 \in Nat /\ walk.node.path \in Seq(links)
         /\ Neighbour(l, walk.node.id) \in Entity
         /\ Append(walk.node.path, l) \in Seq(links)
<1>1. links \subseteq Entity \X Entity \X RelType /\ walk \in WalkRecord
  BY WalkGoesOn
<1>2. l \in links /\ walk.node \in QueueEntry
  BY <1>1, WalkFields
<1>3. walk.node.id \in Entity /\ walk.node.depth \in Nat /\ walk.node.path \in Seq(links)
  BY <1>2 DEF QueueEntry
<1>4. Neighbour(l, walk.node.id) \in Entity
  BY <1>1, <1>2, LinkEnds DEF Neighbour
<1>5. Append(walk.node.path, l) \in Seq(links)
  BY <1>2, <1>3, AppendProperties
<1> QED  BY <1>2, <1>3, <1>4, <1>5

\* The record with a row less, and with what the row brings.
LEMMA RowTakenTyped ==
  ASSUME walk \in WalkRecord, NEW l, NEW w, w = RowTaken(l)
  PROVE  /\ w \in WalkRecord
         /\ w.rows = walk.rows \ {l}
         /\ w.op = walk.op /\ w.start = walk.start /\ w.end = walk.end
         /\ w.depth = walk.depth /\ w.types = walk.types /\ w.queue = walk.queue
         /\ w.node = walk.node /\ w.visited = walk.visited /\ w.entities = walk.entities
         /\ w.rels = walk.rels /\ w.chain = walk.chain /\ w.done = walk.done
         /\ w.failures = walk.failures
BY DEF WalkRecord, RowTaken

LEMMA DiscoverTyped ==
  ASSUME NEW w \in WalkRecord, NEW e \in Entity, NEW p \in Seq(links),
         NEW v, v = Discover(w, e, p)
  PROVE  /\ v \in WalkRecord
         /\ v.visited = w.visited \cup {e}
         /\ v.queue = Append(w.queue, Queued(e, w.node.depth + 1, p))
         /\ v.op = w.op /\ v.start = w.start /\ v.end = w.end
         /\ v.depth = w.depth /\ v.types = w.types
         /\ v.node = w.node /\ v.rows = w.rows /\ v.entities = w.entities
         /\ v.rels = w.rels /\ v.chain = w.chain /\ v.done = w.done
         /\ v.failures = w.failures
<1> DEFINE q == Append(w.queue, Queued(e, w.node.depth + 1, p))
<1>1. q \in Seq(QueueEntry)
  <2>1. w.queue \in Seq(QueueEntry) /\ w.node \in QueueEntry
    <3> HIDE DEF QueueEntry
    <3> QED  BY DEF WalkRecord
  <2>2. w.node.depth + 1 \in Nat
    BY <2>1 DEF QueueEntry
  <2> QED  BY <2>1, <2>2, QueuedTyped, AppendProperties
<1>2. w.visited \in SUBSET Entity
  <2> HIDE DEF QueueEntry
  <2> QED  BY DEF WalkRecord
<1> DEFINE seen == w.visited \cup {e}
<1>3. seen \in SUBSET Entity
  BY <1>2
<1>4. v = [w EXCEPT !.visited = seen, !.queue = q]
  BY DEF Discover
<1> HIDE DEF q, seen, QueueEntry
<1>5. v \in WalkRecord /\ v.visited = seen /\ v.queue = q
  BY <1>1, <1>3, <1>4 DEF WalkRecord
<1> QED  BY <1>4, <1>5 DEF WalkRecord, q, seen

LEMMA RelsTyped ==
  ASSUME NEW w \in WalkRecord, NEW l \in links,
         NEW v, v = [w EXCEPT !.rels = @ \cup {l}]
  PROVE  /\ v \in WalkRecord
         /\ v.rels = w.rels \cup {l} /\ v.entities = w.entities
         /\ v.op = w.op /\ v.start = w.start /\ v.end = w.end
         /\ v.depth = w.depth /\ v.types = w.types /\ v.queue = w.queue
         /\ v.node = w.node /\ v.rows = w.rows /\ v.visited = w.visited
         /\ v.chain = w.chain /\ v.done = w.done /\ v.failures = w.failures
<1> HIDE DEF QueueEntry
<1> QED  BY DEF WalkRecord

LEMMA RecordKept ==
  ASSUME links' = links, NEW v \in WalkRecord, walk' = v  PROVE (walk \in WalkRecord)'
<1>1. WalkRecord' = WalkRecord
  BY DEF WalkRecord, QueueEntry
<1> QED  BY <1>1, Zenon

LEMMA ClosureWalks == ASSUME GraphInv, transitiveClosure  PROVE GraphInv'
<1>1. PICK l \in walk.rows : walk' = Collect(RowTaken(l), l)
  BY DEF transitiveClosure
<1>2. Walking /\ walk.op # "chain" /\ links' = links
  BY DEF transitiveClosure
<1>3. /\ links \subseteq Entity \X Entity \X RelType
      /\ walk \in WalkRecord /\ walk.depth # 0 /\ walk.op # "list" /\ ~walk.done
      /\ Searching
  BY <1>2, WalkGoesOn
<1>4. PICK d \in [walk.visited -> 0..walk.depth] : Explored(d)
  BY <1>2, WalkGoesOn
<1>5. PICK w : w = RowTaken(l)
  OBVIOUS
<1>6. PICK e : e = Neighbour(l, walk.node.id)
  OBVIOUS
<1>7. /\ w \in WalkRecord /\ w.rows = walk.rows \ {l}
      /\ w.op = walk.op /\ w.start = walk.start /\ w.end = walk.end
      /\ w.depth = walk.depth /\ w.types = walk.types /\ w.queue = walk.queue
      /\ w.node = walk.node /\ w.visited = walk.visited /\ w.entities = walk.entities
      /\ w.rels = walk.rels /\ w.chain = walk.chain /\ w.done = walk.done
      /\ w.failures = walk.failures
  BY <1>3, <1>5, RowTakenTyped
<1>8. /\ l \in links /\ walk.node \in QueueEntry /\ e \in Entity
      /\ walk.node.depth + 1 \in Nat /\ {l[1], l[2]} = {walk.node.id, e}
  <2>1. walk.node.id \in {l[1], l[2]}
    BY <1>4 DEF Explored, Layered, Relationships
  <2>2. {l[1], l[2]} = {walk.node.id, e}
    BY <1>6, <2>1, NeighbourEnds, Zenon
  <2> QED  BY <1>2, <1>6, <2>2, RowsWalked
<1>9. l \in Usable <=> Passes(l, w.types)
  BY <1>7, <1>8 DEF Usable
<1>10. links' \subseteq Entity \X Entity \X RelType
  BY <1>2, <1>3
<1>11. walk' = IF ~Passes(l, w.types) \/ l \in w.rels THEN w
               ELSE IF e \in w.visited THEN [w EXCEPT !.rels = @ \cup {l}]
               ELSE [Discover(w, e, <<>>) EXCEPT !.rels = @ \cup {l},
                                                 !.entities = @ \cup {e}]
  BY <1>1, <1>5, <1>6, <1>7, Zenon DEF Collect
<1>12. CASE ~Passes(l, w.types) \/ l \in w.rels
  <2>1. walk' = w
    BY <1>11, <1>12, Zenon
  <2>2. (walk \in WalkRecord)'
    BY <1>2, <1>7, <2>1, RecordKept, Zenon
  <2>3. WalkKept
    BY <1>2, <1>7, <2>1, Zenon DEF WalkKept
  <2>4. l \in Usable => l \in walk.rels
    BY <1>7, <1>9, <1>12, Zenon
  <2>5. l \in Usable => Neighbour(l, walk.node.id) \in walk.visited
    <3>1. ASSUME l \in walk.rels  PROVE {l[1], l[2]} \subseteq walk.visited
      BY <1>2, <1>4, <3>1, Zenon DEF Explored, Collected
    <3> QED  BY <1>6, <1>8, <2>4, <3>1
  <2>6. WalkInv'
    BY <1>2, <1>3, <1>4, <1>7, <2>1, <2>2, <2>3, <2>4, <2>5, RowPassed
  <2> QED  BY <1>10, <2>6, Zenon DEF GraphInv
<1>13. CASE Passes(l, w.types) /\ l \notin w.rels /\ e \in w.visited
  <2>1. walk' = [w EXCEPT !.rels = @ \cup {l}]
    BY <1>11, <1>13, Zenon
  <2>2. /\ walk' \in WalkRecord
        /\ walk'.rels = w.rels \cup {l} /\ walk'.entities = w.entities
        /\ walk'.op = w.op /\ walk'.start = w.start /\ walk'.end = w.end
        /\ walk'.depth = w.depth /\ walk'.types = w.types /\ walk'.queue = w.queue
        /\ walk'.node = w.node /\ walk'.rows = w.rows /\ walk'.visited = w.visited
        /\ walk'.chain = w.chain /\ walk'.done = w.done /\ walk'.failures = w.failures
    BY <1>7, <1>8, <2>1, RelsTyped
  <2>3. (walk \in WalkRecord)'
    BY <1>2, <2>2, RecordKept, Zenon
  <2>4. WalkKept
    BY <1>2, <1>7, <2>2, Zenon DEF WalkKept
  <2>5. l \in Usable => Neighbour(l, walk.node.id) \in walk.visited
    BY <1>6, <1>7, <1>13, Zenon
  <2>6. /\ walk'.queue = walk.queue /\ walk'.node = walk.node
        /\ walk'.visited = walk.visited /\ walk'.entities = walk.entities
        /\ walk'.failures = walk.failures /\ walk'.chain = walk.chain
        /\ walk'.rows = walk.rows \ {l} /\ walk'.rels = walk.rels \cup {l} /\ ~walk'.done
    BY <1>3, <1>7, <2>2, Zenon
  <2>7. l \in Usable
    BY <1>9, <1>13
  <2>8. WalkInv'
    BY <1>2, <1>3, <1>4, <2>3, <2>4, <2>5, <2>6, <2>7, RowPassed
  <2> QED  BY <1>10, <2>8, Zenon DEF GraphInv
<1>14. CASE Passes(l, w.types) /\ l \notin w.rels /\ e \notin w.visited
  <2>1. PICK v : v = Discover(w, e, <<>>)
    OBVIOUS
  <2>2. <<>> \in Seq(links)
    BY EmptySeq
  <2>3. /\ v \in WalkRecord
        /\ v.visited = w.visited \cup {e}
        /\ v.queue = Append(w.queue, Queued(e, w.node.depth + 1, <<>>))
        /\ v.op = w.op /\ v.start = w.start /\ v.end = w.end
        /\ v.depth = w.depth /\ v.types = w.types
        /\ v.node = w.node /\ v.rows = w.rows /\ v.entities = w.entities
        /\ v.rels = w.rels /\ v.chain = w.chain /\ v.done = w.done
        /\ v.failures = w.failures
    <3>1. PICK p : p = <<>>
      OBVIOUS
    <3>2. w \in WalkRecord /\ e \in Entity /\ p \in Seq(links) /\ v = Discover(w, e, p)
      BY <1>7, <1>8, <2>1, <2>2, <3>1, Zenon
    <3> HIDE DEF WalkRecord
    <3>3. /\ v \in WalkRecord
          /\ v.visited = w.visited \cup {e}
          /\ v.queue = Append(w.queue, Queued(e, w.node.depth + 1, p))
          /\ v.op = w.op /\ v.start = w.start /\ v.end = w.end
          /\ v.depth = w.depth /\ v.types = w.types
          /\ v.node = w.node /\ v.rows = w.rows /\ v.entities = w.entities
          /\ v.rels = w.rels /\ v.chain = w.chain /\ v.done = w.done
          /\ v.failures = w.failures
      BY ONLY <3>2, DiscoverTyped
    <3> QED  BY <3>1, <3>3, Zenon
  <2>4. walk' = [v EXCEPT !.rels = @ \cup {l}, !.entities = @ \cup {e}]
    BY <1>11, <1>14, <2>1, Zenon
  <2>5. /\ walk' \in WalkRecord
        /\ walk'.rels = v.rels \cup {l} /\ walk'.entities = v.entities \cup {e}
        /\ walk'.op = v.op /\ walk'.start = v.start /\ walk'.end = v.end
        /\ walk'.depth = v.depth /\ walk'.types = v.types /\ walk'.queue = v.queue
        /\ walk'.node = v.node /\ walk'.rows = v.rows /\ walk'.visited = v.visited
        /\ walk'.chain = v.chain /\ walk'.done = v.done /\ walk'.failures = v.failures
    <3>1. PICK r, f : r = v.rels \cup {l} /\ f = v.entities \cup {e}
      OBVIOUS
    <3>2. r \in SUBSET links /\ f \in SUBSET Entity
      <4>1. v.rels \in SUBSET links /\ v.entities \in SUBSET Entity
        BY <2>3 DEF WalkRecord
      <4> QED  BY <1>8, <3>1, <4>1
    <3>3. PICK u : u = walk'
      OBVIOUS
    <3>4. u = [v EXCEPT !.rels = r, !.entities = f]
      BY <2>4, <3>1, <3>3, Zenon
    <3>5. /\ u \in WalkRecord
          /\ u.rels = r /\ u.entities = f
          /\ u.op = v.op /\ u.start = v.start /\ u.end = v.end
          /\ u.depth = v.depth /\ u.types = v.types /\ u.queue = v.queue
          /\ u.node = v.node /\ u.rows = v.rows /\ u.visited = v.visited
          /\ u.chain = v.chain /\ u.done = v.done /\ u.failures = v.failures
      <4> HIDE DEF QueueEntry
      <4>1. v \in WalkRecord
        BY <2>3
      <4> QED  BY ONLY <4>1, <3>2, <3>4 DEF WalkRecord
    <3> QED  BY <3>1, <3>3, <3>5, Zenon
  <2>6. (walk \in WalkRecord)'
    BY <1>2, <2>5, RecordKept, Zenon
  <2>7. WalkKept
    BY <1>2, <1>7, <2>3, <2>5, Zenon DEF WalkKept
  <2>8. /\ walk'.queue = Append(walk.queue, Queued(e, walk.node.depth + 1, <<>>))
        /\ walk'.node = walk.node /\ walk'.visited = walk.visited \cup {e}
        /\ walk'.entities = walk.entities \cup {e} /\ walk'.failures = walk.failures
        /\ walk'.chain = walk.chain /\ walk'.rows = walk.rows \ {l}
        /\ walk'.rels = walk.rels \cup {l} /\ ~walk'.done
    BY SMTT(30), <1>3, <1>7, <2>3, <2>5, Zenon
  <2>9. l \in Usable /\ e \notin walk.visited
    BY <1>7, <1>9, <1>14
  <2>10. WalkInv'
    <3> HIDE DEF WalkInv, WalkRecord, WalkKept
    <3> QED  BY <1>2, <1>3, <1>4, <1>6, <2>2, <2>6, <2>7, <2>8, <2>9, RowLeads
  <2> QED  BY <1>10, <2>10, Zenon DEF GraphInv
<1> QED  BY <1>12, <1>13, <1>14, Zenon

LEMMA ChainWalks == ASSUME GraphInv, findInferenceChain  PROVE GraphInv'
<1>1. PICK l \in walk.rows : walk' = Follow(RowTaken(l), l)
  BY DEF findInferenceChain
<1>2. Walking /\ walk.op = "chain" /\ links' = links
  BY DEF findInferenceChain
<1>3. /\ links \subseteq Entity \X Entity \X RelType
      /\ walk \in WalkRecord /\ walk.depth # 0 /\ walk.op # "list" /\ ~walk.done
      /\ Searching
  BY <1>2, WalkGoesOn
<1>4. PICK d \in [walk.visited -> 0..walk.depth] : Explored(d)
  BY <1>2, WalkGoesOn
<1>5. PICK w : w = RowTaken(l)
  OBVIOUS
<1>6. PICK e : e = Neighbour(l, walk.node.id)
  OBVIOUS
<1>7. /\ w \in WalkRecord /\ w.rows = walk.rows \ {l}
      /\ w.op = walk.op /\ w.start = walk.start /\ w.end = walk.end
      /\ w.depth = walk.depth /\ w.types = walk.types /\ w.queue = walk.queue
      /\ w.node = walk.node /\ w.visited = walk.visited /\ w.entities = walk.entities
      /\ w.rels = walk.rels /\ w.chain = walk.chain /\ w.done = walk.done
      /\ w.failures = walk.failures
  BY <1>3, <1>5, RowTakenTyped
<1>8. PICK p : p = Append(walk.node.path, l)
  OBVIOUS
<1>9. /\ l \in links /\ walk.node \in QueueEntry /\ e \in Entity
      /\ walk.node.depth + 1 \in Nat /\ p \in Seq(links)
  BY <1>2, <1>6, <1>8, RowsWalked
<1>10. l \in Usable <=> Passes(l, w.types)
  BY <1>7, <1>9 DEF Usable
<1>11. links' \subseteq Entity \X Entity \X RelType
  BY <1>2, <1>3
<1>12. walk' = IF ~Passes(l, w.types) THEN w
               ELSE IF e \in w.end
               THEN [w EXCEPT !.chain = p, !.rows = {}, !.done = TRUE]
               ELSE IF e \in w.visited THEN w
               ELSE Discover(w, e, p)
  BY <1>1, <1>5, <1>6, <1>7, <1>8, Zenon DEF Follow
<1>13. CASE ~Passes(l, w.types) \/ (e \notin w.end /\ e \in w.visited)
  <2>1. walk' = w
    BY <1>12, <1>13, Zenon
  <2>2. (walk \in WalkRecord)'
    BY <1>2, <1>7, <2>1, RecordKept, Zenon
  <2>3. WalkKept
    BY <1>2, <1>7, <2>1, Zenon DEF WalkKept
  <2>4. l \in Usable => Neighbour(l, walk.node.id) \in walk.visited
    BY <1>6, <1>7, <1>10, <1>13, Zenon
  <2>5. WalkInv'
    BY <1>2, <1>3, <1>4, <1>7, <2>1, <2>2, <2>3, <2>4, RowPassed
  <2> QED  BY <1>11, <2>5, Zenon DEF GraphInv
<1>14. CASE Passes(l, w.types) /\ e \in w.end
  <2>1. walk' = [w EXCEPT !.chain = p, !.rows = {}, !.done = TRUE]
    BY <1>12, <1>14, Zenon
  <2>2. PICK u : u = walk'
    OBVIOUS
  <2>3. w \in WalkRecord /\ u = [w EXCEPT !.chain = p, !.rows = {}, !.done = TRUE]
    BY <1>7, <2>1, <2>2, Zenon
  <2>4. /\ u \in WalkRecord
        /\ u.chain = p /\ u.done
        /\ u.op = w.op /\ u.start = w.start /\ u.end = w.end
        /\ u.depth = w.depth /\ u.types = w.types /\ u.failures = w.failures
    <3> HIDE DEF QueueEntry
    <3>1. p \in Seq(links)
      BY <1>9
    <3> QED  BY ONLY <2>3, <3>1 DEF WalkRecord
  <2>5. (walk \in WalkRecord)'
    BY <1>2, <2>2, <2>4, RecordKept, Zenon
  <2>6. WalkKept
    BY <1>2, <1>7, <2>2, <2>4, Zenon DEF WalkKept
  <2>7. /\ walk'.chain = Append(walk.node.path, l) /\ walk'.failures = walk.failures
        /\ walk'.done /\ e \in walk.end
    BY <1>7, <1>8, <1>14, <2>2, <2>4, Zenon
  <2>8. WalkInv'
    <3>1. l \in Usable
      BY <1>10, <1>14
    <3> QED  BY <1>2, <1>3, <1>4, <1>6, <2>5, <2>6, <2>7, <3>1, RowArrives
  <2> QED  BY <1>11, <2>8, Zenon DEF GraphInv
<1>15. CASE Passes(l, w.types) /\ e \notin w.end /\ e \notin w.visited
  <2>1. PICK v : v = walk'
    OBVIOUS
  <2>2. w \in WalkRecord /\ e \in Entity /\ p \in Seq(links) /\ v = Discover(w, e, p)
    BY <1>7, <1>9, <1>12, <1>15, <2>1, Zenon
  <2>3. /\ v \in WalkRecord
        /\ v.visited = w.visited \cup {e}
        /\ v.queue = Append(w.queue, Queued(e, w.node.depth + 1, p))
        /\ v.op = w.op /\ v.start = w.start /\ v.end = w.end
        /\ v.depth = w.depth /\ v.types = w.types
        /\ v.node = w.node /\ v.rows = w.rows /\ v.entities = w.entities
        /\ v.rels = w.rels /\ v.chain = w.chain /\ v.done = w.done
        /\ v.failures = w.failures
    BY ONLY <2>2, DiscoverTyped
  <2>4. (walk \in WalkRecord)'
    BY <1>2, <2>1, <2>3, RecordKept, Zenon
  <2>5. WalkKept
    BY <1>2, <1>7, <2>1, <2>3, Zenon DEF WalkKept
  <2>6. /\ walk'.queue = Append(walk.queue, Queued(e, walk.node.depth + 1, p))
        /\ walk'.node = walk.node /\ walk'.visited = walk.visited \cup {e}
        /\ walk'.failures = walk.failures /\ walk'.chain = walk.chain
        /\ walk'.rows = walk.rows \ {l} /\ ~walk'.done
    BY <1>3, <1>7, <2>1, <2>3, Zenon
  <2>7. l \in Usable /\ e \notin walk.visited /\ e \notin walk.end
    BY <1>7, <1>10, <1>15
  <2>8. WalkInv'
    <3> HIDE DEF WalkInv, WalkRecord, WalkKept
    <3> QED  BY <1>2, <1>3, <1>4, <1>6, <1>8, <1>9, <2>4, <2>5, <2>6, <2>7, RowLeads
  <2> QED  BY <1>11, <2>8, Zenon DEF GraphInv
<1> QED  BY <1>13, <1>14, <1>15, Zenon

LEMMA NeighbourLost == ASSUME GraphInv, GetEntityFails  PROVE GraphInv'
<1>1. PICK l \in walk.rows :
          /\ Passes(l, walk.types) /\ l \notin walk.rels
          /\ Neighbour(l, walk.node.id) \notin walk.visited
          /\ walk' = [RowTaken(l) EXCEPT !.rels = @ \cup {l},
                         !.visited = @ \cup {Neighbour(l, walk.node.id)},
                         !.failures = @ + 1]
  BY DEF GetEntityFails
<1>2. Walking /\ walk.op # "chain" /\ links' = links
  BY DEF GetEntityFails
<1>3. /\ links \subseteq Entity \X Entity \X RelType
      /\ walk \in WalkRecord /\ walk.depth # 0 /\ walk.op # "list" /\ ~walk.done
      /\ Searching
  BY <1>2, WalkGoesOn
<1>4. PICK d \in [walk.visited -> 0..walk.depth] : Explored(d)
  BY <1>2, WalkGoesOn
<1>5. PICK w : w = RowTaken(l)
  OBVIOUS
<1>6. PICK e : e = Neighbour(l, walk.node.id)
  OBVIOUS
<1>7. /\ w \in WalkRecord /\ w.rows = walk.rows \ {l}
      /\ w.op = walk.op /\ w.start = walk.start /\ w.end = walk.end
      /\ w.depth = walk.depth /\ w.types = walk.types /\ w.queue = walk.queue
      /\ w.node = walk.node /\ w.visited = walk.visited /\ w.entities = walk.entities
      /\ w.rels = walk.rels /\ w.chain = walk.chain /\ w.done = walk.done
      /\ w.failures = walk.failures
  BY <1>3, <1>5, RowTakenTyped
<1>8. l \in links /\ e \in Entity
  BY <1>2, <1>6, RowsWalked
<1>9. walk.failures \in Nat /\ walk.rels \in SUBSET links /\ walk.visited \in SUBSET Entity
  BY <1>3, WalkFields
<1>10. PICK r, s, n : r = walk.rels \cup {l} /\ s = walk.visited \cup {e}
                      /\ n = walk.failures + 1
  OBVIOUS
<1>11. r \in SUBSET links /\ s \in SUBSET Entity /\ n \in Nat /\ n # 0
  BY <1>8, <1>9, <1>10
<1>12. PICK u : u = walk'
  OBVIOUS
<1>13. u = [w EXCEPT !.rels = r, !.visited = s, !.failures = n]
  BY <1>1, <1>5, <1>6, <1>7, <1>10, <1>12, Zenon
<1>14. /\ u \in WalkRecord
       /\ u.rels = r /\ u.visited = s /\ u.failures = n
       /\ u.op = w.op /\ u.start = w.start /\ u.end = w.end
       /\ u.depth = w.depth /\ u.types = w.types /\ u.queue = w.queue
       /\ u.node = w.node /\ u.rows = w.rows /\ u.entities = w.entities
       /\ u.chain = w.chain /\ u.done = w.done
  <2> HIDE DEF QueueEntry
  <2>1. w \in WalkRecord
    BY <1>7
  <2> QED  BY ONLY <1>11, <1>13, <2>1 DEF WalkRecord
<1>15. (walk \in WalkRecord)'
  BY <1>2, <1>12, <1>14, RecordKept, Zenon
<1>16. WalkKept
  BY <1>2, <1>7, <1>12, <1>14, Zenon DEF WalkKept
<1>17. /\ walk'.queue = walk.queue /\ walk'.failures # 0
       /\ walk'.node = walk.node /\ walk'.visited = walk.visited \cup {e}
       /\ walk'.entities = walk.entities /\ walk'.chain = walk.chain
       /\ walk'.rows = walk.rows \ {l} /\ walk'.rels = walk.rels \cup {l} /\ ~walk'.done
  BY <1>3, <1>7, <1>10, <1>11, <1>12, <1>14, Zenon
<1>18. l \in Usable /\ e \notin walk.visited
  BY <1>1, <1>6, <1>8 DEF Usable
<1>19. <<>> \in Seq(links)
  BY EmptySeq
<1>20. WalkInv'
  <2> HIDE DEF WalkInv, WalkRecord, WalkKept
  <2> QED  BY <1>2, <1>3, <1>4, <1>6, <1>15, <1>16, <1>17, <1>18, <1>19, RowLeads
<1> QED  BY <1>2, <1>3, <1>20, Zenon DEF GraphInv

\* The three ways to take it.
LEMMA WalkTakes ==
  ASSUME GraphInv, Walking, walk.rows = {}, links' = links,
         NEW read \in SUBSET links, NEW n \in Nat,
         walk' = [Popped EXCEPT !.rows = read, !.failures = n],
         n = 0 => walk.failures = 0,
         \/ read = Relationships(Head(walk.queue).id) /\ Head(walk.queue).depth < walk.depth
         \/ read = {} /\ (n = 0 => Head(walk.queue).depth >= walk.depth)
  PROVE  GraphInv'
<1>1. /\ links \subseteq Entity \X Entity \X RelType
      /\ walk \in WalkRecord /\ walk.depth # 0 /\ walk.op # "list" /\ ~walk.done
      /\ Searching
  BY WalkGoesOn
<1>2. PICK d \in [walk.visited -> 0..walk.depth] : Explored(d)
  BY WalkGoesOn
<1>3. walk.queue # <<>>
  BY DEF Walking
<1>4. PICK u : u = walk'
  OBVIOUS
<1>5. /\ u \in WalkRecord
      /\ u.rows = read /\ u.failures = n
      /\ u.queue = Tail(walk.queue) /\ u.node = Head(walk.queue)
      /\ u.op = walk.op /\ u.start = walk.start /\ u.end = walk.end
      /\ u.depth = walk.depth /\ u.types = walk.types /\ u.visited = walk.visited
      /\ u.entities = walk.entities /\ u.rels = walk.rels /\ u.chain = walk.chain
      /\ u.done = walk.done
  <2>1. PICK q, h : q = Tail(walk.queue) /\ h = Head(walk.queue)
    OBVIOUS
  <2>2. q \in Seq(QueueEntry) /\ h \in QueueEntry
    <3>1. walk.queue \in Seq(QueueEntry)
      BY <1>1, WalkFields
    <3> QED  BY <1>3, <2>1, <3>1, HeadTailProperties
  <2>3. PICK v : v = [walk EXCEPT !.queue = q, !.node = h]
    OBVIOUS
  <2>4. u = [v EXCEPT !.rows = read, !.failures = n]
    BY <1>4, <2>1, <2>3, Zenon DEF Popped
  <2> HIDE DEF QueueEntry
  <2>5. /\ v \in WalkRecord /\ v.queue = q /\ v.node = h
        /\ v.op = walk.op /\ v.start = walk.start /\ v.end = walk.end
        /\ v.depth = walk.depth /\ v.types = walk.types /\ v.visited = walk.visited
        /\ v.entities = walk.entities /\ v.rels = walk.rels /\ v.chain = walk.chain
        /\ v.done = walk.done
    BY <1>1, <2>2, <2>3 DEF WalkRecord
  <2>6. /\ u \in WalkRecord /\ u.rows = read /\ u.failures = n
        /\ u.queue = v.queue /\ u.node = v.node
        /\ u.op = v.op /\ u.start = v.start /\ u.end = v.end
        /\ u.depth = v.depth /\ u.types = v.types /\ u.visited = v.visited
        /\ u.entities = v.entities /\ u.rels = v.rels /\ u.chain = v.chain
        /\ u.done = v.done
    BY <2>4, <2>5 DEF WalkRecord
  <2> QED  BY <2>1, <2>5, <2>6
<1>6. (walk \in WalkRecord)'
  BY <1>4, <1>5, RecordKept, Zenon
<1>7. WalkKept
  BY <1>4, <1>5, Zenon DEF WalkKept
<1>8. \/ walk'.rows = Relationships(walk'.node.id) /\ walk'.node.depth < walk.depth
      \/ walk'.rows = {} /\ (walk'.failures = 0 => walk'.node.depth >= walk.depth)
  BY <1>4, <1>5, Zenon
<1>9. WalkInv'
  <2> HIDE DEF WalkInv, WalkRecord, WalkKept
  <2> QED  BY <1>1, <1>2, <1>3, <1>4, <1>5, <1>6, <1>7, <1>8, NextTaken
<1> QED  BY <1>1, <1>9, Zenon DEF GraphInv

LEMMA RelationshipsRead == ASSUME GraphInv, ReadRelationships  PROVE GraphInv'
<1>1. Walking /\ walk.rows = {} /\ links' = links
  BY DEF ReadRelationships
<1>2. walk \in WalkRecord /\ links \subseteq Entity \X Entity \X RelType
  BY <1>1, WalkGoesOn
<1>3. walk.failures \in Nat
  BY <1>2, WalkFields
<1>4. CASE Head(walk.queue).depth >= walk.depth
  <2>1. walk' = Popped
    BY <1>4 DEF ReadRelationships
  <2>2. walk' = [Popped EXCEPT !.rows = {}, !.failures = walk.failures]
    <3> HIDE DEF QueueEntry
    <3> QED  BY <1>1, <1>2, <2>1 DEF Popped, WalkRecord
  <2>3. {} \in SUBSET links
    OBVIOUS
  <2> QED  BY <1>1, <1>3, <1>4, <2>2, <2>3, WalkTakes
<1>5. CASE ~(Head(walk.queue).depth >= walk.depth)
  <2>1. PICK read : read = Relationships(Head(walk.queue).id)
    OBVIOUS
  <2>2. walk' = [Popped EXCEPT !.rows = read]
    BY <1>5, <2>1, Zenon DEF ReadRelationships
  <2>3. walk' = [Popped EXCEPT !.rows = read, !.failures = walk.failures]
    <3> HIDE DEF QueueEntry
    <3> QED  BY <1>2, <2>2 DEF Popped, WalkRecord
  <2>4. read \in SUBSET links
    BY <2>1 DEF Relationships
  <2>5. Head(walk.queue).depth < walk.depth
    <3>1. Head(walk.queue) \in QueueEntry
      <4>1. walk.queue \in Seq(QueueEntry) /\ walk.queue # <<>>
        BY <1>1, <1>2, WalkFields DEF Walking
      <4> QED  BY <4>1, HeadTailProperties
    <3>2. Head(walk.queue).depth \in Nat /\ walk.depth \in Nat
      BY <1>2, <3>1, WalkFields DEF QueueEntry
    <3> QED  BY <1>5, <3>2
  <2> QED  BY <1>1, <1>3, <2>1, <2>3, <2>4, <2>5, WalkTakes
<1> QED  BY <1>4, <1>5

LEMMA RelationshipsLost == ASSUME GraphInv, ReadFails  PROVE GraphInv'
<1>1. Walking /\ walk.rows = {} /\ links' = links
  BY DEF ReadFails
<1>2. walk \in WalkRecord /\ links \subseteq Entity \X Entity \X RelType
  BY <1>1, WalkGoesOn
<1>3. walk.failures \in Nat
  BY <1>2, WalkFields
<1>4. PICK n : n = walk.failures + 1
  OBVIOUS
<1>5. n \in Nat /\ n # 0
  BY <1>3, <1>4
<1>6. walk' = [Popped EXCEPT !.failures = n]
  <2>1. Popped.failures = walk.failures
    <3> HIDE DEF QueueEntry
    <3> QED  BY <1>2 DEF Popped, WalkRecord
  <2> QED  BY <1>4, <2>1, Zenon DEF ReadFails
<1>7. walk' = [Popped EXCEPT !.rows = {}, !.failures = n]
  <2> HIDE DEF QueueEntry
  <2> QED  BY <1>1, <1>2, <1>6 DEF Popped, WalkRecord
<1>8. {} \in SUBSET links
  OBVIOUS
<1> QED  BY <1>1, <1>5, <1>7, <1>8, WalkTakes

LEMMA WalkAsked ==
  ASSUME GraphInv, NEW start \in Entity, NEW end \in SUBSET Entity, NEW depth \in Nat,
         NEW types \in SUBSET RelType, end = {} \/ \E e \in Entity : end = {e},
         Query(start, end, depth, types)
  PROVE  GraphInv'
<1> DEFINE op == IF end = {} THEN "closure" ELSE "chain"
<1>1. op \in {"closure", "chain", "graph"} /\ (op = "chain" => \E e \in Entity : end = {e})
  OBVIOUS
<1>2. OrDefault(depth, 3) \in Nat \ {0}
  BY DEF OrDefault
<1>3. StartWalk(op, start, end, OrDefault(depth, 3), types)
  BY DEF Query
<1> HIDE DEF op
<1> QED  BY <1>1, <1>2, <1>3, WalkBegins

LEMMA NeighbourhoodAsked ==
  ASSUME GraphInv, NEW start \in Entity, NEW depth \in Nat, GetEntityGraph(start, depth)
  PROVE  GraphInv'
<1>1. OrDefault(depth, 3) \in Nat \ {0} /\ {} \in SUBSET Entity /\ {} \in SUBSET RelType
  BY DEF OrDefault
<1>2. "graph" \in {"closure", "chain", "graph"} /\ "graph" # "chain"
  OBVIOUS
<1>3. StartWalk("graph", start, {}, OrDefault(depth, 3), {})
  BY Zenon DEF GetEntityGraph
<1> QED  BY <1>1, <1>2, <1>3, WalkBegins

LEMMA QueriesStart ==
  ASSUME GraphInv,
         \/ handleMemoryGetInferenceChain
         \/ handleMemoryQueryKG
         \/ handleMemoryGetEntityGraph
         \/ handleMemoryRenderGraphHTML
  PROVE  GraphInv'
<1>1. \A d \in Depth : OrDefault(d, 3) \in Nat /\ OrDefault(d, 1) \in Nat
                       /\ OrDefault(OrDefault(d, 3), 3) \in Nat
                       /\ OrDefault(OrDefault(d, 1), 3) \in Nat
  BY KnowledgeGraphAssumption DEF OrDefault
<1>2. CASE handleMemoryGetInferenceChain
  <2>1. PICK e \in StartFrom, end \in Entity, d \in Depth :
           GetInferenceChain(e, end, OrDefault(d, 3))
    BY <1>2 DEF handleMemoryGetInferenceChain
  <2>2. Query(e, {end}, OrDefault(OrDefault(d, 3), 3), {})
    BY <2>1 DEF GetInferenceChain
  <2>3. e \in Entity /\ {end} \in SUBSET Entity /\ {} \in SUBSET RelType
        /\ \E f \in Entity : {end} = {f}
    BY KnowledgeGraphAssumption
  <2> QED  BY <1>1, <2>2, <2>3, WalkAsked
<1>3. CASE handleMemoryQueryKG
  <2>1. PICK e \in StartFrom, end \in {{}} \cup {{f} : f \in Entity}, d \in Depth,
             types \in Types : Query(e, end, d, types)
    BY <1>3 DEF handleMemoryQueryKG
  <2>2. /\ e \in Entity /\ end \in SUBSET Entity /\ d \in Nat /\ types \in SUBSET RelType
        /\ end = {} \/ \E f \in Entity : end = {f}
    BY KnowledgeGraphAssumption
  <2> QED  BY <2>1, <2>2, WalkAsked
<1>4. CASE handleMemoryGetEntityGraph
  <2>1. PICK e \in StartFrom, d \in Depth : GetEntityGraph(e, OrDefault(d, 1))
    BY <1>4 DEF handleMemoryGetEntityGraph
  <2>2. e \in Entity
    BY KnowledgeGraphAssumption
  <2> QED  BY <1>1, <2>1, <2>2, NeighbourhoodAsked
<1>5. CASE handleMemoryRenderGraphHTML
  <2>1. PICK e \in StartFrom, d \in Depth : RenderHTML(e, OrDefault(d, 1))
    BY <1>5 DEF handleMemoryRenderGraphHTML
  <2>2. e \in Entity
    BY KnowledgeGraphAssumption
  <2>3. GetEntityGraph(e, OrDefault(OrDefault(d, 1), 3))
    BY <2>1 DEF RenderHTML
  <2> QED  BY <1>1, <2>2, <2>3, NeighbourhoodAsked
<1> QED  BY <1>2, <1>3, <1>4, <1>5

LEMMA GraphStep == ASSUME GraphInv, [GraphNext]_graphVars  PROVE GraphInv'
<1>1. CASE UNCHANGED graphVars
  <2>1. links' = links /\ walk' = walk
    BY <1>1 DEF graphVars
  <2>2. WalkRecord' = WalkRecord /\ Usable' = Usable
    BY <2>1 DEF WalkRecord, QueueEntry, Usable, Passes
  <2>3. /\ \A n : Near(n)' = Near(n)
        /\ \A e : Relationships(e)' = Relationships(e)
        /\ \A e : Queues(e)' = Queues(e)
        /\ \A e : Arrives(e)' = Arrives(e)
    BY <2>1, <2>2, Zenon DEF Near, Relationships, Queues, Arrives
  <2>4. \A e, l : LookedAt(e, l)' = LookedAt(e, l)
    BY <2>1, <2>3, Zenon DEF LookedAt
  <2>5. \A d : Found(d) => Found(d)'
    BY <2>1, <2>3, Zenon DEF Found
  <2>6. \A d : Layered(d) => Layered(d)'
    BY <2>1, Zenon DEF Layered, Relationships
  <2>7. \A d : Closed(d) => Closed(d)'
    BY <2>1, <2>2, <2>4, Zenon DEF Closed
  <2>8. \A d : Collected(d) => Collected(d)'
    BY <2>1, <2>2, Zenon DEF Collected
  <2>9. Searching => Searching'
    BY <2>1, <2>2, Zenon DEF Searching, Arrives
  <2>10. ChainFound => ChainFound'
    BY <2>1, <2>2, Zenon DEF ChainFound, Near
  <2>11. WalkInv => WalkInv'
    BY <2>1, <2>2, <2>5, <2>6, <2>7, <2>8, <2>9, <2>10, Zenon DEF WalkInv, Explored
  <2> QED  BY <2>1, <2>11, Zenon DEF GraphInv
<1>2. ASSUME NEW found \in SUBSET Entity, Listed(found)  PROVE GraphInv'
  BY <1>2, ListBegins
<1>3. CASE handleMemoryExtractEntities
  BY <1>2, <1>3 DEF handleMemoryExtractEntities, ExtractEntities
<1>4. CASE handleMemorySearchEntities
  BY <1>2, <1>4 DEF handleMemorySearchEntities, SearchEntities
<1>5. CASE handleMemoryGetEntitiesByType
  BY <1>2, <1>5 DEF handleMemoryGetEntitiesByType, GetEntitiesByType
<1>6. CASE handleMemoryCreateEntityRelationship
  BY <1>6, LinkAdded DEF handleMemoryCreateEntityRelationship
<1>7. CASE GraphReply
  BY <1>7, WalkEnds DEF GraphReply
<1> QED  BY <1>1, <1>3, <1>4, <1>5, <1>6, <1>7, QueriesStart, ClosureWalks, ChainWalks,
            NeighbourLost, RelationshipsRead, RelationshipsLost, Zenon DEF GraphNext

THEOREM GraphInductive == GraphSpec => []GraphInv
BY GraphInitially, GraphStep, PTL DEF GraphSpec

\* What a walk answers is what the graph holds, for any entities, types of relationships,
\* depths and filters, any number of relationships, and whatever order their rows come in
\* (kg/queries.go:94, :182, kg/entities.go:222).
THEOREM AlwaysExact == GraphSpec => []WalksAreExact
<1>1. GraphInv => WalksAreExact
  BY GraphInvExact
<1> QED  BY <1>1, GraphInductive, PTL

-----------------------------------------------------------------------------
(* The types of a walk: its failed reads are counted, and no more of them. *)

\* The reads of a walk that have failed are counted, up to the bound.
FailuresBounded == walk # NoWalk => walk.failures <= MaxReadFailures

LEMMA FailuresStay ==
  ASSUME GraphInv, FailuresBounded,
         \/ UNCHANGED walk
         \/ walk' = NoWalk
         \/ walk'.failures = 0
         \/ walk # NoWalk /\ walk'.failures = walk.failures
         \/ walk # NoWalk /\ walk.failures < MaxReadFailures /\ walk'.failures = walk.failures + 1
  PROVE  FailuresBounded'
<1>1. walk # NoWalk => walk.failures \in Nat
  BY WalkFields DEF GraphInv, WalkInv
<1>2. 0 <= MaxReadFailures /\ MaxReadFailures \in Nat
  BY KnowledgeGraphAssumption
<1> QED  BY <1>1, <1>2 DEF FailuresBounded

LEMMA NoneFailedYet ==
  ASSUME NEW op, NEW e, NEW end, NEW d, NEW types
  PROVE  NewWalk(op, e, end, d, types).failures = 0
  BY DEF NewWalk

\* A row that is looked at fails no read.
LEMMA RowCounts ==
  ASSUME walk \in WalkRecord, NEW l \in walk.rows
  PROVE  /\ Collect(RowTaken(l), l).failures = walk.failures
         /\ Follow(RowTaken(l), l).failures = walk.failures
<1> DEFINE w == RowTaken(l)
<1>1. w \in WalkRecord /\ w.failures = walk.failures
  <2>1. walk.rows \ {l} \in SUBSET links
    BY WalkFields
  <2> QED  BY <2>1 DEF RowTaken, WalkRecord
<1> HIDE DEF w
<1>2. ASSUME NEW x \in WalkRecord, NEW a, NEW b, NEW c, NEW q, NEW s
      PROVE  /\ [x EXCEPT !.rels = a].failures = x.failures
             /\ [x EXCEPT !.visited = b, !.queue = q].failures = x.failures
             /\ [x EXCEPT !.chain = a, !.rows = b, !.done = c].failures = x.failures
             /\ [[x EXCEPT !.visited = b, !.queue = q] EXCEPT !.rels = a, !.entities = s].failures
                  = x.failures
  BY DEF WalkRecord
<1>3. ASSUME NEW p
      PROVE  Discover(w, Neighbour(l, w.node.id), p).failures = w.failures
  BY <1>1, <1>2 DEF Discover
<1>4. Collect(w, l).failures = w.failures
  BY <1>1, <1>2 DEF Collect, Discover
<1>5. Follow(w, l).failures = w.failures
  BY <1>1, <1>2, <1>3 DEF Follow
<1> QED  BY <1>1, <1>4, <1>5 DEF w

LEMMA FailuresStep ==
  ASSUME GraphInv, FailuresBounded, [GraphNext]_graphVars
  PROVE  FailuresBounded'
<1>1. walk # NoWalk => walk \in WalkRecord
  BY DEF GraphInv, WalkInv
<1>2. CASE UNCHANGED graphVars
  BY <1>2, FailuresStay DEF graphVars
<1>3. ASSUME NEW op, NEW e, NEW end, NEW d, NEW types, StartWalk(op, e, end, d, types)
      PROVE  FailuresBounded'
  BY <1>3, NoneFailedYet, FailuresStay DEF StartWalk
<1>4. ASSUME NEW found, Listed(found)
      PROVE  FailuresBounded'
  <2> DEFINE new == NewWalk("list", CHOOSE e \in Entity : TRUE, {}, 0, {})
  <2>1. walk' = [new EXCEPT !.entities = found, !.done = TRUE]
    BY <1>4, Zenon DEF Listed
  <2>2. walk'.failures = 0
    BY <2>1 DEF NewWalk
  <2> QED  BY <2>2, FailuresStay
<1>5. CASE handleMemoryExtractEntities \/ handleMemorySearchEntities \/ handleMemoryGetEntitiesByType
  BY <1>4, <1>5 DEF handleMemoryExtractEntities, handleMemorySearchEntities,
     handleMemoryGetEntitiesByType, ExtractEntities, SearchEntities, GetEntitiesByType
<1>6. CASE handleMemoryGetInferenceChain \/ handleMemoryQueryKG \/ handleMemoryGetEntityGraph
           \/ handleMemoryRenderGraphHTML
  <2>1. \E op, e, end, d, types : StartWalk(op, e, end, d, types)
    BY <1>6, Zenon DEF handleMemoryGetInferenceChain, handleMemoryQueryKG,
       handleMemoryGetEntityGraph, handleMemoryRenderGraphHTML, GetInferenceChain, Query,
       GetEntityGraph, RenderHTML
  <2> QED  BY <1>3, <2>1
<1>7. CASE handleMemoryCreateEntityRelationship
  <2>1. UNCHANGED walk
    BY <1>7 DEF handleMemoryCreateEntityRelationship, CreateEntityRelationship,
       InsertEntityRelationship
  <2> QED  BY <2>1, FailuresStay
<1>8. CASE transitiveClosure \/ findInferenceChain
  <2>1. walk # NoWalk /\ walk \in WalkRecord
    BY <1>1, <1>8 DEF transitiveClosure, findInferenceChain, Walking
  <2>2. \E l \in walk.rows : walk' = Collect(RowTaken(l), l) \/ walk' = Follow(RowTaken(l), l)
    BY <1>8 DEF transitiveClosure, findInferenceChain
  <2> QED  BY <2>1, <2>2, RowCounts, FailuresStay
<1>9. CASE GetEntityFails
  <2>1. walk # NoWalk /\ walk \in WalkRecord /\ walk.failures < MaxReadFailures
    BY <1>1, <1>9 DEF GetEntityFails, Walking
  <2>2. PICK left, rels, visited :
           walk' = [[walk EXCEPT !.rows = left] EXCEPT !.rels = rels, !.visited = visited,
                                                       !.failures = @ + 1]
    BY <1>9, Zenon DEF GetEntityFails, RowTaken
  <2>3. walk'.failures = walk.failures + 1
    BY <2>1, <2>2 DEF WalkRecord
  <2> QED  BY <2>1, <2>3, FailuresStay
<1>10. CASE ReadRelationships
  <2>1. walk # NoWalk /\ walk \in WalkRecord
    BY <1>1, <1>10 DEF ReadRelationships, Walking
  <2>2. PICK queue, node :
           \/ walk' = [walk EXCEPT !.queue = queue, !.node = node]
           \/ \E left : walk' = [[walk EXCEPT !.queue = queue, !.node = node]
                                     EXCEPT !.rows = left]
    BY <1>10, Zenon DEF ReadRelationships, Popped
  <2>3. CASE walk' = [walk EXCEPT !.queue = queue, !.node = node]
    <3>1. walk'.failures = walk.failures
      BY <2>1, <2>3 DEF WalkRecord
    <3> QED  BY <2>1, <3>1, FailuresStay
  <2>4. ASSUME NEW left, walk' = [[walk EXCEPT !.queue = queue, !.node = node] EXCEPT !.rows = left]
        PROVE  FailuresBounded'
    <3>1. walk'.failures = walk.failures
      BY <2>1, <2>4 DEF WalkRecord
    <3> QED  BY <2>1, <3>1, FailuresStay
  <2> QED  BY <2>2, <2>3, <2>4
<1>11. CASE ReadFails
  <2>1. walk # NoWalk /\ walk \in WalkRecord /\ walk.failures < MaxReadFailures
    BY <1>1, <1>11 DEF ReadFails, Walking
  <2>2. PICK queue, node : walk' = [[walk EXCEPT !.queue = queue, !.node = node]
                                          EXCEPT !.failures = @ + 1]
    BY <1>11, Zenon DEF ReadFails, Popped
  <2>3. walk'.failures = walk.failures + 1
    BY <2>1, <2>2 DEF WalkRecord
  <2> QED  BY <2>1, <2>3, FailuresStay
<1>12. CASE GraphReply
  BY <1>12, FailuresStay DEF GraphReply
<1> QED  BY <1>2, <1>5, <1>6, <1>7, <1>8, <1>9, <1>10, <1>11, <1>12 DEF GraphNext

\* A walk stays among the entities and relationships there are.
THEOREM GraphTypeCorrect == GraphSpec => []GraphTypeOK
<1>1. GraphInit => FailuresBounded
  BY DEF GraphInit, FailuresBounded
<1>2. GraphInv /\ FailuresBounded /\ [GraphNext]_graphVars => FailuresBounded'
  BY FailuresStep
<1>3. GraphInv /\ FailuresBounded => GraphTypeOK
  BY WalkFields, KnowledgeGraphAssumption DEF GraphInv, WalkInv, FailuresBounded, GraphTypeOK
<1> QED  BY <1>1, <1>2, <1>3, GraphInductive, PTL DEF GraphSpec

(***************************************************************************)
(*                              Project index                              *)
(*                                                                         *)
(* A file that the next run of Index will pass over as unchanged is        *)
(* indexed as it is, for any files and texts, any size and overlap of      *)
(* chunks, any number of jobs and timers, and any interleaving of their    *)
(* reads and statements with writes of the files, failures and restarts.   *)
(* There are two halves.  The first is about the chunker: the chunks of a  *)
(* text tile its lines, so that joined in the order of start_line they     *)
(* show the text.  The second is about the workers: the rows of a file     *)
(* that no second worker and no failure has upset are the chunks of the    *)
(* text its tracked hash is of, unless a worker has read two texts, one    *)
(* for the hash and one for the rows, or none for the rows.  The file may  *)
(* get any text at any time: the invariant says nothing of the text it     *)
(* has, only what each worker has yet to delete and to insert.             *)
(***************************************************************************)

-----------------------------------------------------------------------------
(* The chunks of a text.                                                   *)

Piece == [from : Nat, to : Nat]

\* The pieces c cut the lines after a up to b: each begins where the one before it
\* ends or earlier, and ends no earlier.
Tiles(c, a, b) ==
    /\ c # <<>>
    /\ c[1].from = a + 1 /\ c[Len(c)].to = b
    /\ \A i \in 1..Len(c) : c[i].from <= c[i].to
    /\ \A i \in 1..(Len(c) - 1) :
          /\ c[i].from < c[i + 1].from
          /\ c[i + 1].from <= c[i].to + 1
          /\ c[i].to <= c[i + 1].to

LEMMA StrideFacts == MaxLines \in Nat \ {0} /\ Stride \in 1..MaxLines /\ Stride \in Nat \ {0}
  BY ChunkerAssumption DEF Stride

\* A quotient rounded up is the least multiple that is enough.
LEMMA RoundedUp ==
  ASSUME NEW d \in Nat \ {0}, NEW s \in Nat \ {0}, NEW n, n = (d + s - 1) \div s
  PROVE  n \in Nat \ {0} /\ (n - 1) * s < d /\ d <= n * s
<1>1. PICK a \in Nat \ {0} : a = d + s - 1
  OBVIOUS
<1>2. /\ a \div s \in Nat /\ a % s \in 0..(s - 1)
      /\ a = s * (a \div s) + (a % s)
  BY <1>1
<1>3. PICK q \in Nat, r \in Nat : n = q /\ r <= s - 1 /\ a = s * q + r
  BY <1>1, <1>2
<1>4. PICK t \in Nat : t = s * q
  OBVIOUS
<1>5. d <= t /\ t < d + s
  BY <1>1, <1>3, <1>4
<1>6. q # 0
  BY <1>4, <1>5
<1>7. q * s = t /\ (q - 1) * s = t - s
  <2>1. q - 1 \in Nat /\ q = (q - 1) + 1
    BY <1>6
  <2>2. q * s = (q - 1) * s + s
    BY <2>1, TimesGrows
  <2>3. q * s = t /\ (q - 1) * s \in Nat
    BY <1>4, <2>1
  <2> QED  BY <2>2, <2>3
<1> QED  BY <1>3, <1>5, <1>6, <1>7

\* Slices of MaxLines a stride apart cut a section.
LEMMA SlicesTile ==
  ASSUME NEW s \in Nat, NEW e \in Nat, s < e
  PROVE  Slices(s, e) \in Seq(Piece) /\ Tiles(Slices(s, e), s, e)
<1> DEFINE n == ((e - s + Stride - 1) \div Stride)
           c == Slices(s, e)
<1>1. n \in Nat \ {0} /\ (n - 1) * Stride < e - s /\ e - s <= n * Stride
  <2>1. e - s \in Nat \ {0}
    OBVIOUS
  <2> QED  BY <2>1, StrideFacts, RoundedUp
<1>2. c = [i \in 1..n |-> [from |-> s + (i - 1) * Stride + 1,
                           to |-> Smaller(s + (i - 1) * Stride + MaxLines, e)]]
  BY DEF Slices
<1> HIDE DEF n, c
<1>3. ASSUME NEW i \in 1..n
      PROVE  \E x \in Nat :
                /\ x = (i - 1) * Stride /\ x < e - s
                /\ c[i] = [from |-> s + x + 1, to |-> IF s + x + MaxLines < e THEN s + x + MaxLines ELSE e]
  <2>1. i - 1 \in Nat /\ n - 1 \in Nat /\ i - 1 <= n - 1
    BY <1>1
  <2>2. (i - 1) * Stride \in Nat /\ (i - 1) * Stride <= (n - 1) * Stride /\ (n - 1) * Stride \in Nat
    BY <2>1, TimesGrows, StrideFacts
  <2>3. PICK x \in Nat : x = (i - 1) * Stride /\ x < e - s
    BY <1>1, <2>2
  <2>4. c[i] = [from |-> s + x + 1, to |-> Smaller(s + x + MaxLines, e)]
    BY <1>2, <2>3
  <2> QED  BY <2>3, <2>4 DEF Smaller
<1>4. ASSUME NEW i \in 1..n  PROVE c[i] \in Piece /\ c[i].from <= c[i].to
  <2>1. PICK x \in Nat :
           /\ x < e - s
           /\ c[i] = [from |-> s + x + 1, to |-> IF s + x + MaxLines < e THEN s + x + MaxLines ELSE e]
    BY <1>3
  <2> QED  BY <2>1, StrideFacts DEF Piece
<1>5. c \in Seq(Piece) /\ Len(c) = n
  <2>1. c \in [1..n -> Piece]
    BY <1>2, <1>4
  <2> QED  BY <1>1, <2>1, SeqDef, LenProperties
<1>6. c[1].from = s + 1
  <2>0. 1 \in 1..n
    BY <1>1
  <2>1. PICK x \in Nat :
           /\ x = (1 - 1) * Stride
           /\ c[1] = [from |-> s + x + 1, to |-> IF s + x + MaxLines < e THEN s + x + MaxLines ELSE e]
    BY <1>3, <2>0
  <2>2. x = 0
    BY <2>1, StrideFacts
  <2> QED  BY <2>1, <2>2
<1>7. c[n].to = e
  <2>0. n \in 1..n
    BY <1>1
  <2>1. PICK x \in Nat :
           /\ x = (n - 1) * Stride
           /\ c[n] = [from |-> s + x + 1, to |-> IF s + x + MaxLines < e THEN s + x + MaxLines ELSE e]
    BY <1>3, <2>0
  <2>2. n - 1 \in Nat /\ n = (n - 1) + 1
    BY <1>1
  <2>3. n * Stride = x + Stride
    BY <2>1, <2>2, TimesGrows, StrideFacts
  <2>4. e - s <= x + Stride
    BY <1>1, <2>3
  <2>5. ~(s + x + MaxLines < e)
    BY <2>4, StrideFacts
  <2> QED  BY <2>1, <2>5
<1>8. ASSUME NEW i \in 1..(n - 1)
      PROVE  /\ c[i].from < c[i + 1].from
             /\ c[i + 1].from <= c[i].to + 1
             /\ c[i].to <= c[i + 1].to
  <2>1. i \in 1..n /\ i + 1 \in 1..n
    BY <1>1
  <2>2. PICK x \in Nat :
                /\ x = (i - 1) * Stride /\ x < e - s
                /\ c[i] = [from |-> s + x + 1, to |-> IF s + x + MaxLines < e THEN s + x + MaxLines ELSE e]
    BY <1>3, <2>1
  <2>3. PICK y \in Nat :
                /\ y = ((i + 1) - 1) * Stride /\ y < e - s
                /\ c[i + 1] = [from |-> s + y + 1, to |-> IF s + y + MaxLines < e THEN s + y + MaxLines ELSE e]
    BY <1>3, <2>1
  <2>4. y = x + Stride
    <3>1. i - 1 \in Nat /\ (i + 1) - 1 = (i - 1) + 1
      OBVIOUS
    <3>2. ((i - 1) + 1) * Stride = (i - 1) * Stride + Stride
      BY <3>1, TimesGrows, StrideFacts
    <3> QED  BY <2>2, <2>3, <3>1, <3>2
  <2> QED  BY <2>2, <2>3, <2>4, StrideFacts
<1> QED  BY <1>1, <1>4, <1>5, <1>6, <1>7, <1>8 DEF Tiles, c

\* What is cut after what has been cut.
LEMMA TilesJoin ==
  ASSUME NEW a \in Nat, NEW b \in Nat, NEW e \in Nat,
         NEW c \in Seq(Piece), NEW d \in Seq(Piece), Tiles(c, a, b), Tiles(d, b, e)
  PROVE  c \o d \in Seq(Piece) /\ Tiles(c \o d, a, e)
<1> DEFINE m == Len(c)
           n == Len(d)
           j == c \o d
<1>1. /\ j \in Seq(Piece) /\ Len(j) = m + n
      /\ \A i \in 1..(m + n) : j[i] = IF i <= m THEN c[i] ELSE d[i - m]
  BY ConcatProperties
<1>2. m \in Nat \ {0} /\ n \in Nat \ {0}
  BY EmptySeq DEF Tiles
<1>3. /\ \A i \in 1..m : c[i] \in Piece
      /\ \A i \in 1..n : d[i] \in Piece
  BY ElementOfSeq
<1>4. /\ \A i \in 1..m : c[i].from \in Nat /\ c[i].to \in Nat /\ c[i].from <= c[i].to
      /\ \A i \in 1..n : d[i].from \in Nat /\ d[i].to \in Nat /\ d[i].from <= d[i].to
      /\ c[1].from = a + 1 /\ c[m].to = b /\ d[1].from = b + 1 /\ d[n].to = e
  BY <1>3 DEF Piece, Tiles
<1>5. /\ \A i \in 1..(m - 1) : c[i].from < c[i + 1].from /\ c[i + 1].from <= c[i].to + 1
                                /\ c[i].to <= c[i + 1].to
      /\ \A i \in 1..(n - 1) : d[i].from < d[i + 1].from /\ d[i + 1].from <= d[i].to + 1
                                /\ d[i].to <= d[i + 1].to
  BY DEF Tiles
<1> HIDE DEF m, n, j
<1>6. j[1].from = a + 1 /\ j[m + n].to = e /\ j # <<>>
  <2>1. 1 \in 1..(m + n) /\ 1 <= m /\ m + n \in 1..(m + n) /\ ~(m + n <= m) /\ (m + n) - m = n
    BY <1>2
  <2>2. j[1] = c[1] /\ j[m + n] = d[n]
    BY <1>1, <2>1
  <2>3. Len(j) # 0
    BY <1>1, <1>2
  <2> QED  BY <1>4, <2>2, <2>3, EmptySeq
<1>7. ASSUME NEW i \in 1..(m + n)  PROVE j[i].from <= j[i].to
  <2>1. CASE i <= m
    <3>1. i \in 1..m
      BY <2>1
    <3> QED  BY <1>1, <1>4, <2>1, <3>1
  <2>2. CASE ~(i <= m)
    <3>1. i - m \in 1..n
      BY <1>2, <2>2
    <3> QED  BY <1>1, <1>4, <2>2, <3>1
  <2> QED  BY <2>1, <2>2
<1>8. ASSUME NEW i \in 1..((m + n) - 1)
      PROVE  j[i].from < j[i + 1].from /\ j[i + 1].from <= j[i].to + 1 /\ j[i].to <= j[i + 1].to
  <2>0. i \in 1..(m + n) /\ i + 1 \in 1..(m + n)
    BY <1>2
  <2>1. CASE i < m
    <3>1. i \in 1..(m - 1) /\ i <= m /\ i + 1 <= m
      BY <1>2, <2>1
    <3>2. j[i] = c[i] /\ j[i + 1] = c[i + 1]
      BY <1>1, <2>0, <3>1
    <3> QED  BY <1>5, <3>1, <3>2
  <2>2. CASE i = m
    <3>1. i <= m /\ ~(i + 1 <= m) /\ (i + 1) - m = 1 /\ m \in 1..m /\ 1 \in 1..n
      BY <1>2, <2>2
    <3>2. j[i] = c[m] /\ j[i + 1] = d[1]
      BY <1>1, <2>0, <2>2, <3>1
    <3>3. c[m].from <= b /\ c[m].from \in Nat /\ d[1].to \in Nat /\ b + 1 <= d[1].to
      BY <1>4, <3>1
    <3>4. /\ j[i].from = c[m].from /\ j[i].to = b
          /\ j[i + 1].from = b + 1 /\ j[i + 1].to = d[1].to
      BY <1>4, <3>2
    <3> QED  BY <3>3, <3>4
  <2>3. CASE i > m
    <3>1. i - m \in 1..(n - 1) /\ ~(i <= m) /\ ~(i + 1 <= m) /\ (i + 1) - m = (i - m) + 1
      BY <1>2, <2>3
    <3>2. j[i] = d[i - m] /\ j[i + 1] = d[(i - m) + 1]
      BY <1>1, <2>0, <3>1
    <3> QED  BY <1>5, <3>1, <3>2
  <2> QED  BY <1>2, <2>1, <2>2, <2>3
<1> QED  BY <1>1, <1>6, <1>7, <1>8 DEF Tiles, j

\* joined[i] is the first i sequences of s, one after the other.
Joined(joined, s, n) ==
    joined[1] = s[1] /\ \A i \in 2..n : joined[i] = joined[i - 1] \o s[i]

\* Sequences are flattened by joining one after the other.
LEMMA Flattens ==
  ASSUME NEW n \in Nat, n # 0, NEW s, Len(s) = n
  PROVE  \E f : FlattenSeq(s) = f[n] /\ Joined(f, s, n)
<1> DEFINE Joins(f, m) == f = [i \in 1..m |-> IF i = 1 THEN s[i] ELSE f[i - 1] \o s[i]]
           T == {m \in 1..n : ~ \E f : Joins(f, m)}
<1>1. T = {}
  <2> SUFFICES ASSUME T # {}  PROVE FALSE
    OBVIOUS
  <2>0. T \in SUBSET Nat
    <3> HIDE DEF Joins
    <3> QED  OBVIOUS
  <2>1. PICK m \in T : \A k \in T : m <= k
    <3> HIDE DEF T
    <3> QED  BY <2>0, LeastNumber
  <2>2. m \in 1..n /\ m \in Nat
    <3> HIDE DEF Joins
    <3> QED  OBVIOUS
  <2>3. CASE m = 1
    <3> DEFINE g == [i \in 1..1 |-> s[i]]
    <3>1. g = [i \in 1..1 |-> IF i = 1 THEN s[i] ELSE g[i - 1] \o s[i]]
      OBVIOUS
    <3> QED  BY <2>3, <3>1
  <2>4. CASE m # 1
    <3>1. m - 1 \in 1..n /\ m - 1 \notin T
      <4> HIDE DEF T
      <4> QED  BY <2>1, <2>2, <2>4
    <3>2. PICK f : Joins(f, m - 1)
      BY <3>1
    <3> DEFINE g == [i \in 1..m |-> IF i = m THEN f[m - 1] \o s[m] ELSE f[i]]
    <3>3. g = [i \in 1..m |-> IF i = 1 THEN s[i] ELSE g[i - 1] \o s[i]]
      <4>1. \A i \in 1..m : g[i] = IF i = 1 THEN s[i] ELSE g[i - 1] \o s[i]
        <5> TAKE i \in 1..m
        <5>1. CASE i = m
          <6>1. i # 1 /\ i - 1 \in 1..m /\ i - 1 # m
            BY <2>2, <2>4, <5>1
          <6>2. g[i] = f[m - 1] \o s[m] /\ g[i - 1] = f[i - 1]
            BY <2>2, <5>1, <6>1
          <6> QED  BY <5>1, <6>1, <6>2
        <5>2. CASE i # m
          <6>1. i \in 1..(m - 1) /\ g[i] = f[i]
            BY <2>2, <5>2
          <6>2. f[i] = IF i = 1 THEN s[i] ELSE f[i - 1] \o s[i]
            BY <3>2, <6>1
          <6>3. i # 1 => i - 1 \in 1..m /\ i - 1 # m /\ g[i - 1] = f[i - 1]
            BY <2>2, <5>2
          <6> QED  BY <6>1, <6>2, <6>3
        <5> QED  BY <5>1, <5>2
      <4>2. g = [i \in 1..m |-> g[i]]
        OBVIOUS
      <4> HIDE DEF g
      <4> QED  BY <4>1, <4>2
    <3> QED  BY <3>3
  <2> QED  BY <2>3, <2>4
<1>2. n \in 1..n
  OBVIOUS
<1>3. \E f : f = [i \in 1..n |-> IF i = 1 THEN s[i] ELSE f[i - 1] \o s[i]]
  <2>1. \E f : Joins(f, n)
    <3> HIDE DEF Joins
    <3> QED  BY <1>1, <1>2
  <2> QED  BY <2>1
<1> DEFINE flat == CHOOSE f : f = [i \in 1..n |-> IF i = 1 THEN s[i] ELSE f[i - 1] \o s[i]]
<1>4. flat = [i \in 1..n |-> IF i = 1 THEN s[i] ELSE flat[i - 1] \o s[i]]
  BY <1>3
<1>5. FlattenSeq(s) = flat[n]
  BY DEF FlattenSeq
<1> HIDE DEF flat
<1>6. flat[1] = s[1] /\ \A i \in 2..n : flat[i] = flat[i - 1] \o s[i]
  <2>1. 1 \in 1..n /\ \A i \in 2..n : i \in 1..n /\ i # 1
    OBVIOUS
  <2>2. \A i \in 1..n : flat[i] = IF i = 1 THEN s[i] ELSE flat[i - 1] \o s[i]
    BY <1>4
  <2> QED  BY <2>1, <2>2
<1> QED  BY <1>5, <1>6 DEF Joined

\* A finite set of numbers in ascending order.
LEMMA AscendingFacts ==
  ASSUME NEW S \in SUBSET Nat, IsFiniteSet(S)
  PROVE  \E n \in Nat :
            /\ Len(Ascending(S)) = n /\ Ascending(S) \in [1..n -> S]
            /\ \A x \in S : \E i \in 1..n : Ascending(S)[i] = x
            /\ \A i, j \in 1..n : Ascending(S)[i] < Ascending(S)[j] => i < j
            /\ \A i, j \in 1..n : Ascending(S)[i] = Ascending(S)[j] => i = j
<1> DEFINE n == Cardinality(S)
           list == Ascending(S)
           Pre == [x \in S |-> {y \in S : y < x}]
<1>1. n \in Nat
  BY FS_CardinalityType
<1>2. list = [i \in 1..n |-> CHOOSE x \in S : Cardinality({y \in S : y < x}) = i - 1]
  BY DEF Ascending
<1>3. \A x \in S : Pre[x] = {y \in S : y < x}
  OBVIOUS
<1>4. ASSUME NEW k \in 1..n, NEW x \in S, Cardinality(Pre[x]) = k - 1
      PROVE  list[k] \in S /\ Cardinality(Pre[list[k]]) = k - 1
  <2>1. list[k] = CHOOSE y \in S : Cardinality({z \in S : z < y}) = k - 1
    BY <1>2
  <2>2. Cardinality({z \in S : z < x}) = k - 1
    BY <1>3, <1>4
  <2> HIDE DEF list, Pre
  <2>3. list[k] \in S /\ Cardinality({z \in S : z < list[k]}) = k - 1
    BY <2>1, <2>2
  <2> QED  BY <1>3, <2>3
<1>5. /\ Pre \in [S -> SUBSET S]
      /\ \A x \in S : x \notin Pre[x]
      /\ \A x, y \in S : x # y => x \in Pre[y] \/ y \in Pre[x]
      /\ \A x, y, z \in S : x \in Pre[y] /\ y \in Pre[z] => x \in Pre[z]
  OBVIOUS
<1>6. \A x, y \in S : x < y => x \in Pre[y]
  BY <1>3
<1> HIDE DEF list, Pre
<1>7. /\ \A k \in 1..n : list[k] \in S
      /\ \A x \in S : \E k \in 1..n : list[k] = x
      /\ \A i, j \in 1..n : list[i] \in Pre[list[j]] => i < j
      /\ \A i, j \in 1..n : list[i] = list[j] => i = j
  <2> SUFFICES ASSUME NEW Q, NEW P, NEW l, Q = S, P = Pre, l = list
               PROVE  /\ \A k \in 1..Cardinality(Q) : l[k] \in Q
                      /\ \A x \in Q : \E k \in 1..Cardinality(Q) : l[k] = x
                      /\ \A i, j \in 1..Cardinality(Q) : l[i] \in P[l[j]] => i < j
                      /\ \A i, j \in 1..Cardinality(Q) : l[i] = l[j] => i = j
    OBVIOUS
  <2>1. /\ IsFiniteSet(Q) /\ P \in [Q -> SUBSET Q]
        /\ \A x \in Q : x \notin P[x]
        /\ \A x, y \in Q : x # y => x \in P[y] \/ y \in P[x]
        /\ \A x, y, z \in Q : x \in P[y] /\ y \in P[z] => x \in P[z]
        /\ \A k \in 1..Cardinality(Q), x \in Q :
              Cardinality(P[x]) = k - 1 => l[k] \in Q /\ Cardinality(P[l[k]]) = k - 1
    BY <1>4, <1>5
  <2> QED  BY ONLY <2>1, RankedInOrder
<1>8. list \in [1..n -> S] /\ Len(list) = n
  <2> DEFINE F(i) == CHOOSE x \in S : Cardinality({y \in S : y < x}) = i - 1
  <2>0. list = [i \in 1..n |-> F(i)]
    BY <1>2
  <2> HIDE DEF F, n
  <2>1. DOMAIN list = 1..n /\ list = [i \in 1..n |-> list[i]]
    BY <2>0
  <2>2. list \in [1..n -> S]
    BY <1>7, <2>1
  <2>3. list \in Seq(S)
    BY <1>1, <2>2, SeqDef
  <2>4. Len(list) \in Nat /\ DOMAIN list = 1..Len(list)
    BY <2>3, LenProperties
  <2> QED  BY <1>1, <2>1, <2>2, <2>4
<1>9. \A i, j \in 1..n : list[i] < list[j] => i < j
  BY <1>6, <1>7
<1> QED  BY <1>1, <1>7, <1>8, <1>9 DEF list

\* A section is one piece or slices.
LEMMA SectionTiles ==
  ASSUME NEW s \in Nat, NEW e \in Nat, s < e
  PROVE  Section(s, e) \in Seq(Piece) /\ Tiles(Section(s, e), s, e)
<1>1. CASE e - s > 2 * MaxLines
  BY <1>1, SlicesTile DEF Section
<1>2. CASE ~(e - s > 2 * MaxLines)
  <2>1. PICK c : c = <<[from |-> s + 1, to |-> e]>> /\ c = Section(s, e)
    BY <1>2 DEF Section
  <2>2. c \in Seq(Piece) /\ Len(c) = 1 /\ c[1] = [from |-> s + 1, to |-> e]
    BY <2>1 DEF Piece
  <2>3. c[1].from = s + 1 /\ c[1].to = e /\ s + 1 <= e
    BY <2>2
  <2>4. c # <<>>
    BY <2>1
  <2>5. \A i \in 1..Len(c) : c[i].from <= c[i].to
    BY <2>2, <2>3
  <2>6. 1..(Len(c) - 1) = {}
    BY <2>2
  <2> QED  BY <2>1, <2>2, <2>3, <2>4, <2>5, <2>6 DEF Tiles
<1> QED  BY <1>1, <1>2

\* A file that is not empty is cut from its first line to its last, declarations
\* or none.
LEMMA ChunksTile ==
  ASSUME NEW f, IsFile(f), f.lines # 0
  PROVE  ChunkFile(f) \in Seq(Piece) /\ Tiles(ChunkFile(f), 0, f.lines)
<1>1. f.lines \in Nat /\ 0 < f.lines /\ f.marks \subseteq 0..(f.lines - 1)
  BY DEF IsFile
<1>2. CASE ~(f.code /\ f.marks # {})
  BY <1>1, <1>2, SlicesTile DEF ChunkFile
<1>3. CASE f.code /\ f.marks # {}
  <2> DEFINE S == {0, f.lines} \cup f.marks
             cuts == Ascending(S)
  <2>1. S \in SUBSET Nat /\ IsFiniteSet(S)
    <3>1. f.marks \in SUBSET (0..(f.lines - 1)) /\ IsFiniteSet(0..(f.lines - 1))
      BY <1>1, FS_Interval
    <3>2. IsFiniteSet(f.marks)
      BY <3>1, FS_Subset
    <3>3. IsFiniteSet({0}) /\ IsFiniteSet({f.lines})
      BY FS_Singleton
    <3>4. IsFiniteSet({0} \cup {f.lines})
      BY <3>3, FS_Union
    <3>5. IsFiniteSet(({0} \cup {f.lines}) \cup f.marks)
      BY <3>2, <3>4, FS_Union
    <3>6. ({0} \cup {f.lines}) \cup f.marks = S
      OBVIOUS
    <3> QED  BY <1>1, <3>5, <3>6
  <2>2. 0 \in S /\ f.lines \in S /\ \A x \in S : x \in Nat /\ 0 <= x /\ x <= f.lines
    BY <1>1
  <2>3. PICK n \in Nat :
            /\ Len(cuts) = n /\ cuts \in [1..n -> S]
            /\ \A x \in S : \E i \in 1..n : cuts[i] = x
            /\ \A i, j \in 1..n : cuts[i] < cuts[j] => i < j
            /\ \A i, j \in 1..n : cuts[i] = cuts[j] => i = j
    <3> HIDE DEF S
    <3> QED  BY <2>1, AscendingFacts
  <2>4. ChunkFile(f) = FlattenSeq([i \in 1..(n - 1) |-> Section(cuts[i], cuts[i + 1])])
    BY <1>1, <1>3, <2>3 DEF ChunkFile, ChunkWithBoundaries
  <2> HIDE DEF cuts, S
  <2>5. \A i \in 1..n : cuts[i] \in S /\ cuts[i] \in Nat /\ cuts[i] <= f.lines
    BY <2>2, <2>3
  <2>6. PICK a \in 1..n, b \in 1..n : cuts[a] = 0 /\ cuts[b] = f.lines
    BY <2>2, <2>3
  <2>7. n >= 2 /\ n - 1 \in Nat /\ n - 1 # 0
    BY <1>1, <2>3, <2>6
  <2>8. cuts[1] = 0
    <3>1. 1 \in 1..n /\ ~(a < 1)
      BY <2>7
    <3>2. ~(cuts[a] < cuts[1])
      BY <2>3, <3>1
    <3> QED  BY <2>5, <2>6, <3>1, <3>2
  <2>9. cuts[n] = f.lines
    <3>1. n \in 1..n /\ ~(n < b)
      BY <2>7
    <3>2. ~(cuts[n] < cuts[b])
      BY <2>3, <3>1
    <3> QED  BY <1>1, <2>5, <2>6, <3>1, <3>2
  <2>10. ASSUME NEW i \in 1..(n - 1)
         PROVE  /\ cuts[i] \in Nat /\ cuts[i + 1] \in Nat /\ cuts[i] < cuts[i + 1]
                /\ i \in 1..n /\ i + 1 \in 1..n
    <3>1. i \in 1..n /\ i + 1 \in 1..n /\ ~(i + 1 < i) /\ i # i + 1
      BY <2>7
    <3>2. ~(cuts[i + 1] < cuts[i]) /\ cuts[i] # cuts[i + 1]
      BY <2>3, <3>1
    <3> QED  BY <2>5, <3>1, <3>2
  <2> DEFINE sections == [i \in 1..(n - 1) |-> Section(cuts[i], cuts[i + 1])]
  <2>11. ASSUME NEW i \in 1..(n - 1)
         PROVE  sections[i] \in Seq(Piece) /\ Tiles(sections[i], cuts[i], cuts[i + 1])
    BY <2>10, SectionTiles
  <2>12. Len(sections) = n - 1
    <3>1. sections \in [1..(n - 1) -> Seq(Piece)]
      BY <2>11
    <3>2. sections \in Seq(Seq(Piece))
      BY <2>7, <3>1, SeqDef
    <3>3. Len(sections) \in Nat /\ DOMAIN sections = 1..Len(sections) /\ DOMAIN sections = 1..(n - 1)
      BY <3>2, LenProperties
    <3> HIDE DEF sections
    <3> QED  BY <2>7, <3>3
  <2> HIDE DEF sections
  <2>13. PICK flat : /\ FlattenSeq(sections) = flat[n - 1]
                     /\ flat[1] = sections[1]
                     /\ \A i \in 2..(n - 1) : flat[i] = flat[i - 1] \o sections[i]
    <3>1. PICK m \in Nat : m = n - 1
      BY <2>7
    <3>2. m # 0 /\ Len(sections) = m
      BY <2>7, <2>12, <3>1
    <3>3. \E flat : FlattenSeq(sections) = flat[m] /\ Joined(flat, sections, m)
      BY <3>1, <3>2, Flattens
    <3> QED  BY <3>1, <3>3 DEF Joined
  <2> DEFINE Right(i) == flat[i] \in Seq(Piece) /\ Tiles(flat[i], 0, cuts[i + 1])
             T == {i \in 1..(n - 1) : ~Right(i)}
  <2>14. T = {}
    <3> SUFFICES ASSUME T # {}  PROVE FALSE
      OBVIOUS
    <3> HIDE DEF Right
    <3>0. T \in SUBSET Nat
      OBVIOUS
    <3>1. PICK i \in T : \A k \in T : i <= k
      <4> HIDE DEF T
      <4> QED  BY <3>0, LeastNumber
    <3>2. i \in 1..(n - 1) /\ ~Right(i)
      OBVIOUS
    <3>3. CASE i = 1
      BY <2>8, <2>11, <2>13, <3>2, <3>3 DEF Right
    <3>4. CASE i # 1
      <4>1. i \in 2..(n - 1) /\ i - 1 \in 1..(n - 1) /\ i - 1 \notin T /\ (i - 1) + 1 = i
        <5> HIDE DEF T
        <5> QED  BY <3>1, <3>2, <3>4
      <4>2. Right(i - 1)
        BY <4>1
      <4>3. flat[i - 1] \in Seq(Piece) /\ Tiles(flat[i - 1], 0, cuts[i])
        BY <4>1, <4>2 DEF Right
      <4>4. sections[i] \in Seq(Piece) /\ Tiles(sections[i], cuts[i], cuts[i + 1])
        BY <2>11, <3>2
      <4>5. flat[i] = flat[i - 1] \o sections[i]
        BY <2>13, <4>1
      <4>6. cuts[i] \in Nat /\ cuts[i + 1] \in Nat /\ 0 \in Nat
        BY <2>10, <3>2
      <4>7. Right(i)
        BY <4>3, <4>4, <4>5, <4>6, TilesJoin DEF Right
      <4> QED  BY <3>2, <4>7
    <3> QED  BY <3>3, <3>4
  <2>15. Right(n - 1)
    <3> HIDE DEF Right
    <3> QED  BY <2>7, <2>14
  <2>16. (n - 1) + 1 = n
    BY <2>7
  <2> QED  BY <2>4, <2>9, <2>13, <2>15, <2>16 DEF sections
<1> QED  BY <1>2, <1>3

\* The pieces begin one after the other.
LEMMA TilesAscend ==
  ASSUME NEW c \in Seq(Piece), NEW a, NEW b, Tiles(c, a, b)
  PROVE  \A i, j \in 1..Len(c) : i < j => c[i].from < c[j].from
<1> DEFINE n == Len(c)
<1>1. n \in Nat /\ \A i \in 1..n : c[i].from \in Nat
  <2>1. n \in Nat
    BY LenProperties
  <2>2. \A i \in 1..n : c[i] \in Piece
    BY ElementOfSeq
  <2> QED  BY <2>1, <2>2 DEF Piece
<1>2. \A i \in 1..(n - 1) : c[i].from < c[i + 1].from
  BY DEF Tiles
<1> HIDE DEF n
<1> SUFFICES ASSUME NEW i \in 1..n  PROVE \A j \in 1..n : i < j => c[i].from < c[j].from
  BY DEF n
<1> DEFINE T == {j \in 1..n : i < j /\ ~(c[i].from < c[j].from)}
<1> SUFFICES ASSUME T # {}  PROVE FALSE
  OBVIOUS
<1>3. T \in SUBSET Nat
  BY <1>1
<1>4. PICK j \in T : \A k \in T : j <= k
  <2> HIDE DEF T
  <2> QED  BY <1>3, LeastNumber
<1>5. j \in 1..n /\ i < j /\ ~(c[i].from < c[j].from)
  OBVIOUS
<1>6. j - 1 \in 1..n /\ j - 1 \in 1..(n - 1) /\ (j - 1) + 1 = j /\ j - 1 \notin T
  <2> HIDE DEF T
  <2> QED  BY <1>1, <1>4, <1>5
<1>7. c[j - 1].from < c[j].from
  BY <1>2, <1>6
<1>8. j - 1 = i \/ c[i].from < c[j - 1].from
  BY <1>5, <1>6
<1>9. c[i].from \in Nat /\ c[j - 1].from \in Nat /\ c[j].from \in Nat
  BY <1>1, <1>5, <1>6
<1>10. c[i].from < c[j].from
  BY SMTT(30), <1>7, <1>8, <1>9
<1> QED  BY <1>5, <1>10

\* The rows a file has when its pieces c are stored, all of the text v.
RowsOf(c, v) ==
    [i \in 1..Len(c) |-> [version |-> v, from |-> c[i].from, to |-> c[i].to, embedded |-> FALSE]]

Lines(v) == [version : {v}, line : Nat]

\* The lines 1 to m are shown, and none before the one it follows.
LeadsTo(text, m) ==
    /\ \A i \in 1..Len(text) : text[i].line \in 1..m
    /\ \A l \in 1..m : \E i \in 1..Len(text) : text[i].line = l
    /\ \A i \in 1..Len(text) :
          text[i].line = 1 \/ \E h \in 1..(i - 1) : text[h].line = text[i].line - 1

LEMMA UpTo ==
  ASSUME NEW m \in Nat
  PROVE  IsFiniteSet(1..m) /\ Cardinality(1..m) = m
<1>1. /\ IsFiniteSet(1..m)
      /\ Cardinality(1..m) = IF 1 > m THEN 0 ELSE m - 1 + 1
  BY FS_Interval
<1> QED  BY <1>1

\* Rows whose pieces ascend are in order already.
LEMMA SortedAlready ==
  ASSUME NEW n \in Nat, NEW r, DOMAIN r = 1..n, \A i \in 1..n : r[i].from \in Nat,
         r = [i \in 1..n |-> r[i]],
         \A i, j \in 1..n : i < j => r[i].from < r[j].from
  PROVE  ByStartLine(r) = r
<1> DEFINE Before(i, j) == \/ r[i].from < r[j].from
                           \/ r[i].from = r[j].from /\ i < j
           Ranked(k) == CHOOSE i \in 1..n : Cardinality({j \in 1..n : Before(j, i)}) = k - 1
<1>1. ASSUME NEW i \in 1..n  PROVE Cardinality({j \in 1..n : Before(j, i)}) = i - 1
  <2>1. \A j \in 1..n : Before(j, i) <=> j < i
    <3> TAKE j \in 1..n
    <3>1. j < i \/ j = i \/ i < j
      OBVIOUS
    <3>2. r[i].from \in Nat /\ r[j].from \in Nat
      OBVIOUS
    <3>3. (j < i => r[j].from < r[i].from) /\ (i < j => r[i].from < r[j].from)
      OBVIOUS
    <3> QED  BY <3>1, <3>2, <3>3
  <2> HIDE DEF Before
  <2>2. {j \in 1..n : Before(j, i)} = 1..(i - 1)
    BY <2>1
  <2>3. i - 1 \in Nat
    OBVIOUS
  <2>4. Cardinality(1..(i - 1)) = i - 1
    BY <2>3, UpTo
  <2> QED  BY <2>2, <2>4
<1>2. ByStartLine(r) = [k \in 1..n |-> r[Ranked(k)]]
  BY DEF ByStartLine
<1>3. ASSUME NEW k \in 1..n  PROVE Ranked(k) = k
  <2> HIDE DEF Before
  <2>1. Cardinality({j \in 1..n : Before(j, k)}) = k - 1
    BY <1>1
  <2>2. Ranked(k) \in 1..n /\ Cardinality({j \in 1..n : Before(j, Ranked(k))}) = k - 1
    BY <2>1
  <2> HIDE DEF Ranked
  <2>3. Cardinality({j \in 1..n : Before(j, Ranked(k))}) = Ranked(k) - 1
    BY <1>1, <2>2
  <2> QED  BY <2>2, <2>3
<1> HIDE DEF Ranked
<1> QED  BY <1>2, <1>3

\* More lines lead on from those that are shown.
LEMMA LeadsOn ==
  ASSUME NEW v, NEW f \in Seq(Lines(v)), NEW g \in Seq(Lines(v)),
         NEW m \in Nat, NEW a \in 1..(m + 1), NEW b \in Nat, m <= b, a <= b,
         LeadsTo(f, m), Len(g) = b - a + 1, \A j \in 1..Len(g) : g[j].line = a + j - 1
  PROVE  f \o g \in Seq(Lines(v)) /\ LeadsTo(f \o g, b)
<1> DEFINE p == Len(f)
           q == Len(g)
           h == f \o g
<1>1. /\ h \in Seq(Lines(v)) /\ Len(h) = p + q
      /\ \A i \in 1..(p + q) : h[i] = IF i <= p THEN f[i] ELSE g[i - p]
  BY ConcatProperties
<1>2. p \in Nat /\ q \in Nat
  BY LenProperties
<1>3. /\ \A i \in 1..p : f[i].line \in 1..m
      /\ \A l \in 1..m : \E i \in 1..p : f[i].line = l
      /\ \A i \in 1..p : f[i].line = 1 \/ \E k \in 1..(i - 1) : f[k].line = f[i].line - 1
  BY DEF LeadsTo
<1>4. q = b - a + 1 /\ \A j \in 1..q : g[j].line = a + j - 1
  OBVIOUS
<1> HIDE DEF p, q, h
<1>5. \A i \in 1..p : i \in 1..(p + q) /\ h[i] = f[i]
  BY <1>1, <1>2
<1>6. \A j \in 1..q : p + j \in 1..(p + q) /\ h[p + j] = g[j]
  <2> TAKE j \in 1..q
  <2>1. p + j \in 1..(p + q) /\ ~(p + j <= p) /\ (p + j) - p = j
    BY <1>2
  <2> QED  BY <1>1, <2>1
<1>7. ASSUME NEW i \in 1..(p + q)
      PROVE  i \in 1..p \/ \E j \in 1..q : i = p + j
  <2>1. CASE i <= p
    BY <1>2, <2>1
  <2>2. CASE ~(i <= p)
    <3>1. i - p \in 1..q /\ i = p + (i - p)
      BY <1>2, <2>2
    <3> QED  BY <3>1
  <2> QED  BY <2>1, <2>2
<1>8. ASSUME NEW i \in 1..(p + q)  PROVE h[i].line \in 1..b
  <2>1. CASE i \in 1..p
    BY <1>3, <1>5, <2>1
  <2>2. ASSUME NEW j \in 1..q, i = p + j  PROVE h[i].line \in 1..b
    <3>1. h[i].line = a + j - 1
      BY <1>4, <1>6, <2>2
    <3> QED  BY <1>4, <3>1
  <2> QED  BY <1>7, <2>1, <2>2
<1>9. ASSUME NEW l \in 1..b  PROVE \E i \in 1..(p + q) : h[i].line = l
  <2>1. CASE l <= m
    <3>0. l \in 1..m
      BY <2>1
    <3>1. PICK i \in 1..p : f[i].line = l
      BY <1>3, <3>0
    <3> QED  BY <1>5, <3>1
  <2>2. CASE ~(l <= m)
    <3>1. PICK j \in 1..q : j = l - a + 1
      BY <1>4, <2>2
    <3>2. h[p + j].line = l /\ p + j \in 1..(p + q)
      BY SMTT(30), <1>4, <1>6, <3>1
    <3> QED  BY <3>2
  <2> QED  BY <2>1, <2>2
<1>10. ASSUME NEW i \in 1..(p + q)
       PROVE  h[i].line = 1 \/ \E k \in 1..(i - 1) : h[k].line = h[i].line - 1
  <2>1. CASE i \in 1..p
    <3>0. \A k \in 1..(i - 1) : k \in 1..p
      BY <1>2, <2>1
    <3>1. h[i] = f[i] /\ \A k \in 1..(i - 1) : h[k] = f[k]
      BY <1>5, <2>1, <3>0
    <3> QED  BY <1>3, <2>1, <3>1
  <2>2. ASSUME NEW j \in 1..q, i = p + j
        PROVE  h[i].line = 1 \/ \E k \in 1..(i - 1) : h[k].line = h[i].line - 1
    <3>1. h[i].line = a + j - 1
      BY <1>4, <1>6, <2>2
    <3>2. CASE j = 1
      <4>1. h[i].line = a
        BY <3>1, <3>2
      <4>2. CASE a = 1
        BY <4>1, <4>2
      <4>3. CASE a # 1
        <5>1. a - 1 \in 1..m
          BY <4>3
        <5>2. PICK k \in 1..p : f[k].line = a - 1
          BY <1>3, <5>1
        <5>3. i - 1 = p
          BY <1>2, <2>2, <3>2
        <5>4. k \in 1..(i - 1) /\ h[k].line = a - 1
          BY <1>5, <5>2, <5>3
        <5> QED  BY <4>1, <5>4
      <4> QED  BY <4>2, <4>3
    <3>3. CASE j # 1
      <4>1. j - 1 \in 1..q /\ p + (j - 1) \in 1..(i - 1)
        BY <1>2, <2>2, <3>3
      <4>2. h[p + (j - 1)].line = a + (j - 1) - 1
        BY <1>4, <1>6, <4>1
      <4>3. a + (j - 1) - 1 = (a + j - 1) - 1
        OBVIOUS
      <4> QED  BY <3>1, <4>1, <4>2, <4>3
    <3> QED  BY <3>2, <3>3
  <2> QED  BY <1>7, <2>1, <2>2
<1> QED  BY <1>1, <1>8, <1>9, <1>10 DEF LeadsTo, h

\* Lines that lead on from one to the next are the text.
LEMMA LeadsShow ==
  ASSUME NEW v, NEW text \in Seq(Lines(v)), NEW m \in Nat, LeadsTo(text, m)
  PROVE  Shows(text, v, m)
<1> DEFINE n == Len(text)
           Is(i, l) == text[i].line = l /\ \A k \in 1..(i - 1) : text[k].line # l
           First(l) == CHOOSE i \in DOMAIN text :
                          text[i].line = l /\ \A k \in 1..(i - 1) : text[k].line # l
<1>1. n \in Nat /\ DOMAIN text = 1..n /\ \A i \in 1..n : text[i] \in Lines(v)
  BY ElementOfSeq, LenProperties
<1>2. /\ \A i \in 1..n : text[i].line \in 1..m
      /\ \A l \in 1..m : \E i \in 1..n : text[i].line = l
      /\ \A i \in 1..n : text[i].line = 1 \/ \E h \in 1..(i - 1) : text[h].line = text[i].line - 1
  BY DEF LeadsTo
<1> HIDE DEF n
<1>3. ASSUME NEW l \in 1..m
      PROVE  First(l) \in 1..n /\ Is(First(l), l)
  <2> DEFINE T == {i \in 1..n : text[i].line = l}
  <2>1. T \in SUBSET Nat /\ T # {}
    <3>1. PICK i \in 1..n : text[i].line = l
      BY <1>2
    <3>2. i \in T
      BY <3>1
    <3>3. \A j \in T : j \in Nat
      BY <1>1
    <3> QED  BY <3>2, <3>3
  <2>2. PICK i \in T : \A k \in T : i <= k
    BY <2>1, LeastNumber
  <2>3. i \in DOMAIN text /\ text[i].line = l
    BY <1>1, <2>2
  <2>4. ASSUME NEW k \in 1..(i - 1)  PROVE text[k].line # l
    <3>1. k \in 1..n /\ ~(i <= k)
      BY <1>1, <2>2
    <3> QED  BY <2>2, <3>1
  <2> HIDE DEF T
  <2>5. \E j \in DOMAIN text : text[j].line = l /\ \A k \in 1..(j - 1) : text[k].line # l
    BY <2>3, <2>4
  <2>6. First(l) \in DOMAIN text /\ Is(First(l), l)
    BY <2>5
  <2> QED  BY <1>1, <2>6
<1>4. {text[i] : i \in DOMAIN text} = {[version |-> v, line |-> l] : l \in 1..m}
  <2>1. ASSUME NEW i \in DOMAIN text
        PROVE  text[i] = [version |-> v, line |-> text[i].line] /\ text[i].line \in 1..m
    BY <1>1, <1>2 DEF Lines
  <2>2. ASSUME NEW l \in 1..m
        PROVE  \E i \in DOMAIN text : text[i] = [version |-> v, line |-> l]
    <3>1. PICK i \in 1..n : text[i].line = l
      BY <1>2
    <3>2. i \in DOMAIN text /\ text[i] = [version |-> v, line |-> text[i].line]
      BY <1>1, <2>1, <3>1
    <3> QED  BY <3>1, <3>2
  <2>3. \A x \in {text[i] : i \in DOMAIN text} : x \in {[version |-> v, line |-> l] : l \in 1..m}
    BY <2>1
  <2>4. \A x \in {[version |-> v, line |-> l] : l \in 1..m} : x \in {text[i] : i \in DOMAIN text}
    BY <2>2
  <2> QED  BY <2>3, <2>4
<1>5. ASSUME NEW l \in 1..(m - 1)  PROVE First(l) < First(l + 1)
  <2>0. l \in 1..m /\ l + 1 \in 1..m /\ l + 1 # 1 /\ (l + 1) - 1 = l
    OBVIOUS
  <2>1. First(l) \in 1..n /\ Is(First(l), l)
    BY <1>3, <2>0
  <2>2. First(l + 1) \in 1..n /\ Is(First(l + 1), l + 1)
    BY <1>3, <2>0
  <2> HIDE DEF First
  <2>3. PICK h \in 1..(First(l + 1) - 1) : text[h].line = l
    <3>1. PICK i \in 1..n : i = First(l + 1)
      BY <2>2
    <3>2. text[i].line = l + 1
      BY <2>2, <3>1
    <3>3. \E h \in 1..(i - 1) : text[h].line = text[i].line - 1
      BY <1>2, <2>0, <3>2
    <3> QED  BY <2>0, <3>1, <3>2, <3>3
  <2>4. ~(h < First(l))
    <3>1. h < First(l) => h \in 1..(First(l) - 1)
      BY <2>1
    <3> QED  BY <2>1, <2>3, <3>1
  <2> QED  BY <2>1, <2>2, <2>3, <2>4
<1> QED  BY <1>4, <1>5 DEF Shows

LinesOf(c, v) == [j \in 1..(c.to - c.from + 1) |-> [version |-> v, line |-> c.from + j - 1]]

\* The lines of pieces that tile a text, one piece after the other.
LEMMA TilesLead ==
  ASSUME NEW v, NEW c \in Seq(Piece), NEW m \in Nat, Tiles(c, 0, m),
         NEW s, Len(s) = Len(c),
         \A i \in 1..Len(c) : s[i] = LinesOf(c[i], v)
  PROVE  FlattenSeq(s) \in Seq(Lines(v)) /\ LeadsTo(FlattenSeq(s), m)
<1> DEFINE n == Len(c)
<1>1. n \in Nat \ {0} /\ \A i \in 1..n : c[i] \in Piece /\ c[i].from \in Nat /\ c[i].to \in Nat
  <2>1. n \in Nat /\ n # 0
    BY EmptySeq, LenProperties DEF Tiles
  <2>2. \A i \in 1..n : c[i] \in Piece
    BY ElementOfSeq
  <2> QED  BY <2>1, <2>2 DEF Piece
<1>2. /\ c[1].from = 1 /\ c[n].to = m
      /\ \A i \in 1..n : c[i].from <= c[i].to
      /\ \A i \in 1..(n - 1) : c[i + 1].from <= c[i].to + 1 /\ c[i].to <= c[i + 1].to
  BY DEF Tiles
<1>3. \A i, j \in 1..n : i < j => c[i].from < c[j].from
  BY TilesAscend
<1>4. PICK f : FlattenSeq(s) = f[n] /\ Joined(f, s, n)
  BY <1>1, Flattens
<1>5. \A i \in 1..n : s[i] = [j \in 1..(c[i].to - c[i].from + 1) |->
                                [version |-> v, line |-> c[i].from + j - 1]]
  BY DEF LinesOf
<1> HIDE DEF n
<1>6. ASSUME NEW i \in 1..n
      PROVE  /\ s[i] \in Seq(Lines(v)) /\ Len(s[i]) = c[i].to - c[i].from + 1
             /\ \A j \in 1..Len(s[i]) : s[i][j].line = c[i].from + j - 1
             /\ c[i].from \in Nat /\ 1 <= c[i].from
  <2>0. c[i].from \in Nat /\ 1 <= c[i].from /\ c[i].to \in Nat /\ c[i].from <= c[i].to
    <3>1. i = 1 \/ (1 \in 1..n /\ 1 < i)
      BY <1>1
    <3> QED  BY <1>1, <1>2, <1>3, <3>1
  <2>1. PICK k \in Nat : k = c[i].to - c[i].from + 1
    BY <2>0
  <2>2. s[i] = [j \in 1..k |-> [version |-> v, line |-> c[i].from + j - 1]]
    BY <1>5, <2>1
  <2>3. \A j \in 1..k : [version |-> v, line |-> c[i].from + j - 1] \in Lines(v)
    BY <2>0 DEF Lines
  <2>4. s[i] \in Seq(Lines(v)) /\ Len(s[i]) = k
    BY SMTT(30), <2>2, <2>3
  <2> QED  BY <2>0, <2>1, <2>2, <2>4
<1> DEFINE T == {k \in 1..n : ~(f[k] \in Seq(Lines(v)) /\ LeadsTo(f[k], c[k].to))}
<1>7. T = {}
  <2> SUFFICES ASSUME T # {}  PROVE FALSE
    OBVIOUS
  <2>1. T \in SUBSET Nat
    BY <1>1
  <2>2. PICK k \in T : \A j \in T : k <= j
    BY <2>1, LeastNumber
  <2>3. k \in 1..n
    BY <2>2
  <2>4. CASE k = 1
    <3>1. f[1] = s[1]
      BY <1>4 DEF Joined
    <3>2. /\ s[1] \in Seq(Lines(v)) /\ Len(s[1]) = c[1].to
          /\ \A j \in 1..Len(s[1]) : s[1][j].line = j
      <4>1. /\ s[1] \in Seq(Lines(v)) /\ Len(s[1]) = c[1].to - 1 + 1
            /\ \A j \in 1..Len(s[1]) : s[1][j].line = 1 + j - 1
        BY <1>2, <1>6, <2>3, <2>4
      <4>2. c[1].to \in Nat /\ c[1].to - 1 + 1 = c[1].to
        BY <1>1, <2>3, <2>4
      <4>3. \A j \in 1..(c[1].to) : 1 + j - 1 = j
        BY <4>2
      <4> QED  BY <4>1, <4>2, <4>3
    <3>3. c[1].to \in Nat
      BY <1>1, <2>3, <2>4
    <3>4. LeadsTo(s[1], c[1].to)
      <4> SUFFICES ASSUME NEW g, NEW b \in Nat, Len(g) = b, \A j \in 1..b : g[j].line = j
                   PROVE  LeadsTo(g, b)
        BY <3>2, <3>3
      <4>1. \A i \in 1..b : i = 1 \/ (i - 1 \in 1..(i - 1) /\ i - 1 \in 1..b)
        OBVIOUS
      <4> QED  BY <4>1 DEF LeadsTo
    <3> QED  BY <2>2, <2>4, <3>1, <3>2, <3>4
  <2>5. CASE k # 1
    <3>1. k - 1 \in 1..(n - 1) /\ k - 1 \in 1..n /\ k \in 2..n /\ (k - 1) + 1 = k /\ ~(k <= k - 1)
      BY <1>1, <2>3, <2>5
    <3>2. f[k] = f[k - 1] \o s[k]
      BY <1>4, <3>1 DEF Joined
    <3>3. k - 1 \notin T
      BY <2>2, <3>1
    <3>4. f[k - 1] \in Seq(Lines(v)) /\ LeadsTo(f[k - 1], c[k - 1].to)
      BY <3>1, <3>3
    <3>5. /\ c[k - 1].to \in Nat /\ c[k].to \in Nat /\ c[k - 1].to <= c[k].to
          /\ c[k].from \in 1..(c[k - 1].to + 1) /\ c[k].from <= c[k].to
      BY SMTT(30), <1>1, <1>2, <1>6, <2>3, <3>1
    <3>6. /\ s[k] \in Seq(Lines(v)) /\ Len(s[k]) = c[k].to - c[k].from + 1
          /\ \A j \in 1..Len(s[k]) : s[k][j].line = c[k].from + j - 1
      BY <1>6, <2>3
    <3> HIDE DEF T
    <3>7. f[k - 1] \o s[k] \in Seq(Lines(v)) /\ LeadsTo(f[k - 1] \o s[k], c[k].to)
      BY <3>4, <3>5, <3>6, LeadsOn
    <3> USE DEF T
    <3> QED  BY <2>2, <3>2, <3>7
  <2> QED  BY <2>4, <2>5
<1>8. n \in 1..n
  BY <1>1
<1>9. f[n] \in Seq(Lines(v)) /\ LeadsTo(f[n], c[n].to)
  BY <1>7, <1>8
<1> QED  BY <1>2, <1>4, <1>9

\* What is shown of the pieces of a file is the file.
LEMMA ChunksShow ==
  ASSUME NEW f, IsFile(f), NEW v
  PROVE  LET r == RowsOf(ChunkFile(f), v) IN
         /\ Shows(Contents(r), v, f.lines)
         /\ \A i, j \in DOMAIN r : i # j => r[i] # r[j]
<1> DEFINE c == ChunkFile(f)
           n == Len(c)
           r == RowsOf(c, v)
<1>1. f.lines \in Nat
  BY DEF IsFile
<1>2. CASE f.lines = 0
  <2>1. c = <<>> /\ r = <<>>
    <3>1. c = <<>>
      BY <1>2 DEF ChunkFile
    <3> QED  BY <3>1 DEF RowsOf
  <2> HIDE DEF c, r
  <2>2. Contents(r) = <<>>
    <3>1. ByStartLine(<<>>) = <<>>
      BY DEF ByStartLine
    <3>2. \A s : Len(s) = 0 => FlattenSeq(s) = s
      BY DEF FlattenSeq
    <3> QED  BY <2>1, <3>1, <3>2 DEF Contents
  <2>3. <<>> \in Seq(Lines(v)) /\ LeadsTo(<<>>, 0)
    BY DEF LeadsTo
  <2>4. Shows(<<>>, v, 0)
    BY <2>3, LeadsShow
  <2>5. \A i, j \in DOMAIN r : i # j => r[i] # r[j]
    BY <2>1
  <2> QED  BY <1>2, <2>2, <2>4, <2>5 DEF c, r
<1>3. CASE f.lines # 0
  <2>1. c \in Seq(Piece) /\ Tiles(c, 0, f.lines)
    BY <1>3, ChunksTile
  <2>2. n \in Nat /\ \A i \in 1..n : c[i].from \in Nat /\ c[i].to \in Nat
    <3>1. n \in Nat
      BY <2>1, LenProperties
    <3>2. \A i \in 1..n : c[i] \in Piece
      BY <2>1, ElementOfSeq
    <3> QED  BY <3>1, <3>2 DEF Piece
  <2> HIDE DEF c
  <2>3. \A i, j \in 1..n : i < j => c[i].from < c[j].from
    BY <2>1, TilesAscend
  <2>4. /\ DOMAIN r = 1..n
        /\ \A i \in 1..n : r[i].version = v /\ r[i].from = c[i].from /\ r[i].to = c[i].to
        /\ r = [i \in 1..n |-> r[i]]
    BY DEF RowsOf
  <2> HIDE DEF n, r
  <2>5. ByStartLine(r) = r
    BY SMTT(30), <2>2, <2>3, <2>4, SortedAlready
  <2> DEFINE s == [i \in DOMAIN r |->
                     [j \in 1..(r[i].to - r[i].from + 1) |->
                        [version |-> r[i].version, line |-> r[i].from + j - 1]]]
  <2>6. Contents(r) = FlattenSeq(s)
    BY <2>5 DEF Contents
  <2>7. Len(s) = n
    BY <2>2, <2>4
  <2>8. \A i \in 1..n : s[i] = LinesOf(c[i], v)
    BY <2>4 DEF LinesOf
  <2> HIDE DEF s
  <2>9. FlattenSeq(s) \in Seq(Lines(v)) /\ LeadsTo(FlattenSeq(s), f.lines)
    <3>1. /\ Len(s) = Len(c)
          /\ \A i \in 1..Len(c) : s[i] = LinesOf(c[i], v)
      BY <2>7, <2>8 DEF n
    <3>2. PICK m \in Nat : m = f.lines
      BY <1>1
    <3>3. Tiles(c, 0, m)
      BY <2>1, <3>2
    <3> QED  BY <2>1, <3>1, <3>2, <3>3, TilesLead
  <2>10. Shows(Contents(r), v, f.lines)
    BY <1>1, <2>6, <2>9, LeadsShow
  <2>11. \A i, j \in 1..n : i # j => r[i].from # r[j].from
    <3> TAKE i, j \in 1..n
    <3>1. i < j \/ i = j \/ j < i
      BY <2>2
    <3> QED  BY <2>2, <2>3, <2>4, <3>1
  <2> QED  BY <2>4, <2>10, <2>11 DEF r, c
<1> QED  BY <1>2, <1>3

-----------------------------------------------------------------------------
(* The invariant of the workers.                                           *)

Pieces(p, v) == ChunkFile(Text[p][v])

FilePcs  == {"compare", "read", "delete", "insert", "drop", "forget"}
TimerPcs == {"none", "hash", "compare", "read", "delete", "insert", "drop", "forget"}
RunPcs   == {"none", "load", "store", "collect", "clear", "report", "next", "compare", "read",
             "delete", "insert", "contents", "notFound", "results"}

Runs == [pc : TimerPcs \cup RunPcs, force : BOOLEAN, todo : Seq(Path), hash : Nat, data : Nat,
         left : Seq(Piece), failed : BOOLEAN]
Rows == [version : Nat, from : Nat, to : Nat, embedded : {FALSE}]

IndexTables ==
    /\ version \in [Path -> Nat]
    /\ \A p \in Path : version[p] \in 1..Len(Text[p])
    /\ present \subseteq Path
    /\ rows \in [Path -> Seq(Rows)]
    /\ tracked \in [Path -> Nat]
    /\ \A p \in Path : tracked[p] <= Len(Text[p])
    /\ indexing \in BOOLEAN
    /\ run \in [Worker -> Runs]
    /\ status \in [Job -> {"none", "running", "failed", "completed"}]
    /\ armed \subseteq Path
    /\ disturbed \subseteq Path
    /\ torn \subseteq Path

\* A worker has the hash and the text of a text the file has had.  A run of Index has
\* read the text before it deletes, a timer has not.
WorkerHas(w) ==
    /\ run[w].pc \in (IF w \in Timer THEN TimerPcs ELSE RunPcs)
    /\ run[w].pc \in FilePcs \cup {"hash"} => run[w].todo # <<>>
    /\ run[w].pc \in {"compare", "read", "delete", "insert"} =>
          run[w].hash \in 1..Len(Text[File(w)])
    /\ run[w].pc = "insert" \/ (run[w].pc = "delete" /\ w \notin Timer) =>
          run[w].data \in 1..Len(Text[File(w)])
    /\ run[w].pc = "delete" /\ w \notin Timer => run[w].left = Pieces(File(w), run[w].data)
    /\ w \in Job /\ status[w] = "none" => run[w].pc = "none"

\* The rows are those of the text whose hash is tracked, unless they are torn from it.
Whole(p) ==
    p \notin torn /\ tracked[p] # 0 =>
        rows[p] = RowsOf(Pieces(p, tracked[p]), tracked[p])

\* A worker leaves the rows whole until it deletes them, and what it has left to
\* insert after that completes them.
WorkerKeeps(w, p) ==
    /\ run[w].pc = "compare" => Whole(p)
    /\ run[w].pc = "read" /\ w \notin Timer => Whole(p)
    /\ run[w].pc = "read" /\ w \in Timer => rows[p] = <<>>
    /\ run[w].pc = "insert" =>
          rows[p] \o RowsOf(run[w].left, run[w].data) =
             RowsOf(Pieces(p, run[w].data), run[w].data)

\* An undisturbed file has one worker at most.
PathKept(p) ==
    p \notin disturbed =>
        /\ \A w, x \in Busy(p) : w = x
        /\ Busy(p) = {} => Whole(p)
        /\ \A w \in Busy(p) : WorkerKeeps(w, p)

IndexInv ==
    /\ IndexTables
    /\ \A w \in Worker : WorkerHas(w)
    /\ \A p \in Path : PathKept(p)

LEMMA BusyIs ==
  ASSUME NEW p \in Path
  PROVE  Busy(p) = {w \in Worker : run[w].pc \in FilePcs /\ File(w) = p}
  BY DEF Busy, FilePcs

\* The steps of one worker leave what the others have.
LEMMA OthersHave ==
  ASSUME IndexInv, NEW w, version' = version,
         \A x \in Worker \ {w} : run'[x] = run[x],
         \A j \in Job \ {w} : status'[j] = status[j],
         w \in Worker => WorkerHas(w)'
  PROVE  \A x \in Worker : WorkerHas(x)'
<1> SUFFICES ASSUME NEW x \in Worker, x # w  PROVE WorkerHas(x)'
  OBVIOUS
<1>1. run'[x] = run[x] /\ WorkerHas(x) /\ (x \in Job => status'[x] = status[x])
  BY DEF IndexInv
<1> QED  BY <1>1 DEF WorkerHas, File

\* Steps of a worker that is not at a file.
LEMMA NotAtFile ==
  ASSUME IndexInv, IndexTables', NEW w \in Worker,
         UNCHANGED <<version, present, rows, tracked, disturbed, torn>>,
         \A x \in Worker \ {w} : run'[x] = run[x],
         \A j \in Job \ {w} : status'[j] = status[j],
         run[w].pc \notin FilePcs, run'[w].pc \notin FilePcs,
         WorkerHas(w)'
  PROVE  IndexInv'
<1>1. \A x \in Worker : WorkerHas(x)'
  BY OthersHave
<1>2. ASSUME NEW p \in Path  PROVE PathKept(p)'
  <2>1. PathKept(p)
    BY DEF IndexInv
  <2>2. Busy(p)' = Busy(p) /\ \A x \in Busy(p) : run'[x] = run[x]
    BY DEF Busy, FilePcs, File
  <2> QED  BY <2>1, <2>2 DEF PathKept, WorkerKeeps, Whole
<1> QED  BY <1>1, <1>2 DEF IndexInv

\* Steps of a worker that is at a file, or comes to it.
LEMMA AtFile ==
  ASSUME IndexInv, IndexTables', NEW w \in Worker, NEW p \in Path,
         UNCHANGED <<version, present, status>>,
         \A x \in Worker \ {w} : run'[x] = run[x],
         \A q \in Path \ {p} : /\ rows'[q] = rows[q] /\ tracked'[q] = tracked[q]
                               /\ q \in disturbed' <=> q \in disturbed
                               /\ q \in torn' <=> q \in torn,
         run[w].pc \in FilePcs => File(w) = p,
         run'[w].pc \in FilePcs => File(w)' = p,
         WorkerHas(w)', PathKept(p)'
  PROVE  IndexInv'
<1>1. \A x \in Worker : WorkerHas(x)'
  BY OthersHave
<1>2. ASSUME NEW q \in Path, q # p  PROVE PathKept(q)'
  <2>1. PathKept(q)
    BY DEF IndexInv
  <2>2. Busy(q)' = Busy(q) /\ \A x \in Busy(q) : run'[x] = run[x]
    BY <1>2 DEF Busy, FilePcs, File
  <2>3. /\ rows'[q] = rows[q] /\ tracked'[q] = tracked[q]
        /\ q \in disturbed' <=> q \in disturbed
        /\ q \in torn' <=> q \in torn
    BY <1>2
  <2> QED  BY <2>1, <2>2, <2>3 DEF PathKept, WorkerKeeps, Whole
<1> QED  BY <1>1, <1>2 DEF IndexInv

\* A step of a worker that stays at its file.
LEMMA StaysAtFile ==
  ASSUME IndexInv, IndexTables', NEW w \in Worker, NEW p \in Path,
         UNCHANGED <<version, present, status>>,
         \A x \in Worker \ {w} : run'[x] = run[x],
         \A q \in Path \ {p} : /\ rows'[q] = rows[q] /\ tracked'[q] = tracked[q]
                               /\ q \in disturbed' <=> q \in disturbed
                               /\ q \in torn' <=> q \in torn,
         run[w].pc \in FilePcs, File(w) = p,
         run'[w].pc \in FilePcs, File(w)' = p,
         WorkerHas(w)',
         p \notin disturbed' => p \notin disturbed \/ Busy(p) = {w},
         p \notin disturbed' /\ (p \notin disturbed => WorkerKeeps(w, p)) => WorkerKeeps(w, p)'
  PROVE  IndexInv'
<1>1. PathKept(p)'
  <2> SUFFICES ASSUME p \notin disturbed'  PROVE PathKept(p)'
    BY DEF PathKept
  <2>1. PathKept(p) /\ w \in Busy(p)
    BY BusyIs DEF IndexInv
  <2>2. Busy(p) = {w}
    BY <2>1 DEF PathKept
  <2>3. Busy(p)' = {w}
    BY <2>2 DEF Busy, FilePcs, File
  <2>4. WorkerKeeps(w, p)'
    BY <2>1 DEF PathKept
  <2> QED  BY <2>3, <2>4 DEF PathKept
<1> QED  BY <1>1, AtFile

\* A step of a worker that is done with its file.
LEMMA LeavesFile ==
  ASSUME IndexInv, IndexTables', NEW w \in Worker, NEW p \in Path,
         UNCHANGED <<version, present, status, disturbed>>,
         \A x \in Worker \ {w} : run'[x] = run[x],
         \A q \in Path \ {p} : /\ rows'[q] = rows[q] /\ tracked'[q] = tracked[q]
                               /\ q \in torn' <=> q \in torn,
         run[w].pc \in FilePcs, File(w) = p,
         run'[w].pc \notin FilePcs,
         WorkerHas(w)',
         WorkerKeeps(w, p) => Whole(p)'
  PROVE  IndexInv'
<1>1. PathKept(p)'
  <2> SUFFICES ASSUME p \notin disturbed  PROVE PathKept(p)'
    BY DEF PathKept
  <2>1. PathKept(p) /\ w \in Busy(p)
    BY BusyIs DEF IndexInv
  <2>2. Busy(p) = {w} /\ WorkerKeeps(w, p)
    BY <2>1 DEF PathKept
  <2>3. Busy(p)' = {}
    BY <2>2 DEF Busy, FilePcs, File
  <2> QED  BY <2>2, <2>3 DEF PathKept
<1> QED  BY <1>1, AtFile

\* Appending the row of the first piece leaves the others to be added.
LEMMA RowAdded ==
  ASSUME NEW r \in Seq(Rows), NEW c \in Seq(Piece), c # <<>>, NEW v \in Nat
  PROVE  /\ [version |-> v, from |-> Head(c).from, to |-> Head(c).to, embedded |-> FALSE] \in Rows
         /\ Append(r, [version |-> v, from |-> Head(c).from, to |-> Head(c).to,
                       embedded |-> FALSE]) \o RowsOf(Tail(c), v)
               = r \o RowsOf(c, v)
<1> DEFINE x == [version |-> v, from |-> Head(c).from, to |-> Head(c).to, embedded |-> FALSE]
           a == Append(r, x)
           t == Tail(c)
<1>1. PICK n \in Nat \ {0} :
        n = Len(c) /\ \A i \in 1..n : c[i].from \in Nat /\ c[i].to \in Nat
  <2>1. Len(c) \in Nat /\ Len(c) # 0
    BY EmptySeq, LenProperties
  <2>2. \A i \in 1..Len(c) : c[i] \in Piece
    BY ElementOfSeq
  <2> QED  BY <2>1, <2>2 DEF Piece
<1>2. /\ Head(c) = c[1] /\ t \in Seq(Piece) /\ Len(t) = n - 1
      /\ \A i \in 1..(n - 1) : t[i] = c[i + 1]
  BY <1>1, HeadTailProperties
<1>3. x \in Rows
  BY <1>1, <1>2 DEF Rows
<1> DEFINE R == RowsOf(c, v)
           S == RowsOf(t, v)
<1>4. R \in Seq(Rows) /\ Len(R) = n /\ R[1] = x
  <2>1. R = [i \in 1..n |-> [version |-> v, from |-> c[i].from, to |-> c[i].to, embedded |-> FALSE]]
    BY <1>1 DEF RowsOf
  <2>2. \A i \in 1..n : R[i] \in Rows
    BY <1>1, <2>1 DEF Rows
  <2>3. R \in Seq(Rows) /\ Len(R) = n
    BY <1>1, <2>1, <2>2
  <2>4. R[1] = x
    <3>1. 1 \in 1..n
      BY <1>1
    <3>2. R[1] = [version |-> v, from |-> c[1].from, to |-> c[1].to, embedded |-> FALSE]
      BY <2>1, <3>1
    <3> QED  BY <1>2, <3>2
  <2> QED  BY <2>3, <2>4
<1>5. S \in Seq(Rows) /\ Len(S) = n - 1 /\ \A i \in 1..(n - 1) : S[i] = R[i + 1]
  <2>1. \A i \in 1..(n - 1) : i + 1 \in 1..n
    BY <1>1
  <2>2. PICK m \in Nat : m = n - 1
    BY SMTT(30), <1>1
  <2>3. S = [i \in 1..m |-> [version |-> v, from |-> t[i].from, to |-> t[i].to, embedded |-> FALSE]]
    BY <1>2, <2>2 DEF RowsOf
  <2>4. \A i \in 1..m : S[i] = R[i + 1] /\ S[i] \in Rows
    <3> TAKE i \in 1..m
    <3>1. i + 1 \in 1..n /\ t[i] = c[i + 1]
      BY <1>2, <2>1, <2>2
    <3>2. R[i + 1] = [version |-> v, from |-> c[i + 1].from, to |-> c[i + 1].to, embedded |-> FALSE]
      BY <1>1, <3>1 DEF RowsOf
    <3>3. S[i] = R[i + 1]
      BY <2>3, <3>1, <3>2
    <3>4. R[i + 1] \in Rows
      BY <1>1, <3>1, <3>2 DEF Rows
    <3> QED  BY <3>3, <3>4
  <2>5. S \in Seq(Rows) /\ Len(S) = m
    BY <2>2, <2>3, <2>4
  <2> QED  BY <2>2, <2>4, <2>5
<1>6. a \in Seq(Rows) /\ Len(a) = Len(r) + 1 /\ a[Len(r) + 1] = x
      /\ \A i \in 1..Len(r) : a[i] = r[i]
  BY <1>3, AppendProperties
<1> HIDE DEF x, a, t, R, S
<1>7. /\ a \o S \in Seq(Rows) /\ Len(a \o S) = Len(r) + 1 + (n - 1)
      /\ \A i \in 1..(Len(r) + 1 + (n - 1)) :
            (a \o S)[i] = IF i <= Len(r) + 1 THEN a[i] ELSE S[i - (Len(r) + 1)]
  <2>1. /\ a \o S \in Seq(Rows) /\ Len(a \o S) = Len(a) + Len(S)
        /\ \A i \in 1..(Len(a) + Len(S)) :
              (a \o S)[i] = IF i <= Len(a) THEN a[i] ELSE S[i - Len(a)]
    BY <1>5, <1>6, ConcatProperties
  <2> QED  BY <1>5, <1>6, <2>1
<1>8. /\ r \o R \in Seq(Rows) /\ Len(r \o R) = Len(r) + n
      /\ \A i \in 1..(Len(r) + n) : (r \o R)[i] = IF i <= Len(r) THEN r[i] ELSE R[i - Len(r)]
  BY <1>4, ConcatProperties
<1>9. Len(r) \in Nat /\ Len(r) + 1 + (n - 1) = Len(r) + n
  BY <1>1, LenProperties
<1>10. ASSUME NEW i \in 1..(Len(r) + n)  PROVE (a \o S)[i] = (r \o R)[i]
  <2>1. CASE i <= Len(r)
    <3>1. i \in 1..Len(r) /\ i <= Len(r) + 1
      BY <1>9, <2>1
    <3> QED  BY <1>6, <1>7, <1>8, <1>9, <2>1, <3>1
  <2>2. CASE i = Len(r) + 1
    <3>1. i - Len(r) = 1 /\ ~(i <= Len(r)) /\ i <= Len(r) + 1
      BY <1>9, <2>2
    <3> QED  BY <1>4, <1>6, <1>7, <1>8, <1>9, <2>2, <3>1
  <2>3. CASE i > Len(r) + 1
    <3>1. /\ i - (Len(r) + 1) \in 1..(n - 1) /\ (i - (Len(r) + 1)) + 1 = i - Len(r)
          /\ ~(i <= Len(r)) /\ ~(i <= Len(r) + 1)
      BY <1>1, <1>9, <2>3
    <3> QED  BY <1>5, <1>7, <1>8, <1>9, <3>1
  <2>4. i <= Len(r) \/ i = Len(r) + 1 \/ i > Len(r) + 1
    BY <1>1, <1>9
  <2> QED  BY <2>1, <2>2, <2>3, <2>4
<1>11. a \o S = r \o R
  BY <1>7, <1>8, <1>9, <1>10, SeqEqual
<1> QED  BY <1>3, <1>11 DEF x, a, t, R, S

-----------------------------------------------------------------------------
(* The steps of a worker at a file.                                        *)

LEMMA WorkersAre == \A w \in Worker : (w \in Timer <=> IsTimer(w)) /\ (w \in Job \/ w = Loop => w \notin Timer)
  BY ProjectIndexAssumption DEF IsTimer

LEMMA PiecesTyped ==
  ASSUME NEW p \in Path, NEW v \in 1..Len(Text[p])
  PROVE  Pieces(p, v) \in Seq(Piece)
<1>1. IsFile(Text[p][v])
  BY ProjectIndexAssumption
<1>2. CASE Text[p][v].lines = 0
  BY <1>2 DEF Pieces, ChunkFile
<1>3. CASE Text[p][v].lines # 0
  BY <1>1, <1>3, ChunksTile DEF Pieces
<1> QED  BY <1>2, <1>3

\* The first rows of a file.
LEMMA FirstRows ==
  ASSUME NEW c \in Seq(Piece), NEW v \in Nat
  PROVE  <<>> \o RowsOf(c, v) = RowsOf(c, v)
<1>1. PICK n \in Nat : n = Len(c)
  BY LenProperties
<1>2. \A i \in 1..n : c[i] \in Piece
  BY <1>1, ElementOfSeq
<1>3. RowsOf(c, v) \in Seq(Rows)
  BY <1>1, <1>2 DEF RowsOf, Piece, Rows
<1> QED  BY <1>3, ConcatEmptySeq

LEMMA LastRows ==
  ASSUME NEW r \in Seq(Rows), NEW v
  PROVE  r \o RowsOf(<<>>, v) = r
<1>1. RowsOf(<<>>, v) = <<>>
  BY DEF RowsOf
<1> QED  BY <1>1, ConcatEmptySeq

\* What is true of a worker that is at a file.
LEMMA FileOf ==
  ASSUME IndexInv, NEW w \in Worker, run[w].pc \in FilePcs \cup {"hash"}
  PROVE  /\ run[w].todo \in Seq(Path) /\ run[w].todo # <<>> /\ File(w) \in Path
         /\ Tail(run[w].todo) \in Seq(Path)
         /\ w \in Job => status[w] # "none"
<1>1. run[w].todo # <<>> /\ run[w].todo \in Seq(Path)
  BY DEF IndexInv, IndexTables, WorkerHas, Runs
<1>2. w \in Job => status[w] # "none"
  BY DEF IndexInv, WorkerHas, FilePcs
<1> QED  BY <1>1, <1>2, HeadTailProperties DEF File

\* A worker goes on.
LEMMA Goes ==
  ASSUME IndexInv, NEW w \in Worker, NEW pc \in TimerPcs \cup RunPcs, Goto(w, pc)
  PROVE  /\ run' \in [Worker -> Runs]
         /\ \A x \in Worker \ {w} : run'[x] = run[x]
         /\ run'[w].pc = pc /\ run'[w].todo = run[w].todo /\ run'[w].hash = run[w].hash
         /\ run'[w].data = run[w].data /\ run'[w].left = run[w].left
         /\ File(w)' = File(w)
<1>1. run \in [Worker -> Runs]
  BY DEF IndexInv, IndexTables
<1>2. run' = [run EXCEPT ![w] = [run[w] EXCEPT !.pc = pc]]
  BY <1>1 DEF Goto
<1>3. [run[w] EXCEPT !.pc = pc] \in Runs
  BY <1>1 DEF Runs
<1> QED  BY <1>1, <1>2, <1>3 DEF Runs, File

\* A worker is done with a file.
LEMMA Leaves ==
  ASSUME IndexInv, NEW w \in Worker, run[w].pc \in FilePcs \/ run[w].todo # <<>>, Leave(w)
  PROVE  /\ run' \in [Worker -> Runs]
         /\ \A x \in Worker \ {w} : run'[x] = run[x]
         /\ run'[w].pc = IF w \in Timer THEN "none" ELSE "next"
<1>1. run \in [Worker -> Runs]
  BY DEF IndexInv, IndexTables
<1>2. Tail(run[w].todo) \in Seq(Path)
  <2>1. run[w].todo # <<>> /\ run[w].todo \in Seq(Path)
    BY <1>1, FileOf DEF Runs
  <2> QED  BY <2>1, HeadTailProperties
<1>3. PICK pc \in TimerPcs \cup RunPcs : pc = IF IsTimer(w) THEN "none" ELSE "next"
  BY DEF TimerPcs, RunPcs
<1>4. run' = [run EXCEPT ![w] = [[run[w] EXCEPT !.pc = pc] EXCEPT !.todo = Tail(run[w].todo)]]
  BY <1>1, <1>3 DEF Leave, Runs
<1>5. [[run[w] EXCEPT !.pc = pc] EXCEPT !.todo = Tail(run[w].todo)] \in Runs
  BY <1>1, <1>2 DEF Runs
<1>6. run'[w].pc = pc
  BY <1>1, <1>4 DEF Runs
<1> QED  BY <1>1, <1>3, <1>4, <1>5, <1>6 DEF IsTimer

LEMMA HashKeeps ==
  ASSUME IndexInv, NEW w \in Worker, Hash(w)
  PROVE  IndexInv'
<1>0. PICK p \in Path : p = File(w)
  <2>1. run[w].todo # <<>> /\ run[w].todo \in Seq(Path)
    BY DEF Hash, At, IsTimer, IndexInv, IndexTables, WorkerHas, Runs
  <2> QED  BY <2>1, HeadTailProperties DEF File
<1> USE <1>0
<1>1. /\ run[w].pc \notin FilePcs
      /\ run[w].todo # <<>> /\ run[w].todo \in Seq(Path) /\ p \in Path
      /\ w \in Timer => run[w].pc = "hash"
      /\ w \notin Timer => run[w].pc = "next"
      /\ w \in Job => status[w] # "none"
  <2>1. /\ w \in Timer => run[w].pc = "hash"
        /\ w \notin Timer => run[w].pc = "next" /\ run[w].todo # <<>>
    BY DEF Hash, IsTimer, At
  <2>2. run[w].pc \notin FilePcs
    BY <2>1 DEF FilePcs
  <2>3. run[w].todo # <<>>
    BY <2>1 DEF IndexInv, WorkerHas
  <2>4. run[w].todo \in Seq(Path)
    BY DEF IndexInv, IndexTables, Runs
  <2>5. w \in Job => status[w] # "none"
    BY <2>1 DEF IndexInv, WorkerHas
  <2> QED  BY <2>1, <2>2, <2>3, <2>4, <2>5, HeadTailProperties DEF File
<1>2. /\ UNCHANGED <<version, present, rows, tracked, indexing, status, armed, torn>>
      /\ version[p] \in 1..Len(Text[p]) /\ version[p] \in Nat
  BY <1>1 DEF Hash, files, calls, IndexInv, IndexTables
<1>3. CASE p \notin present /\ w \notin Timer
  <2>1. Leave(w) /\ UNCHANGED <<disturbed, torn>>
    BY <1>2, <1>3 DEF Hash, IsTimer
  <2>2. /\ run' \in [Worker -> Runs] /\ \A x \in Worker \ {w} : run'[x] = run[x]
        /\ run'[w].pc = "next"
    BY <1>1, <1>3, <2>1, Leaves
  <2>3. IndexTables'
    BY <1>2, <2>1, <2>2 DEF IndexInv, IndexTables
  <2>4. WorkerHas(w)' /\ run'[w].pc \notin FilePcs
    BY <1>1, <1>2, <1>3, <2>2 DEF WorkerHas, FilePcs, RunPcs
  <2> QED  BY <1>1, <1>2, <2>1, <2>2, <2>3, <2>4, NotAtFile
<1>4. CASE p \in present \/ w \in Timer
  <2>1. /\ run' \in [Worker -> Runs] /\ \A x \in Worker \ {w} : run'[x] = run[x]
        /\ run'[w].todo = run[w].todo
        /\ p \in present => run'[w].pc = "compare" /\ run'[w].hash = version[p]
        /\ p \notin present => run'[w].pc = "drop"
    <3>0. run \in [Worker -> Runs]
      BY DEF IndexInv, IndexTables
    <3>1. CASE p \in present
      <4>1. run' = [run EXCEPT ![w].pc = "compare", ![w].hash = version[p]]
        BY <3>1 DEF Hash
      <4>2. run' = [run EXCEPT ![w] = [[run[w] EXCEPT !.pc = "compare"] EXCEPT !.hash = version[p]]]
        BY <3>0, <4>1 DEF Runs
      <4>3. [[run[w] EXCEPT !.pc = "compare"] EXCEPT !.hash = version[p]] \in Runs
        BY <1>2, <3>0 DEF Runs, TimerPcs
      <4>4. run'[w] = [[run[w] EXCEPT !.pc = "compare"] EXCEPT !.hash = version[p]]
        BY <3>0, <4>2
      <4> QED  BY <3>0, <3>1, <4>2, <4>3, <4>4 DEF Runs
    <3>2. CASE p \notin present
      <4>1. Goto(w, "drop")
        BY <1>4, <3>2 DEF Hash, IsTimer
      <4> QED  BY <3>2, <4>1, Goes DEF TimerPcs
    <3> QED  BY <3>1, <3>2
  <2>2. disturbed' = IF Busy(p) = {} THEN disturbed ELSE disturbed \cup {p}
    BY <1>4 DEF Hash, IsTimer
  <2>3. IndexTables'
    BY <1>1, <1>2, <2>1, <2>2 DEF IndexInv, IndexTables
  <2>4. WorkerHas(w)'
    <3>1. run'[w].pc \in {"compare", "drop"} /\ (run'[w].pc = "drop" => w \in Timer)
      BY <1>4, <2>1
    <3>2. File(w)' = p
      BY <2>1 DEF File
    <3>3. run'[w].pc = "compare" => run'[w].hash \in 1..Len(Text[p])
      BY <1>2, <2>1
    <3> QED  BY <1>1, <1>2, <2>1, <3>1, <3>2, <3>3 DEF WorkerHas, RunPcs, TimerPcs
  <2>5. /\ File(w)' = p
        /\ \A q \in Path \ {p} : q \in disturbed' <=> q \in disturbed
    BY <2>1, <2>2 DEF File
  <2>6. PathKept(p)'
    <3> SUFFICES ASSUME p \notin disturbed'  PROVE PathKept(p)'
      BY DEF PathKept
    <3>1. p \notin disturbed /\ Busy(p) = {}
      BY <2>2
    <3>2. Whole(p)
      BY <1>1, <3>1 DEF IndexInv, PathKept
    <3>3. Busy(p)' = {w}
      <4>1. run'[w].pc \in {"compare", "drop"}
        BY <2>1
      <4> QED  BY <2>1, <2>5, <3>1, <4>1 DEF Busy, File
    <3>4. WorkerKeeps(w, p)'
      BY <1>2, <2>1, <3>2 DEF WorkerKeeps, Whole
    <3> QED  BY <3>3, <3>4 DEF PathKept
  <2> QED  BY <1>1, <1>2, <2>1, <2>3, <2>4, <2>5, <2>6, AtFile
<1> QED  BY <1>3, <1>4

LEMMA CompareKeeps ==
  ASSUME IndexInv, NEW w \in Worker, Compare(w)
  PROVE  IndexInv'
<1>0. PICK p \in Path : p = File(w)
  BY FileOf DEF Compare, At, FilePcs
<1> USE <1>0
<1>1. /\ run[w].pc = "compare" /\ run[w].pc \in FilePcs
      /\ UNCHANGED <<version, present, rows, tracked, indexing, status, armed, disturbed, torn>>
  BY DEF Compare, At, files, calls, FilePcs
<1>2. /\ p \in Path /\ run[w].todo # <<>> /\ (w \in Job => status[w] # "none")
      /\ run[w].hash \in 1..Len(Text[p])
  BY <1>1, FileOf DEF IndexInv, WorkerHas
<1>3. CASE run[w].force \/ tracked[p] # run[w].hash
  <2>1. PICK pc \in TimerPcs \cup RunPcs : pc = IF w \in Timer THEN "delete" ELSE "read"
    BY DEF TimerPcs
  <2>2. Goto(w, pc)
    BY <1>3, <2>1 DEF Compare, IsTimer
  <2>3. /\ run' \in [Worker -> Runs] /\ \A x \in Worker \ {w} : run'[x] = run[x]
        /\ run'[w].pc = pc /\ run'[w].todo = run[w].todo /\ run'[w].hash = run[w].hash
        /\ File(w)' = p
    BY <2>2, Goes
  <2>4. IndexTables'
    BY <1>1, <2>3 DEF IndexInv, IndexTables
  <2>5. WorkerHas(w)' /\ run'[w].pc \in FilePcs
    BY <1>1, <1>2, <2>1, <2>3 DEF WorkerHas, RunPcs, TimerPcs, FilePcs
  <2>6. WorkerKeeps(w, p) => WorkerKeeps(w, p)'
    BY <1>1, <2>1, <2>3 DEF WorkerKeeps, Whole
  <2> QED  BY <1>1, <1>2, <2>3, <2>4, <2>5, <2>6, StaysAtFile
<1>4. CASE ~(run[w].force \/ tracked[p] # run[w].hash)
  <2>1. Leave(w)
    BY <1>4 DEF Compare
  <2>2. /\ run' \in [Worker -> Runs] /\ \A x \in Worker \ {w} : run'[x] = run[x]
        /\ run'[w].pc = IF w \in Timer THEN "none" ELSE "next"
    BY <1>1, <2>1, Leaves
  <2>3. IndexTables'
    BY <1>1, <2>2 DEF IndexInv, IndexTables
  <2>4. WorkerHas(w)' /\ run'[w].pc \notin FilePcs
    BY <1>1, <1>2, <2>2 DEF WorkerHas, RunPcs, TimerPcs, FilePcs
  <2>5. WorkerKeeps(w, p) => Whole(p)'
    BY <1>1 DEF WorkerKeeps, Whole
  <2> QED  BY <1>1, <1>2, <2>2, <2>3, <2>4, <2>5, LeavesFile
<1> QED  BY <1>3, <1>4

LEMMA ReadKeeps ==
  ASSUME IndexInv, NEW w \in Worker, Read(w)
  PROVE  IndexInv'
<1>0. PICK p \in Path : p = File(w)
  BY FileOf DEF Read, At, FilePcs
<1> USE <1>0
<1>1. /\ run[w].pc = "read" /\ run[w].pc \in FilePcs
      /\ UNCHANGED <<version, present, rows, tracked, indexing, status, armed, disturbed>>
  BY DEF Read, At, files, calls, FilePcs
<1>2. /\ p \in Path /\ run[w].todo # <<>> /\ run[w].todo \in Seq(Path)
      /\ w \in Job => status[w] # "none"
      /\ run[w].hash \in 1..Len(Text[p])
  BY <1>1, FileOf DEF IndexInv, WorkerHas
<1>3. version[p] \in 1..Len(Text[p]) /\ version[p] \in Nat
  BY <1>2 DEF IndexInv, IndexTables
<1>4. CASE p \in present
  <2>0. run \in [Worker -> Runs]
    BY DEF IndexInv, IndexTables
  <2>1. PICK pc \in TimerPcs \cup RunPcs : pc = IF w \in Timer THEN "insert" ELSE "delete"
    BY DEF TimerPcs
  <2>2. Pieces(p, version[p]) \in Seq(Piece)
    BY <1>2, <1>3, PiecesTyped
  <2> DEFINE m == [[[run[w] EXCEPT !.pc = pc] EXCEPT !.data = version[p]]
                      EXCEPT !.left = Pieces(p, version[p])]
  <2>3. run' = [run EXCEPT ![w] = m] /\ torn' = torn
    <3>1. run' = [run EXCEPT ![w].pc = pc, ![w].data = version[p],
                             ![w].left = Pieces(p, version[p])]
          /\ torn' = torn
      BY <1>4, <2>1 DEF Read, IsTimer, Pieces
    <3> QED  BY <2>0, <3>1 DEF Runs
  <2>4. m \in Runs
    BY <1>3, <2>0, <2>2 DEF Runs
  <2>5. /\ m.pc = pc /\ m.data = version[p] /\ m.left = Pieces(p, version[p])
        /\ m.todo = run[w].todo /\ m.hash = run[w].hash
    BY <2>0 DEF Runs
  <2> HIDE DEF m
  <2>6. /\ run' \in [Worker -> Runs] /\ \A x \in Worker \ {w} : run'[x] = run[x]
        /\ run'[w].pc = pc /\ run'[w].data = version[p] /\ run'[w].left = Pieces(p, version[p])
        /\ run'[w].todo = run[w].todo /\ run'[w].hash = run[w].hash
    BY <2>0, <2>3, <2>4, <2>5
  <2>7. File(w)' = p
    BY <2>6 DEF File
  <2>8. IndexTables'
    BY <1>1, <2>3, <2>6 DEF IndexInv, IndexTables
  <2>9. WorkerHas(w)' /\ run'[w].pc \in FilePcs
    BY <1>1, <1>2, <1>3, <2>1, <2>6, <2>7 DEF WorkerHas, RunPcs, TimerPcs, FilePcs, Pieces
  <2>10. WorkerKeeps(w, p) => WorkerKeeps(w, p)'
    <3>1. <<>> \o RowsOf(Pieces(p, version[p]), version[p]) = RowsOf(Pieces(p, version[p]), version[p])
      BY <1>3, <2>2, FirstRows
    <3>2. UNCHANGED <<version, rows>> /\ Pieces(p, version[p])' = Pieces(p, version[p])
      BY <1>1 DEF Pieces
    <3> QED  BY <1>1, <2>1, <2>6, <3>1, <3>2 DEF WorkerKeeps
  <2> QED  BY <1>1, <1>2, <2>3, <2>6, <2>7, <2>8, <2>9, <2>10, StaysAtFile
<1>5. CASE p \notin present
  <2>1. Leave(w) /\ torn' = IF w \in Timer THEN torn \cup {p} ELSE torn
    BY <1>5 DEF Read, IsTimer
  <2>2. /\ run' \in [Worker -> Runs] /\ \A x \in Worker \ {w} : run'[x] = run[x]
        /\ run'[w].pc = IF w \in Timer THEN "none" ELSE "next"
    BY <1>1, <2>1, Leaves
  <2>3. IndexTables'
    BY <1>1, <1>2, <2>1, <2>2 DEF IndexInv, IndexTables
  <2>4. WorkerHas(w)' /\ run'[w].pc \notin FilePcs
    BY <1>1, <1>2, <2>2 DEF WorkerHas, RunPcs, TimerPcs, FilePcs
  <2>5. WorkerKeeps(w, p) => Whole(p)'
    BY <1>1, <2>1 DEF WorkerKeeps, Whole, Pieces
  <2>6. \A q \in Path \ {p} : q \in torn' <=> q \in torn
    BY <2>1
  <2> QED  BY <1>1, <1>2, <2>2, <2>3, <2>4, <2>5, <2>6, LeavesFile
<1> QED  BY <1>4, <1>5

\* The delete, and its failure.
LEMMA DeleteKeeps ==
  ASSUME IndexInv, NEW w \in Worker, Delete(w) \/ DeleteFails(w)
  PROVE  IndexInv'
<1>0. PICK p \in Path : p = File(w)
  BY FileOf DEF Delete, DeleteFails, At, FilePcs
<1> USE <1>0
<1>1. /\ run[w].pc = "delete" /\ run[w].pc \in FilePcs
      /\ UNCHANGED <<version, present, tracked, indexing, status, armed, torn>>
  BY DEF Delete, DeleteFails, At, files, calls, FilePcs
<1>2. /\ p \in Path /\ run[w].todo # <<>> /\ (w \in Job => status[w] # "none")
      /\ run[w].hash \in 1..Len(Text[p])
      /\ w \notin Timer => /\ run[w].data \in 1..Len(Text[p])
                           /\ run[w].left = Pieces(p, run[w].data)
  BY <1>1, FileOf DEF IndexInv, WorkerHas
<1>3. PICK pc \in TimerPcs \cup RunPcs : pc = IF w \in Timer THEN "read" ELSE "insert"
  BY DEF TimerPcs
<1>4. Goto(w, pc)
  BY <1>3 DEF Delete, DeleteFails, AfterDelete, IsTimer
<1>5. /\ run' \in [Worker -> Runs] /\ \A x \in Worker \ {w} : run'[x] = run[x]
      /\ run'[w].pc = pc /\ run'[w].todo = run[w].todo /\ run'[w].hash = run[w].hash
      /\ run'[w].data = run[w].data /\ run'[w].left = run[w].left
      /\ File(w)' = p
  BY <1>4, Goes
<1>6. /\ rows \in [Path -> Seq(Rows)] /\ disturbed \subseteq Path
      /\ version[p] \in 1..Len(Text[p]) /\ version[p] \in Nat
  BY <1>2 DEF IndexInv, IndexTables
<1>7. \/ rows' = [rows EXCEPT ![p] = <<>>]
         /\ disturbed' = IF Busy(p) = {w} THEN disturbed \ {p} ELSE disturbed
      \/ rows' = rows /\ disturbed' = disturbed \cup {p}
  BY DEF Delete, DeleteFails
<1>8. IndexTables'
  <2>1. <<>> \in Seq(Rows)
    OBVIOUS
  <2>2. rows' \in [Path -> Seq(Rows)]
    BY <1>6, <1>7, <2>1
  <2>3. disturbed' \subseteq Path
    BY <1>6, <1>7
  <2> QED  BY <1>1, <1>5, <2>2, <2>3 DEF IndexInv, IndexTables
<1>9. WorkerHas(w)' /\ run'[w].pc \in FilePcs
  BY <1>1, <1>2, <1>3, <1>5 DEF WorkerHas, RunPcs, TimerPcs, FilePcs, Pieces
<1>10. \A q \in Path \ {p} : /\ rows'[q] = rows[q] /\ tracked'[q] = tracked[q]
                             /\ q \in disturbed' <=> q \in disturbed
                             /\ q \in torn' <=> q \in torn
  BY <1>1, <1>6, <1>7
<1>11. p \notin disturbed' => p \notin disturbed \/ Busy(p) = {w}
  BY <1>7
<1>12. p \notin disturbed' => WorkerKeeps(w, p)'
  <2> SUFFICES ASSUME p \notin disturbed'  PROVE WorkerKeeps(w, p)'
    OBVIOUS
  <2>1. rows'[p] = <<>>
    BY <1>2, <1>6, <1>7
  <2>2. CASE w \in Timer
    BY <1>3, <1>5, <2>1, <2>2 DEF WorkerKeeps
  <2>3. CASE w \notin Timer
    <3>1. run[w].data \in 1..Len(Text[p]) /\ run[w].data \in Nat
      BY <1>2, <2>3
    <3>2. Pieces(p, run[w].data) \in Seq(Piece)
      BY <1>2, <3>1, PiecesTyped
    <3>3. <<>> \o RowsOf(run[w].left, run[w].data) = RowsOf(Pieces(p, run[w].data), run[w].data)
      BY <1>2, <2>3, <3>1, <3>2, FirstRows
    <3> QED  BY <1>3, <1>5, <2>1, <2>3, <3>3 DEF WorkerKeeps, Pieces
  <2> QED  BY <2>2, <2>3
<1> QED  BY <1>1, <1>2, <1>5, <1>8, <1>9, <1>10, <1>11, <1>12, StaysAtFile

LEMMA AddChunkKeeps ==
  ASSUME IndexInv, NEW w \in Worker, AddChunk(w) \/ AddChunkFails(w)
  PROVE  IndexInv'
<1>0. PICK p \in Path : p = File(w)
  BY FileOf DEF AddChunk, AddChunkFails, At, FilePcs
<1> USE <1>0
<1>1. /\ run[w].pc = "insert" /\ run[w].pc \in FilePcs /\ run[w].left # <<>>
      /\ UNCHANGED <<version, present, tracked, indexing, status, armed, torn>>
  BY DEF AddChunk, AddChunkFails, At, files, calls, FilePcs
<1>2. /\ p \in Path /\ run[w].todo # <<>> /\ (w \in Job => status[w] # "none")
      /\ run[w].hash \in 1..Len(Text[p])
      /\ run[w].data \in 1..Len(Text[p])
  BY <1>1, FileOf DEF IndexInv, WorkerHas
<1>3. /\ rows \in [Path -> Seq(Rows)] /\ disturbed \subseteq Path /\ version[p] \in Nat
      /\ run \in [Worker -> Runs] /\ run[w].left \in Seq(Piece) /\ run[w].data \in Nat
  BY <1>2 DEF IndexInv, IndexTables, Runs
<1>4. Tail(run[w].left) \in Seq(Piece)
  BY <1>1, <1>3, HeadTailProperties
<1> DEFINE m == [run[w] EXCEPT !.left = Tail(run[w].left)]
<1>5. run' = [run EXCEPT ![w] = m]
  BY <1>3 DEF AddChunk, AddChunkFails, Runs
<1>6. /\ m \in Runs /\ m.pc = "insert" /\ m.todo = run[w].todo /\ m.hash = run[w].hash
      /\ m.data = run[w].data /\ m.left = Tail(run[w].left)
  BY <1>1, <1>3, <1>4 DEF Runs
<1> HIDE DEF m
<1>7. /\ run' \in [Worker -> Runs] /\ \A x \in Worker \ {w} : run'[x] = run[x]
      /\ run'[w].pc = "insert" /\ run'[w].todo = run[w].todo /\ run'[w].hash = run[w].hash
      /\ run'[w].data = run[w].data /\ run'[w].left = Tail(run[w].left)
  BY <1>3, <1>5, <1>6
<1>8. File(w)' = p
  BY <1>7 DEF File
<1>9. \/ rows' = [rows EXCEPT ![p] = Append(rows[p], Stored(w))] /\ disturbed' = disturbed
      \/ rows' = rows /\ disturbed' = disturbed \cup {p}
  BY DEF AddChunk, AddChunkFails
<1>10. rows[p] \in Seq(Rows)
  BY <1>2, <1>3
<1>11. /\ Stored(w) \in Rows
       /\ Append(rows[p], Stored(w)) \o RowsOf(Tail(run[w].left), run[w].data)
             = rows[p] \o RowsOf(run[w].left, run[w].data)
  BY <1>1, <1>3, <1>10, RowAdded DEF Stored
<1>12. Append(rows[p], Stored(w)) \in Seq(Rows)
  BY <1>10, <1>11, AppendProperties
<1>13. IndexTables'
  <2>1. rows' \in [Path -> Seq(Rows)] /\ disturbed' \subseteq Path
    BY <1>2, <1>3, <1>9, <1>12
  <2> QED  BY <1>1, <1>7, <2>1 DEF IndexInv, IndexTables
<1>14. WorkerHas(w)' /\ run'[w].pc \in FilePcs
  BY <1>1, <1>2, <1>7, <1>8 DEF WorkerHas, RunPcs, TimerPcs, FilePcs
<1>15. \A q \in Path \ {p} : /\ rows'[q] = rows[q] /\ tracked'[q] = tracked[q]
                             /\ q \in disturbed' <=> q \in disturbed
                             /\ q \in torn' <=> q \in torn
  BY <1>1, <1>3, <1>9
<1>16. p \notin disturbed' => p \notin disturbed
  BY <1>9
<1>17. p \notin disturbed' /\ WorkerKeeps(w, p) => WorkerKeeps(w, p)'
  <2> SUFFICES ASSUME p \notin disturbed', WorkerKeeps(w, p)  PROVE WorkerKeeps(w, p)'
    OBVIOUS
  <2>1. rows'[p] = Append(rows[p], Stored(w))
    BY <1>2, <1>3, <1>9
  <2>2. rows[p] \o RowsOf(run[w].left, run[w].data) = RowsOf(Pieces(p, run[w].data), run[w].data)
    BY <1>1 DEF WorkerKeeps
  <2>3. Append(rows[p], Stored(w)) \o RowsOf(Tail(run[w].left), run[w].data)
           = RowsOf(Pieces(p, run[w].data), run[w].data)
    BY <1>11, <2>2
  <2>4. rows'[p] \o RowsOf(run'[w].left, run'[w].data)
           = RowsOf(Pieces(p, run'[w].data), run'[w].data)
    BY <1>7, <2>1, <2>3
  <2> QED  BY <1>7, <2>4 DEF WorkerKeeps, Pieces
<1> QED  BY <1>1, <1>2, <1>7, <1>8, <1>13, <1>14, <1>15, <1>16, <1>17, StaysAtFile

LEMMA TrackKeeps ==
  ASSUME IndexInv, NEW w \in Worker, Track(w)
  PROVE  IndexInv'
<1>0. PICK p \in Path : p = File(w)
  BY FileOf DEF Track, At, FilePcs
<1> USE <1>0
<1>1. /\ run[w].pc = "insert" /\ run[w].pc \in FilePcs /\ run[w].left = <<>>
      /\ tracked' = [tracked EXCEPT ![p] = run[w].hash] /\ Leave(w)
      /\ torn' = IF run[w].hash = run[w].data THEN torn \ {p} ELSE torn \cup {p}
      /\ UNCHANGED <<version, present, rows, indexing, status, armed, disturbed>>
  BY DEF Track, TornBy, At, files, calls, FilePcs
<1>2. /\ p \in Path /\ run[w].todo # <<>> /\ (w \in Job => status[w] # "none")
      /\ run[w].hash \in 1..Len(Text[p])
      /\ run[w].data \in 1..Len(Text[p])
  BY <1>1, FileOf DEF IndexInv, WorkerHas
<1>3. /\ rows \in [Path -> Seq(Rows)] /\ tracked \in [Path -> Nat] /\ version[p] \in Nat
      /\ rows[p] \in Seq(Rows) /\ \A q \in Path : tracked[q] <= Len(Text[q])
      /\ torn \subseteq Path
  BY <1>2 DEF IndexInv, IndexTables
<1>4. /\ run' \in [Worker -> Runs] /\ \A x \in Worker \ {w} : run'[x] = run[x]
      /\ run'[w].pc = IF w \in Timer THEN "none" ELSE "next"
  BY <1>1, Leaves
<1>5. /\ tracked' \in [Path -> Nat] /\ \A q \in Path : tracked'[q] <= Len(Text[q])
      /\ tracked'[p] = run[w].hash /\ \A q \in Path \ {p} : tracked'[q] = tracked[q]
      /\ torn' \subseteq Path /\ \A q \in Path \ {p} : q \in torn' <=> q \in torn
  <2>1. \A q \in Path : Len(Text[q]) \in Nat
    BY ProjectIndexAssumption
  <2>2. run[w].hash \in Nat /\ run[w].hash <= Len(Text[p])
    BY <1>2, <2>1
  <2>3. /\ tracked'[p] = run[w].hash /\ \A q \in Path \ {p} : tracked'[q] = tracked[q]
        /\ tracked' \in [Path -> Nat]
    BY <1>1, <1>2, <1>3, <2>2
  <2>4. \A q \in Path : tracked'[q] <= Len(Text[q])
    BY <1>3, <2>2, <2>3
  <2> QED  BY <1>1, <1>2, <1>3, <2>3, <2>4
<1>6. IndexTables'
  BY <1>1, <1>4, <1>5 DEF IndexInv, IndexTables
<1>7. WorkerHas(w)' /\ run'[w].pc \notin FilePcs
  BY <1>1, <1>2, <1>4 DEF WorkerHas, RunPcs, TimerPcs, FilePcs
<1>8. WorkerKeeps(w, p) => Whole(p)'
  <2> SUFFICES ASSUME WorkerKeeps(w, p), run[w].hash = run[w].data
               PROVE  rows[p] = RowsOf(Pieces(p, run[w].data), run[w].data)
    BY <1>1, <1>5 DEF Whole, Pieces
  <2>2. rows[p] \o RowsOf(<<>>, run[w].data) = RowsOf(Pieces(p, run[w].data), run[w].data)
    BY <1>1 DEF WorkerKeeps
  <2> QED  BY <1>3, <2>2, LastRows
<1> QED  BY <1>1, <1>2, <1>4, <1>5, <1>6, <1>7, <1>8, LeavesFile

\* A timer that finds its file gone.
LEMMA DropKeeps ==
  ASSUME IndexInv, NEW w \in Timer, DropRows(w) \/ Forget(w)
  PROVE  IndexInv'
<1>0. w \in Worker /\ w \notin Job
  BY ProjectIndexAssumption DEF Worker
<1>3. PICK p \in Path : p = File(w)
  BY <1>0, FileOf DEF DropRows, Forget, At, FilePcs
<1> USE <1>3
<1>1. CASE DropRows(w)
  <2>1. /\ run[w].pc = "drop" /\ run[w].pc \in FilePcs /\ Goto(w, "forget")
        /\ UNCHANGED <<version, present, tracked, indexing, status, armed, disturbed, torn>>
        /\ (rows' = rows \/ rows' = [rows EXCEPT ![p] = <<>>])
    BY <1>1 DEF DropRows, At, files, FilePcs
  <2>2. p \in Path /\ run[w].todo # <<>>
    BY <1>0, <2>1, FileOf
  <2>3. /\ run' \in [Worker -> Runs] /\ \A x \in Worker \ {w} : run'[x] = run[x]
        /\ run'[w].pc = "forget" /\ run'[w].todo = run[w].todo /\ File(w)' = p
    BY <1>0, <2>1, Goes DEF TimerPcs
  <2>4. rows \in [Path -> Seq(Rows)]
    BY DEF IndexInv, IndexTables
  <2>5. rows' \in [Path -> Seq(Rows)] /\ \A q \in Path \ {p} : rows'[q] = rows[q]
    <3>1. <<>> \in Seq(Rows)
      OBVIOUS
    <3> QED  BY <2>1, <2>4, <3>1
  <2>6. IndexTables'
    BY <2>1, <2>3, <2>5 DEF IndexInv, IndexTables
  <2>7. WorkerHas(w)' /\ run'[w].pc \in FilePcs /\ WorkerKeeps(w, p)'
    BY <1>0, <2>2, <2>3 DEF WorkerHas, TimerPcs, FilePcs, WorkerKeeps
  <2> QED  BY <1>0, <2>1, <2>2, <2>3, <2>5, <2>6, <2>7, StaysAtFile
<1>2. CASE Forget(w)
  <2>1. /\ run[w].pc = "forget" /\ run[w].pc \in FilePcs /\ Leave(w)
        /\ UNCHANGED <<version, present, rows, indexing, status, armed, disturbed, torn>>
        /\ tracked' = [tracked EXCEPT ![p] = 0]
    BY <1>2 DEF Forget, At, files, calls, FilePcs
  <2>2. p \in Path
    BY <1>0, <2>1, FileOf
  <2>3. /\ run' \in [Worker -> Runs] /\ \A x \in Worker \ {w} : run'[x] = run[x]
        /\ run'[w].pc = "none"
    BY <1>0, <2>1, Leaves
  <2>4. /\ tracked \in [Path -> Nat] /\ \A q \in Path : tracked[q] <= Len(Text[q])
        /\ Len(Text[p]) \in Nat
    BY <2>2, ProjectIndexAssumption DEF IndexInv, IndexTables
  <2>5. /\ tracked' \in [Path -> Nat] /\ \A q \in Path : tracked'[q] <= Len(Text[q])
        /\ tracked'[p] = 0 /\ \A q \in Path \ {p} : tracked'[q] = tracked[q]
    BY <2>1, <2>2, <2>4
  <2>6. IndexTables'
    BY <2>1, <2>3, <2>5 DEF IndexInv, IndexTables
  <2>7. WorkerHas(w)' /\ run'[w].pc \notin FilePcs
    BY <1>0, <2>3 DEF WorkerHas, TimerPcs, FilePcs
  <2>8. Whole(p)'
    BY <2>5 DEF Whole
  <2> QED  BY <1>0, <2>1, <2>2, <2>3, <2>5, <2>6, <2>7, <2>8, LeavesFile
<1> QED  BY <1>1, <1>2

-----------------------------------------------------------------------------
(* The other steps.                                                        *)

\* A step of one worker that is at no file, before it and after it.
LEMMA RunMoves ==
  ASSUME IndexInv, NEW w \in Worker \ Timer, run[w].pc \notin FilePcs,
         NEW m \in Runs, run' = [run EXCEPT ![w] = m],
         m.pc \in RunPcs \ FilePcs,
         w \in Job => status'[w] # "none" \/ m.pc = "none",
         status' \in [Job -> {"none", "running", "failed", "completed"}],
         \A j \in Job \ {w} : status'[j] = status[j],
         indexing' \in BOOLEAN,
         UNCHANGED <<version, present, rows, tracked, armed, disturbed, torn>>
  PROVE  IndexInv'
<1>1. /\ run' \in [Worker -> Runs] /\ \A x \in Worker \ {w} : run'[x] = run[x]
      /\ run'[w] = m
  BY DEF IndexInv, IndexTables
<1>2. IndexTables'
  BY <1>1 DEF IndexInv, IndexTables
<1>3. WorkerHas(w)' /\ run'[w].pc \notin FilePcs
  BY <1>1 DEF WorkerHas, RunPcs, FilePcs
<1> QED  BY <1>1, <1>2, <1>3, NotAtFile

LEMMA NoRunIsRun == NoRun \in Runs /\ NoRun.pc = "none"
  BY DEF NoRun, Runs, RunPcs

\* Nothing is found by vectors that are never stored.
LEMMA NothingSearched ==
  ASSUME IndexInv, NEW paths \in SUBSET Path
  PROVE  Cardinality(SearchChunks(paths)) = 0
<1>1. ASSUME NEW p \in paths, NEW i \in DOMAIN rows[p]  PROVE ~rows[p][i].embedded
  <2>1. rows[p] \in Seq(Rows)
    BY DEF IndexInv, IndexTables
  <2>2. i \in 1..Len(rows[p])
    BY <2>1, LenProperties
  <2>3. rows[p][i] \in Rows
    BY <2>1, <2>2, ElementOfSeq
  <2> QED  BY <2>3 DEF Rows
<1>2. SearchChunks(paths) = {}
  BY <1>1 DEF SearchChunks
<1> QED  BY <1>2, FS_EmptySet

LEMMA FoundFiles ==
  LET found == Ascending({i \in DOMAIN PathOrder : PathOrder[i] \in present}) IN
  [k \in DOMAIN found |-> PathOrder[found[k]]] \in Seq(Path)
<1> DEFINE S == {i \in DOMAIN PathOrder : PathOrder[i] \in present}
           found == Ascending(S)
<1>1. /\ PathOrder \in Seq(Path) /\ Len(PathOrder) \in Nat
      /\ DOMAIN PathOrder = 1..Len(PathOrder)
  BY ProjectIndexAssumption, LenProperties
<1>2. S \in SUBSET Nat /\ IsFiniteSet(S)
  <2>1. S \subseteq 1..Len(PathOrder)
    BY <1>1
  <2>2. IsFiniteSet(1..Len(PathOrder))
    BY <1>1, UpTo
  <2> QED  BY <1>1, <2>1, <2>2, FS_Subset
<1>3. \A i \in S : PathOrder[i] \in Path
  BY <1>1, ElementOfSeq
<1> HIDE DEF S
<1>4. PICK n \in Nat : found \in [1..n -> S]
  BY <1>2, AscendingFacts
<1> HIDE DEF found
<1>5. [k \in DOMAIN found |-> PathOrder[found[k]]] \in Seq(Path)
  BY <1>3, <1>4
<1> QED  BY <1>5 DEF found, S

LEMMA RunStepKeeps ==
  ASSUME IndexInv, NEW w \in {Loop} \cup Job, IndexStep(w)
  PROVE  IndexInv'
<1>0. /\ w \in Worker \ Timer /\ run \in [Worker -> Runs]
      /\ status \in [Job -> {"none", "running", "failed", "completed"}]
      /\ indexing \in BOOLEAN /\ WorkerHas(w)
  BY ProjectIndexAssumption DEF IndexInv, IndexTables, Worker
<1>1. w \in Job /\ run[w].pc # "none" => status[w] # "none"
  BY <1>0 DEF WorkerHas
<1> DEFINE
      Moved(m) == m \in Runs /\ run' = [run EXCEPT ![w] = m] /\ m.pc \in RunPcs \ FilePcs
<1>2. ASSUME NEW m, Moved(m), run[w].pc \notin FilePcs, run[w].pc # "none",
             UNCHANGED <<files, calls, rows, tracked, disturbed, torn>>, indexing' \in BOOLEAN
      PROVE  IndexInv'
  BY <1>0, <1>1, <1>2, RunMoves DEF files, calls
<1>3. CASE LoadFlag(w)
  <2> DEFINE m == [[run[w] EXCEPT !.pc = IF indexing THEN "report" ELSE "store"]
                      EXCEPT !.failed = indexing]
  <2>1. run' = [run EXCEPT ![w] = m]
    BY <1>0, <1>3 DEF LoadFlag, Runs
  <2>2. m \in Runs /\ m.pc \in RunPcs \ FilePcs
    BY <1>0 DEF Runs, RunPcs, FilePcs
  <2> HIDE DEF m
  <2> QED  BY <1>0, <1>2, <1>3, <2>1, <2>2 DEF LoadFlag, At, FilePcs
<1>4. CASE StoreFlag(w)
  <2> DEFINE m == [run[w] EXCEPT !.pc = "collect"]
  <2>1. run' = [run EXCEPT ![w] = m]
    BY <1>0, <1>4 DEF StoreFlag, Goto, Runs
  <2>2. m \in Runs /\ m.pc \in RunPcs \ FilePcs
    BY <1>0 DEF Runs, RunPcs, FilePcs
  <2> HIDE DEF m
  <2> QED  BY <1>0, <1>2, <1>4, <2>1, <2>2 DEF StoreFlag, At, FilePcs
<1>5. CASE CollectFails(w)
  <2> DEFINE m == [[run[w] EXCEPT !.pc = "clear"] EXCEPT !.failed = TRUE]
  <2>1. run' = [run EXCEPT ![w] = m]
    BY <1>0, <1>5 DEF CollectFails, Runs
  <2>2. m \in Runs /\ m.pc \in RunPcs \ FilePcs
    BY <1>0 DEF Runs, RunPcs, FilePcs
  <2> HIDE DEF m
  <2> QED  BY <1>0, <1>2, <1>5, <2>1, <2>2 DEF CollectFails, At, FilePcs
<1>6. CASE CollectFiles(w)
  <2>1. PICK todo \in Seq(Path) :
          todo = LET found == Ascending({i \in DOMAIN PathOrder : PathOrder[i] \in present}) IN
                 [k \in DOMAIN found |-> PathOrder[found[k]]]
    BY FoundFiles
  <2> DEFINE m == [[run[w] EXCEPT !.pc = "next"] EXCEPT !.todo = todo]
  <2>2. run' = [run EXCEPT ![w].pc = "next", ![w].todo = todo]
    BY <1>6, <2>1 DEF CollectFiles
  <2>3. run' = [run EXCEPT ![w] = m]
    BY <1>0, <2>2 DEF Runs
  <2>4. m \in Runs /\ m.pc \in RunPcs \ FilePcs
    BY <1>0 DEF Runs, RunPcs, FilePcs
  <2> HIDE DEF m
  <2> QED  BY <1>0, <1>2, <1>6, <2>3, <2>4 DEF CollectFiles, At, FilePcs
<1>7. CASE ClearFlag(w)
  <2> DEFINE m == [run[w] EXCEPT !.pc = "report"]
  <2>1. run' = [run EXCEPT ![w] = m]
    BY <1>0, <1>7 DEF ClearFlag, Goto, Runs
  <2>2. m \in Runs /\ m.pc \in RunPcs \ FilePcs
    BY <1>0 DEF Runs, RunPcs, FilePcs
  <2> HIDE DEF m
  <2> QED  BY <1>0, <1>2, <1>7, <2>1, <2>2 DEF ClearFlag, At, FilePcs
<1>8. CASE Report(w)
  <2>1. run' = [run EXCEPT ![w] = NoRun] /\ run[w].pc \notin FilePcs
    BY <1>8 DEF Report, At, FilePcs
  <2>2. NoRun \in Runs /\ NoRun.pc \in RunPcs \ FilePcs /\ NoRun.pc = "none"
    BY NoRunIsRun DEF RunPcs, FilePcs
  <2>3. /\ status' \in [Job -> {"none", "running", "failed", "completed"}]
        /\ \A j \in Job \ {w} : status'[j] = status[j]
    BY <1>0, <1>8 DEF Report
  <2>4. UNCHANGED <<version, present, rows, tracked, armed, disturbed, torn, indexing>>
    BY <1>8 DEF Report, files
  <2> QED  BY <1>0, <2>1, <2>2, <2>3, <2>4, RunMoves
<1> QED  BY <1>3, <1>4, <1>5, <1>6, <1>7, <1>8 DEF IndexStep

\* What the request loop is asked, and what it answers.
LEMMA IndexRequestKeeps ==
  ASSUME IndexInv,
         \/ handleIndexerIndex
         \/ handleIndexerGetFileContents
         \/ handleIndexerSearch
         \/ IndexReply
  PROVE  IndexInv'
<1>0. /\ Loop \in Worker \ Timer /\ Loop \notin Job /\ \A j \in Job : j \in Worker \ Timer
      /\ run \in [Worker -> Runs]
      /\ status \in [Job -> {"none", "running", "failed", "completed"}]
      /\ indexing \in BOOLEAN
  BY ProjectIndexAssumption DEF IndexInv, IndexTables, Worker
<1>1. PICK r \in Runs : r = NoRun
  BY NoRunIsRun
<1>2. ASSUME NEW force \in BOOLEAN, StartIndex(force)  PROVE IndexInv'
  <2> DEFINE m == [r EXCEPT !.pc = "load", !.force = force]
  <2>1. m \in Runs /\ m.pc \in RunPcs \ FilePcs
    BY DEF Runs, RunPcs, FilePcs
  <2>2. run' = [run EXCEPT ![Loop] = m] /\ run[Loop].pc \notin FilePcs
    BY <1>1, <1>2 DEF StartIndex, At, FilePcs
  <2>3. UNCHANGED <<version, present, rows, tracked, armed, disturbed, torn, indexing, status>>
    BY <1>2 DEF StartIndex, files
  <2> HIDE DEF m
  <2> QED  BY <1>0, <2>1, <2>2, <2>3, RunMoves
<1>3. ASSUME NEW j \in Job, NEW force \in BOOLEAN, StartJob(j, force)  PROVE IndexInv'
  <2> DEFINE m == [r EXCEPT !.pc = "load", !.force = force]
  <2>1. m \in Runs /\ m.pc \in RunPcs \ FilePcs
    BY DEF Runs, RunPcs, FilePcs
  <2>2. run' = [run EXCEPT ![j] = m]
    BY <1>1, <1>3 DEF StartJob
  <2>3. run[j].pc \notin FilePcs
    BY <1>0, <1>3 DEF StartJob, IndexInv, WorkerHas, FilePcs
  <2>4. UNCHANGED <<version, present, rows, tracked, armed, disturbed, torn, indexing>>
    BY <1>3 DEF StartJob, files
  <2>5. /\ status' \in [Job -> {"none", "running", "failed", "completed"}]
        /\ status'[j] = "running" /\ \A k \in Job \ {j} : status'[k] = status[k]
    BY <1>0, <1>3 DEF StartJob
  <2> HIDE DEF m
  <2> QED  BY <1>0, <2>1, <2>2, <2>3, <2>4, <2>5, RunMoves
<1>4. ASSUME NEW pc \in {"contents", "notFound", "results"}, NEW force \in BOOLEAN,
             NEW found \in Nat, AnswerIndex(pc, force, found)
      PROVE  IndexInv'
  <2> DEFINE m == [r EXCEPT !.pc = pc, !.force = force, !.data = found]
  <2>1. m \in Runs /\ m.pc \in RunPcs \ FilePcs
    BY DEF Runs, RunPcs, FilePcs
  <2>2. run' = [run EXCEPT ![Loop] = m] /\ run[Loop].pc \notin FilePcs
    BY <1>1, <1>4 DEF AnswerIndex, At, FilePcs
  <2>3. UNCHANGED <<version, present, rows, tracked, armed, disturbed, torn, indexing, status>>
    BY <1>4 DEF AnswerIndex, files
  <2> HIDE DEF m
  <2> QED  BY <1>0, <2>1, <2>2, <2>3, RunMoves
<1>5. CASE handleIndexerIndex
  BY <1>2, <1>3, <1>5 DEF handleIndexerIndex, IndexProject
<1>6. CASE handleIndexerGetFileContents
  <2>1. PICK p \in Path, force \in BOOLEAN : GetFileContents(p, force)
    BY <1>6 DEF handleIndexerGetFileContents
  <2>2. PICK pc \in {"contents", "notFound", "results"} : AnswerIndex(pc, force, 0)
    BY <2>1 DEF GetFileContents
  <2> QED  BY <1>4, <2>2
<1>7. CASE handleIndexerSearch
  <2>1. PICK paths \in SUBSET Path :
            AnswerIndex("results", FALSE, Cardinality(SearchChunks(paths)))
    BY <1>7 DEF handleIndexerSearch
  <2>2. AnswerIndex("results", FALSE, 0)
    BY <2>1, NothingSearched
  <2> QED  BY <1>4, <2>2
<1>8. CASE IndexReply
  <2>1. run' = [run EXCEPT ![Loop] = NoRun] /\ run[Loop].pc \notin FilePcs
    BY <1>8 DEF IndexReply, FilePcs
  <2>2. NoRun \in Runs /\ NoRun.pc \in RunPcs \ FilePcs
    BY NoRunIsRun DEF RunPcs, FilePcs
  <2>3. UNCHANGED <<version, present, rows, tracked, armed, disturbed, torn, indexing, status>>
    BY <1>8 DEF IndexReply, files, calls
  <2> QED  BY <1>0, <2>1, <2>2, <2>3, RunMoves
<1> QED  BY <1>5, <1>6, <1>7, <1>8

\* The files, the timers and the process.
LEMMA WorldKeeps ==
  ASSUME IndexInv,
         \/ \E t \in Timer : TimerFires(t)
         \/ \E p \in Path : WriteFile(p) \/ RemoveFile(p)
         \/ StopWatcher
         \/ Restart
  PROVE  IndexInv'
<1>0. IndexTables
  BY DEF IndexInv
<1>1. ASSUME NEW t \in Timer, TimerFires(t)  PROVE IndexInv'
  <2>1. t \in Worker /\ t \notin Job
    BY ProjectIndexAssumption DEF Worker
  <2>2. PICK p \in armed :
          /\ armed' = armed \ {p}
          /\ run' = [run EXCEPT ![t] = [NoRun EXCEPT !.pc = "hash", !.todo = <<p>>]]
    BY <1>1 DEF TimerFires
  <2>3. p \in Path
    BY <1>0, <2>2 DEF IndexTables
  <2>10. PICK r \in Runs : r = NoRun
    BY NoRunIsRun
  <2> DEFINE m == [r EXCEPT !.pc = "hash", !.todo = <<p>>]
  <2>4. m \in Runs /\ m.pc = "hash" /\ m.todo # <<>>
    <3>1. <<p>> \in Seq(Path) /\ <<p>> # <<>>
      BY <2>3
    <3> QED  BY <3>1 DEF Runs, TimerPcs
  <2>5. run' = [run EXCEPT ![t] = m]
    BY <2>2, <2>10
  <2> HIDE DEF m
  <2>6. /\ run' \in [Worker -> Runs] /\ run'[t] = m
        /\ \A x \in Worker \ {t} : run'[x] = run[x]
    BY <1>0, <2>1, <2>4, <2>5 DEF IndexTables
  <2>7. UNCHANGED <<version, present, rows, tracked, disturbed, torn, indexing, status>>
        /\ run[t].pc \notin FilePcs
    BY <1>1 DEF TimerFires, At, FilePcs
  <2>8. IndexTables'
    BY <1>0, <2>2, <2>6, <2>7 DEF IndexTables
  <2>9. WorkerHas(t)' /\ run'[t].pc \notin FilePcs
    BY <2>1, <2>4, <2>6 DEF WorkerHas, TimerPcs, FilePcs
  <2> QED  BY <2>1, <2>6, <2>7, <2>8, <2>9, NotAtFile
<1>2. ASSUME NEW p \in Path, WriteFile(p)  PROVE IndexInv'
  <2>1. /\ \E v \in 1..Len(Text[p]) : version' = [version EXCEPT ![p] = v]
        /\ present' = present \cup {p} /\ armed' \subseteq Path
        /\ UNCHANGED <<rows, tracked, indexing, run, status, disturbed, torn>>
    BY <1>0, <1>2 DEF WriteFile, Event, IndexTables
  <2>2. IndexTables'
    <3>1. Len(Text[p]) \in Nat
      BY ProjectIndexAssumption
    <3>2. version' \in [Path -> Nat] /\ \A q \in Path : version'[q] \in 1..Len(Text[q])
      BY <1>0, <2>1, <3>1 DEF IndexTables
    <3> QED  BY <1>0, <2>1, <3>2 DEF IndexTables
  <2>3. ASSUME NEW w \in Worker  PROVE WorkerHas(w)'
    BY <2>1 DEF IndexInv, WorkerHas, File, Pieces
  <2>4. ASSUME NEW q \in Path  PROVE PathKept(q)'
    BY <2>1 DEF IndexInv, PathKept, WorkerKeeps, Whole, Pieces, Busy, File
  <2> QED  BY <2>2, <2>3, <2>4 DEF IndexInv
<1>3. ASSUME NEW p \in Path, RemoveFile(p)  PROVE IndexInv'
  <2>1. /\ present' = present \ {p} /\ armed' \subseteq Path
        /\ UNCHANGED <<version, rows, tracked, indexing, run, status, disturbed, torn>>
    BY <1>0, <1>3 DEF RemoveFile, Event, IndexTables
  <2>2. IndexTables'
    BY <1>0, <2>1 DEF IndexTables
  <2>3. ASSUME NEW w \in Worker  PROVE WorkerHas(w)'
    BY <2>1 DEF IndexInv, WorkerHas, File
  <2>4. ASSUME NEW q \in Path  PROVE PathKept(q)'
    BY <2>1 DEF IndexInv, PathKept, WorkerKeeps, Whole, Pieces, Busy, File
  <2> QED  BY <2>2, <2>3, <2>4 DEF IndexInv
<1>4. ASSUME UNCHANGED <<version, present, rows, tracked, indexing, run, status, armed, disturbed, torn>>
      PROVE  IndexInv'
  BY <1>4 DEF IndexInv, IndexTables, WorkerHas, PathKept, WorkerKeeps, Whole, Busy, File
<1>5. CASE Restart
  <2>1. /\ tracked' = [p \in Path |-> 0] /\ indexing' = FALSE
        /\ run' = [w \in Worker |-> NoRun] /\ status' = [j \in Job |-> "none"]
        /\ armed' = {} /\ disturbed' = {} /\ torn' = {} /\ UNCHANGED <<version, present, rows>>
    BY <1>5 DEF Restart
  <2>2. IndexTables'
    <3>1. /\ run' \in [Worker -> Runs]
          /\ status' \in [Job -> {"none", "running", "failed", "completed"}]
      BY <2>1, NoRunIsRun
    <3>2. tracked' \in [Path -> Nat] /\ \A p \in Path : tracked'[p] <= Len(Text[p])
      BY <2>1, ProjectIndexAssumption
    <3>3. /\ armed' \subseteq Path /\ disturbed' \subseteq Path /\ torn' \subseteq Path
          /\ indexing' \in BOOLEAN
      BY <2>1
    <3> QED  BY <1>0, <2>1, <3>1, <3>2, <3>3 DEF IndexTables
  <2>3. \A w \in Worker : run'[w].pc = "none"
    BY <2>1, NoRunIsRun
  <2>4. ASSUME NEW w \in Worker  PROVE WorkerHas(w)'
    BY <2>3 DEF WorkerHas, TimerPcs, RunPcs, FilePcs
  <2>5. ASSUME NEW p \in Path  PROVE PathKept(p)'
    <3>1. Busy(p)' = {}
      BY <2>3 DEF Busy
    <3>2. Whole(p)'
      BY <2>1 DEF Whole
    <3> QED  BY <3>1, <3>2 DEF PathKept
  <2> QED  BY <2>2, <2>4, <2>5 DEF IndexInv
<1> QED  BY <1>1, <1>2, <1>3, <1>4, <1>5 DEF StopWatcher

\* What the workers have read and have yet to do to the rows fits the rows, under any
\* interleaving of runs, timers, writes, failures and restarts (indexer.go:92-182,
\* watcher.go:170-236).
THEOREM IndexInductive == IndexSpec => []IndexInv
<1>1. IndexInit => IndexInv
  <2> SUFFICES ASSUME IndexInit  PROVE IndexInv
    OBVIOUS
  <2>1. IndexTables
    <3>1. \A p \in Path : Len(Text[p]) \in Nat \ {0}
      BY ProjectIndexAssumption
    <3>2. /\ run \in [Worker -> Runs]
          /\ status \in [Job -> {"none", "running", "failed", "completed"}]
      BY NoRunIsRun DEF IndexInit
    <3>3. rows \in [Path -> Seq(Rows)]
      <4>1. <<>> \in Seq(Rows)
        OBVIOUS
      <4> QED  BY <4>1 DEF IndexInit
    <3>4. /\ version \in [Path -> Nat] /\ \A p \in Path : version[p] \in 1..Len(Text[p])
          /\ tracked \in [Path -> Nat] /\ \A p \in Path : tracked[p] <= Len(Text[p])
      BY <3>1 DEF IndexInit
    <3>5. /\ present \subseteq Path /\ armed \subseteq Path /\ disturbed \subseteq Path
          /\ torn \subseteq Path /\ indexing \in BOOLEAN
      BY DEF IndexInit
    <3> QED  BY <3>2, <3>3, <3>4, <3>5 DEF IndexTables
  <2>2. \A w \in Worker : run[w].pc = "none"
    BY NoRunIsRun DEF IndexInit
  <2>3. ASSUME NEW w \in Worker  PROVE WorkerHas(w)
    BY <2>2 DEF WorkerHas, TimerPcs, RunPcs, FilePcs
  <2>4. ASSUME NEW p \in Path  PROVE PathKept(p)
    <3>1. Busy(p) = {}
      BY <2>2 DEF Busy
    <3>2. Whole(p)
      BY DEF Whole, IndexInit
    <3> QED  BY <3>1, <3>2 DEF PathKept
  <2> QED  BY <2>1, <2>3, <2>4 DEF IndexInv
<1>2. IndexInv /\ [IndexNext]_indexVars => IndexInv'
  <2> SUFFICES ASSUME IndexInv, [IndexNext]_indexVars  PROVE IndexInv'
    OBVIOUS
  <2>1. CASE \/ handleIndexerIndex \/ handleIndexerGetFileContents
             \/ handleIndexerSearch \/ IndexReply
    BY <2>1, IndexRequestKeeps
  <2>2. ASSUME NEW w \in {Loop} \cup Job, IndexStep(w)  PROVE IndexInv'
    BY <2>2, RunStepKeeps
  <2>3. ASSUME NEW w \in Worker, FileStep(w)  PROVE IndexInv'
    BY <2>3, HashKeeps, CompareKeeps, ReadKeeps, DeleteKeeps, AddChunkKeeps, TrackKeeps
    DEF FileStep
  <2>4. ASSUME NEW t \in Timer, DropRows(t) \/ Forget(t)  PROVE IndexInv'
    BY <2>4, DropKeeps
  <2>5. CASE \/ \E t \in Timer : TimerFires(t)
             \/ \E p \in Path : WriteFile(p) \/ RemoveFile(p)
             \/ StopWatcher
             \/ Restart
    BY <2>5, WorldKeeps
  <2>6. CASE UNCHANGED indexVars
    BY <2>6 DEF indexVars, IndexInv, IndexTables, WorkerHas, PathKept, WorkerKeeps, Whole,
                Busy, File
  <2> QED  BY <2>1, <2>2, <2>3, <2>4, <2>5, <2>6 DEF IndexNext
<1> QED  BY <1>1, <1>2, PTL DEF IndexSpec

\* A file that the next run of Index will pass over as unchanged shows every line of its
\* text, in order, and none of another, and no chunk twice, whatever jobs, timers, writes
\* (of a text the file has had before, too), failures and restarts there were.  Excepted
\* are files whose rows a second worker or a failed statement has upset, and files whose
\* tracked hash is of another text than their rows (indexer.go:90, watcher.go:184).
THEOREM AlwaysIndexed == IndexSpec => [](IndexTypeOK /\ UnchangedIsIndexed)
<1>1. IndexInv => UnchangedIsIndexed
  <2> SUFFICES ASSUME IndexInv, NEW p \in present \ (disturbed \cup torn),
                      Busy(p) = {}, tracked[p] = version[p]
               PROVE  /\ Shows(Contents(rows[p]), version[p], Text[p][version[p]].lines)
                      /\ \A i, j \in DOMAIN rows[p] : i # j => rows[p][i] # rows[p][j]
    BY DEF UnchangedIsIndexed
  <2>1. p \in Path /\ version[p] \in 1..Len(Text[p])
    BY DEF IndexInv, IndexTables
  <2>2. rows[p] = RowsOf(ChunkFile(Text[p][version[p]]), version[p])
    BY <2>1 DEF IndexInv, PathKept, Whole, Pieces
  <2>3. IsFile(Text[p][version[p]])
    BY <2>1, ProjectIndexAssumption
  <2> QED  BY <2>2, <2>3, ChunksShow
<1>2. IndexInv => IndexTypeOK
  <2> SUFFICES ASSUME IndexInv  PROVE IndexTypeOK
    OBVIOUS
  <2>1. \A p \in Path : version[p] \in 1..Len(Text[p]) /\ tracked[p] \in 0..Len(Text[p])
    BY DEF IndexInv, IndexTables
  <2>2. \A w \in Worker : run[w].pc \in TimerPcs \cup RunPcs
    BY DEF IndexInv, IndexTables, Runs
  <2>3. \A j \in Job : status[j] \in {"none", "running", "failed", "completed"}
    BY DEF IndexInv, IndexTables
  <2> QED  BY <2>1, <2>2, <2>3 DEF IndexTypeOK, IndexInv, IndexTables, TimerPcs, RunPcs
<1> QED  BY <1>1, <1>2, IndexInductive, PTL
=============================================================================
