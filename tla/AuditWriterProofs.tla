-------------------------- MODULE AuditWriterProofs --------------------------
(***************************************************************************)
(* Proofs about AuditWriter for every number of records, of callers of     *)
(* Flush and of Close.  Each step of the writer moves records, for a given *)
(* sink, in one of five ways (accepted, taken, stored, lost or passed      *)
(* over);                                                                  *)
(* that IInv is kept and that the step is one of AuditLog both follow from *)
(* the move.                                                               *)
(***************************************************************************)
EXTENDS AuditWriter, TLAPS

-----------------------------------------------------------------------------
(* Sequences as sets.                                                      *)

\* The empty sequence holds nothing.
LEMMA ElementsEmpty == Elements(<<>>) = {}
  BY DEF Elements

\* Append adds one element.
LEMMA ElementsAppend ==
    ASSUME NEW S, NEW s \in Seq(S), NEW e \in S
    PROVE  Elements(Append(s, e)) = Elements(s) \cup {e}
<1>1. /\ Len(Append(s, e)) = Len(s) + 1
      /\ \A i \in 1..Len(s) : Append(s, e)[i] = s[i]
      /\ Append(s, e)[Len(s) + 1] = e
      /\ DOMAIN Append(s, e) = 1..(Len(s) + 1)
      /\ DOMAIN s = 1..Len(s)
      /\ Len(s) \in Nat
  OBVIOUS
<1>2. 1..(Len(s) + 1) = (1..Len(s)) \cup {Len(s) + 1}
  BY <1>1
<1>3. QED
  BY <1>1, <1>2 DEF Elements

\* Concatenation joins the elements.
LEMMA ElementsConcat ==
    ASSUME NEW S, NEW s \in Seq(S), NEW t \in Seq(S)
    PROVE  Elements(s \o t) = Elements(s) \cup Elements(t)
<1>1. /\ DOMAIN (s \o t) = 1..(Len(s) + Len(t))
      /\ DOMAIN s = 1..Len(s) /\ DOMAIN t = 1..Len(t)
      /\ Len(s) \in Nat /\ Len(t) \in Nat
      /\ \A i \in 1..Len(s) : (s \o t)[i] = s[i]
      /\ \A i \in 1..Len(t) : (s \o t)[Len(s) + i] = t[i]
  OBVIOUS
<1>2. ASSUME NEW i \in DOMAIN (s \o t) PROVE (s \o t)[i] \in Elements(s) \cup Elements(t)
  <2>1. CASE i <= Len(s)
    BY <1>1, <2>1 DEF Elements
  <2>2. CASE i > Len(s)
    <3>1. i - Len(s) \in 1..Len(t) /\ i = Len(s) + (i - Len(s))
      BY <1>1, <2>2
    <3>2. QED
      BY <1>1, <3>1 DEF Elements
  <2>3. QED
    BY <1>1, <2>1, <2>2
<1>3. ASSUME NEW e \in Elements(s) \cup Elements(t) PROVE e \in Elements(s \o t)
  <2>1. CASE e \in Elements(s)
    BY <1>1, <2>1 DEF Elements
  <2>2. CASE e \in Elements(t)
    <3>1. PICK i \in 1..Len(t) : e = t[i]
      BY <1>1, <2>2 DEF Elements
    <3>2. Len(s) + i \in 1..(Len(s) + Len(t))
      BY <1>1
    <3>3. QED
      BY <1>1, <3>1, <3>2 DEF Elements
  <2>3. QED
    BY <1>3, <2>1, <2>2
<1>4. QED
  BY <1>2, <1>3 DEF Elements

\* Appending a new element repeats nothing.
LEMMA DistinctAppend ==
    ASSUME NEW S, NEW s \in Seq(S), NEW e \in S, Distinct(s), e \notin Elements(s)
    PROVE  Distinct(Append(s, e))
<1>1. /\ \A i \in 1..Len(s) : Append(s, e)[i] = s[i]
      /\ Append(s, e)[Len(s) + 1] = e
      /\ DOMAIN Append(s, e) = 1..(Len(s) + 1)
      /\ DOMAIN s = 1..Len(s)
      /\ Len(s) \in Nat
  OBVIOUS
<1>2. QED
  BY <1>1 DEF Distinct, Elements

\* Concatenating sequences with no common element repeats nothing.
LEMMA DistinctConcat ==
    ASSUME NEW S, NEW s \in Seq(S), NEW t \in Seq(S), Distinct(s), Distinct(t),
           Elements(s) \cap Elements(t) = {}
    PROVE  Distinct(s \o t)
<1>1. /\ DOMAIN (s \o t) = 1..(Len(s) + Len(t))
      /\ DOMAIN s = 1..Len(s) /\ DOMAIN t = 1..Len(t)
      /\ Len(s) \in Nat /\ Len(t) \in Nat
      /\ \A i \in 1..Len(s) : (s \o t)[i] = s[i]
      /\ \A i \in 1..Len(t) : (s \o t)[Len(s) + i] = t[i]
  OBVIOUS
<1>2. \A i \in 1..(Len(s) + Len(t)) : i > Len(s) =>
        i - Len(s) \in 1..Len(t) /\ (s \o t)[i] = t[i - Len(s)]
  <2> TAKE i \in 1..(Len(s) + Len(t))
  <2>1. HAVE i > Len(s)
  <2>2. i - Len(s) \in 1..Len(t) /\ Len(s) + (i - Len(s)) = i
    BY <1>1, <2>1
  <2>3. QED
    BY <1>1, <2>2
<1>3. SUFFICES ASSUME NEW i \in DOMAIN (s \o t), NEW j \in DOMAIN (s \o t),
                      (s \o t)[i] = (s \o t)[j]
               PROVE  i = j
  BY DEF Distinct
<1>4. CASE i <= Len(s) /\ j <= Len(s)
  BY <1>1, <1>3, <1>4 DEF Distinct
<1>5. CASE i > Len(s) /\ j > Len(s)
  <2>1. i - Len(s) = j - Len(s)
    BY <1>1, <1>2, <1>3, <1>5 DEF Distinct
  <2>2. QED
    BY <1>1, <2>1
<1>6. ASSUME NEW m \in DOMAIN (s \o t), NEW n \in DOMAIN (s \o t),
             m <= Len(s), n > Len(s)
      PROVE  (s \o t)[m] # (s \o t)[n]
  <2>1. (s \o t)[m] \in Elements(s) /\ (s \o t)[n] \in Elements(t)
    BY <1>1, <1>2, <1>6 DEF Elements
  <2>2. QED
    BY <2>1
<1>7. QED
  BY <1>1, <1>3, <1>4, <1>5, <1>6

\* The rest of a batch is its next record and the rest after that.
LEMMA RestSplits ==
    ASSUME NEW S, NEW b \in Seq(S), NEW a \in Nat, a < Len(b)
    PROVE  {b[i] : i \in a+1 .. Len(b)} = {b[a + 1]} \cup {b[i] : i \in a+1+1 .. Len(b)}
<1>1. Len(b) \in Nat
  OBVIOUS
<1>2. a+1 .. Len(b) = {a + 1} \cup (a+1+1 .. Len(b))
  BY <1>1
<1>3. QED
  BY <1>2
-----------------------------------------------------------------------------
(* Types.                                                                  *)

\* Every step keeps the variables in their types.
LEMMA TypeStep == TypeOK /\ [Next]_vars => TypeOK'
<1> SUFFICES ASSUME TypeOK, [Next]_vars PROVE TypeOK'
  OBVIOUS
<1> USE DEF TypeOK, Places, Writing
<1>1. ASSUME NEW r \in Records, Write(r) PROVE TypeOK'
  <2>1. CASE closed
    BY <1>1, <2>1 DEF Write
  <2>2. CASE ~closed
    <3>1. Append(buf, r) \in Seq(Records) /\ Append(accepted, r) \in Seq(Records)
      OBVIOUS
    <3>2. QED
      BY <1>1, <2>2, <3>1 DEF Write
  <2>3. QED
    BY <2>1, <2>2
<1>2. CASE EndLoop
  BY <1>2 DEF EndLoop, Goto
<1>3. ASSUME NEW x \in Actors, Flush(x) PROVE TypeOK'
  <2>1. pc' \in [Actors -> Places]
    BY <1>3 DEF Flush, Goto
  <2>typ. batch' \in [Actors -> Seq(Records)] /\ at' \in [Actors -> Nat]
    BY <1>3 DEF Flush, Take
  <2>len. \A y \in Actors : at'[y] <= Len(batch'[y])
    BY <1>3 DEF Flush, Take
  <2>2. QED
    BY <1>3, <2>1, <2>typ, <2>len DEF Flush, Take
<1>4. ASSUME NEW x \in Actors, EncodeRecord(x) PROVE TypeOK'
  <2>1. batch[x][at[x] + 1] \in Records
    BY <1>4 DEF EncodeRecord
  <2>2. log' \in [Sinks -> Seq(Records)]
    BY <1>4, <2>1 DEF EncodeRecord, Sinks
  <2>3. at' \in [Actors -> Nat] /\ \A y \in Actors : at'[y] <= Len(batch'[y])
    BY <1>4 DEF EncodeRecord
  <2>4. QED
    BY <1>4, <2>2, <2>3 DEF EncodeRecord
<1>5. ASSUME NEW x \in Actors,
             \/ Encoded(x) \/ UseFile(x) \/ UseDB(x) \/ BeginTx(x) \/ BeginPanics(x)
      PROVE  TypeOK'
  BY <1>5 DEF Encoded, UseFile, UseDB, BeginTx, BeginPanics, Goto
<1>6. ASSUME NEW x \in Actors, EncodeFails(x) \/ SkipFile(x) PROVE TypeOK'
  <2>1. Unwritten(x) \subseteq Records
    BY <1>6 DEF Unwritten
  <2>2. lost' \in [Sinks -> SUBSET Records] /\ skipped' \in [Sinks -> SUBSET Records]
    BY <1>6, <2>1 DEF EncodeFails, SkipFile, Sinks
  <2>3. QED
    BY <1>6, <2>2 DEF EncodeFails, SkipFile, Goto
<1>7. ASSUME NEW x \in Actors, NEW from, Finish(x, from)
      PROVE  /\ pc' \in [Actors -> Places]
             /\ batch' \in [Actors -> Seq(Records)] /\ at' \in [Actors -> Nat]
             /\ \A y \in Actors : at'[y] <= Len(batch'[y])
  <2>1. pc' \in [Actors -> Places]
    BY <1>7 DEF Finish, Goto, AfterBatch
  <2>2. batch' \in [Actors -> Seq(Records)] /\ at' \in [Actors -> Nat]
    BY <1>7 DEF Finish
  <2>3. \A y \in Actors : at'[y] <= Len(batch'[y])
    BY <1>7 DEF Finish
  <2>4. QED
    BY <2>1, <2>2, <2>3
<1>8. ASSUME NEW x \in Actors, InsertBatch(x) \/ InsertFails(x) \/ SkipDB(x) PROVE TypeOK'
  <2>1. \E from : Finish(x, from)
    BY <1>8 DEF InsertBatch, InsertFails, SkipDB
  <2>2. Elements(batch[x]) \subseteq Records
    BY <1>8 DEF Elements
  <2>3. log' \in [Sinks -> Seq(Records)]
    <3>1. log["pg"] \o batch[x] \in Seq(Records)
      BY DEF Sinks
    <3>2. log' = log \/ log' = [log EXCEPT !["pg"] = log["pg"] \o batch[x]]
      BY <1>8 DEF InsertBatch, InsertFails, SkipDB
    <3>3. QED
      BY <3>1, <3>2
  <2>4. lost' \in [Sinks -> SUBSET Records] /\ skipped' \in [Sinks -> SUBSET Records]
    BY <1>8, <2>2 DEF InsertBatch, InsertFails, SkipDB, Sinks
  <2>5. UNCHANGED <<called, accepted, buf, closed, handle, panicked>>
    BY <1>8 DEF InsertBatch, InsertFails, SkipDB
  <2>6. QED
    BY <1>7, <2>1, <2>3, <2>4, <2>5
<1>9. ASSUME NEW x \in Actors, Close(x) PROVE TypeOK'
  <2>1. pc' \in [Actors -> Places]
    BY <1>9 DEF Close, Goto
  <2>typ. batch' \in [Actors -> Seq(Records)] /\ at' \in [Actors -> Nat]
    BY <1>9 DEF Close, Take
  <2>len. \A y \in Actors : at'[y] <= Len(batch'[y])
    BY <1>9 DEF Close, Take
  <2>2. QED
    BY <1>9, <2>1, <2>typ, <2>len DEF Close, Take
<1>10. ASSUME NEW x \in Actors, CloseAgain(x) \/ Join(x) PROVE TypeOK'
  BY <1>10 DEF CloseAgain, Join, Goto
<1>11. ASSUME NEW x \in Actors, CloseSinks(x) PROVE TypeOK'
  BY <1>11 DEF CloseSinks, CloseFile, ClearFile, CloseDB, ClearDB, SetHandle, Goto, Sinks
<1>12. CASE UNCHANGED vars
  BY <1>12 DEF vars
<1>13. QED
  BY <1>1, <1>2, <1>3, <1>4, <1>5, <1>6, <1>7, <1>8, <1>9, <1>10, <1>11, <1>12
     DEF Next, ActorStep, WriteAll

-----------------------------------------------------------------------------
(* The moves, as sink k sees them.                                         *)

\* Write took record r, which was never written before.
Accepted(k, r) ==
    /\ r \notin called
    /\ ~closed
    /\ called' = called \cup {r}
    /\ Elements(accepted)' = Elements(accepted) \cup {r}
    /\ Elements(buf)' = Elements(buf) \cup {r}
    /\ \A y \in Actors : Rest(k, y)' = Rest(k, y)
    /\ UNCHANGED <<log, lost, skipped, handle, pc, closed>>

\* Actor x, who held nothing, took the buffer.
Taken(k, x) ==
    /\ Rest(k, x) = {}
    /\ Rest(k, x)' = Elements(buf)
    /\ \A y \in Actors \ {x} : Rest(k, y)' = Rest(k, y)
    /\ Elements(buf)' = {}
    /\ UNCHANGED <<called, accepted, log, lost, skipped>>

\* Actor x stored the records in some, lost them or passed the sink over.
Moved(k, x, some) ==
    /\ some \subseteq Rest(k, x)
    /\ Rest(k, x)' = Rest(k, x) \ some
    /\ \A y \in Actors \ {x} : Rest(k, y)' = Rest(k, y)
    /\ UNCHANGED <<called, accepted, buf>>

Stored(k, x, some) ==
    /\ Moved(k, x, some)
    /\ Elements(log[k])' = Elements(log[k]) \cup some
    /\ lost[k]' = lost[k]
    /\ skipped[k]' = skipped[k]

Lost(k, x, some) ==
    /\ Moved(k, x, some)
    /\ lost[k]' = lost[k] \cup some
    /\ log[k]' = log[k]
    /\ skipped[k]' = skipped[k]

Skipped(k, x, some) ==
    /\ Moved(k, x, some)
    /\ handle[k] = "nil"
    /\ skipped[k]' = skipped[k] \cup some
    /\ log[k]' = log[k]
    /\ lost[k]' = lost[k]

\* One of the three.
Disposed(k, x, some) == Stored(k, x, some) \/ Lost(k, x, some) \/ Skipped(k, x, some)

\* Nothing moved, or a record was refused because the writer is closed.
Still(k) ==
    /\ called \subseteq called'
    /\ Elements(buf)' = Elements(buf)
    /\ \A y \in Actors : Rest(k, y)' = Rest(k, y)
    /\ accepted' = accepted
    /\ log[k]' = log[k]
    /\ lost[k]' = lost[k]
    /\ skipped[k]' = skipped[k]

\* What an actor holds depends only on its control state and its batch.
LEMMA RestFrame ==
    ASSUME NEW k, NEW y, pc'[y] = pc[y], batch'[y] = batch[y], at'[y] = at[y]
    PROVE  Rest(k, y)' = Rest(k, y)
  BY DEF Rest, Unwritten

\* A write moves its record into the buffer, for both sinks.
LEMMA WriteMoves ==
    ASSUME TypeOK, NEW k \in Sinks, NEW r \in Records, Write(r)
    PROVE  Accepted(k, r) \/ Still(k)
<1>1. \A y \in Actors : Rest(k, y)' = Rest(k, y)
  BY RestFrame DEF Write
<1>2. CASE closed
  BY <1>1, <1>2 DEF Write, Still
<1>3. CASE ~closed
  <2>1. /\ Elements(Append(buf, r)) = Elements(buf) \cup {r}
        /\ Elements(Append(accepted, r)) = Elements(accepted) \cup {r}
    BY ElementsAppend DEF TypeOK
  <2>2. QED
    BY <1>1, <1>3, <2>1 DEF Write, Accepted
<1>4. QED
  BY <1>2, <1>3

\* Flush and Close take the buffer.
LEMMA TakeMoves ==
    ASSUME TypeOK, NEW k \in Sinks, NEW x \in Actors, Flush(x) \/ Close(x)
    PROVE  Taken(k, x)
<1>1. /\ batch' = [batch EXCEPT ![x] = buf] /\ at' = [at EXCEPT ![x] = 0] /\ buf' = <<>>
      /\ UNCHANGED <<called, accepted, log, lost, skipped>>
      /\ pc[x] = "idle" /\ \A y \in Actors \ {x} : pc'[y] = pc[y]
      /\ buf = <<>> \/ pc'[x] \in {"jsonl", "join"}
  BY DEF Flush, Close, Take, Goto, TypeOK
<1>2. Rest(k, x) = {}
  BY <1>1 DEF Rest, Writing
<1>3. Rest(k, x)' = Elements(buf)
  <2>1. at'[x] = 0 /\ batch'[x] = buf
    BY <1>1 DEF TypeOK
  <2>2. DOMAIN buf = 1..Len(buf) /\ 0 + 1 = 1
    BY DEF TypeOK
  <2>3. CASE pc'[x] \in {"jsonl", "join"}
    BY <2>1, <2>2, <2>3 DEF Rest, Unwritten, Writing, Elements, Sinks
  <2>4. CASE buf = <<>>
    <3>1. Elements(buf) = {} /\ {buf[i] : i \in 0+1..Len(buf)} = {}
      BY <2>4, ElementsEmpty
    <3>2. QED
      BY <2>1, <3>1 DEF Rest, Unwritten
  <2>5. QED
    BY <1>1, <2>3, <2>4
<1>4. \A y \in Actors \ {x} : Rest(k, y)' = Rest(k, y)
  BY <1>1, RestFrame DEF TypeOK
<1>5. QED
  BY <1>1, <1>2, <1>3, <1>4, ElementsEmpty DEF Taken

\* One record goes from the batch to the file.
LEMMA EncodeMoves ==
    ASSUME TypeOK, Repeatless, NEW x \in Actors, EncodeRecord(x)
    PROVE  Stored("jsonl", x, {batch[x][at[x] + 1]}) /\ Still("pg")
<1> DEFINE b == batch[x]
           a == at[x]
<1>1. b \in Seq(Records) /\ a \in Nat /\ a < Len(b) /\ Len(b) \in Nat /\ DOMAIN b = 1..Len(b)
  BY DEF TypeOK, EncodeRecord
<1>2. b[a + 1] \in Records
  BY <1>1
<1>3. {b[i] : i \in a+1 .. Len(b)} = {b[a + 1]} \cup {b[i] : i \in a+1+1 .. Len(b)}
  BY <1>1, RestSplits
<1>4. b[a + 1] \notin {b[i] : i \in a+1+1 .. Len(b)}
  BY <1>1 DEF Repeatless, Distinct
<1>5. Rest("jsonl", x) = {b[i] : i \in a+1 .. Len(b)}
  BY DEF Rest, Unwritten, EncodeRecord
<1>6. Rest("jsonl", x)' = {b[i] : i \in a+1+1 .. Len(b)}
  <2>1. at'[x] = a + 1 /\ batch'[x] = b /\ pc'[x] = "encode"
    BY DEF EncodeRecord, TypeOK
  <2>2. QED
    BY <2>1 DEF Rest, Unwritten
<1>7. Rest("pg", x)' = Rest("pg", x)
  BY DEF Rest, EncodeRecord
<1>8. \A k \in Sinks : \A y \in Actors \ {x} : Rest(k, y)' = Rest(k, y)
  BY RestFrame DEF EncodeRecord, TypeOK
<1>9. Elements(log["jsonl"])' = Elements(log["jsonl"]) \cup {b[a + 1]}
  <2>1. log["jsonl"] \in Seq(Records)
    BY DEF TypeOK, Sinks
  <2>2. log'["jsonl"] = Append(log["jsonl"], b[a + 1])
    BY DEF EncodeRecord, TypeOK, Sinks
  <2>3. QED
    BY <1>2, <2>1, <2>2, ElementsAppend
<1>10. UNCHANGED <<called, accepted, buf, lost, skipped>> /\ log'["pg"] = log["pg"]
  BY DEF EncodeRecord, TypeOK, Sinks
<1>11. Stored("jsonl", x, {b[a + 1]})
  BY <1>3, <1>4, <1>5, <1>6, <1>8, <1>9, <1>10 DEF Stored, Moved, Sinks
<1>12. Still("pg")
  BY <1>7, <1>8, <1>10 DEF Still, Sinks
<1>13. QED
  BY <1>11, <1>12

\* The file loses what is left of the batch, or is passed over.
LEMMA FileMoves ==
    ASSUME TypeOK, NEW x \in Actors, EncodeFails(x) \/ SkipFile(x)
    PROVE  /\ \/ Lost("jsonl", x, Rest("jsonl", x))
              \/ Skipped("jsonl", x, Rest("jsonl", x))
           /\ Still("pg")
<1>1. pc[x] \in {"jsonl", "encode"} /\ pc'[x] = "pg" /\ batch' = batch /\ at' = at
  BY DEF EncodeFails, SkipFile, Goto, TypeOK
<1>2. Rest("jsonl", x) = Unwritten(x)
  BY <1>1 DEF Rest
<1>3. Rest("jsonl", x)' = {} /\ Rest("pg", x)' = Rest("pg", x)
  BY <1>1 DEF Rest, Writing
<1>4. \A k \in Sinks : \A y \in Actors \ {x} : Rest(k, y)' = Rest(k, y)
  BY RestFrame DEF EncodeFails, SkipFile, Goto, TypeOK
<1>5. /\ UNCHANGED <<called, accepted, buf, log>>
      /\ lost'["pg"] = lost["pg"] /\ skipped'["pg"] = skipped["pg"]
  BY DEF EncodeFails, SkipFile, TypeOK, Sinks
<1>6. Still("pg")
  BY <1>3, <1>4, <1>5 DEF Still, Sinks
<1>7. Moved("jsonl", x, Rest("jsonl", x))
  BY <1>3, <1>4, <1>5 DEF Moved, Sinks
<1>8. CASE EncodeFails(x)
  <2>1. lost'["jsonl"] = lost["jsonl"] \cup Rest("jsonl", x) /\ skipped' = skipped
    BY <1>2, <1>8 DEF EncodeFails, TypeOK, Sinks
  <2>2. QED
    BY <1>5, <1>6, <1>7, <2>1 DEF Lost
<1>9. CASE SkipFile(x)
  <2>1. /\ skipped'["jsonl"] = skipped["jsonl"] \cup Rest("jsonl", x) /\ lost' = lost
        /\ handle["jsonl"] = "nil"
    BY <1>2, <1>9 DEF SkipFile, TypeOK, Sinks
  <2>2. QED
    BY <1>5, <1>6, <1>7, <2>1 DEF Skipped
<1>10. QED
  BY <1>8, <1>9

\* The transaction stores the batch or loses it, or PostgreSQL is passed over.
LEMMA InsertMoves ==
    ASSUME TypeOK, NEW x \in Actors, InsertBatch(x) \/ InsertFails(x) \/ SkipDB(x)
    PROVE  Disposed("pg", x, Elements(batch[x])) /\ Still("jsonl")
<1>1. /\ pc[x] \in {"pg", "begin", "commit"} /\ pc'[x] \in {"idle", "done", "closing"}
      /\ \A y \in Actors \ {x} : pc'[y] = pc[y] /\ batch'[y] = batch[y] /\ at'[y] = at[y]
  BY DEF InsertBatch, InsertFails, SkipDB, Finish, Goto, AfterBatch, TypeOK
<1>2. /\ Rest("pg", x) = Elements(batch[x])
      /\ Rest("pg", x)' = {}
      /\ Rest("jsonl", x) = {}
      /\ Rest("jsonl", x)' = {}
  BY <1>1 DEF Rest, Writing
<1>3. \A k \in Sinks : \A y \in Actors \ {x} : Rest(k, y)' = Rest(k, y)
  BY <1>1, RestFrame
<1>4. /\ UNCHANGED <<called, accepted, buf>>
      /\ log'["jsonl"] = log["jsonl"] /\ lost'["jsonl"] = lost["jsonl"]
      /\ skipped'["jsonl"] = skipped["jsonl"]
  BY DEF InsertBatch, InsertFails, SkipDB, TypeOK, Sinks
<1>5. Still("jsonl")
  BY <1>2, <1>3, <1>4 DEF Still, Sinks
<1>6. Moved("pg", x, Elements(batch[x]))
  BY <1>2, <1>3, <1>4 DEF Moved, Sinks
<1>7. CASE InsertBatch(x)
  <2>1. log["pg"] \in Seq(Records) /\ batch[x] \in Seq(Records)
    BY DEF TypeOK, Sinks
  <2>2. log'["pg"] = log["pg"] \o batch[x] /\ UNCHANGED <<lost, skipped>>
    BY <1>7 DEF InsertBatch, TypeOK, Sinks
  <2>3. Elements(log["pg"])' = Elements(log["pg"]) \cup Elements(batch[x])
    BY <2>1, <2>2, ElementsConcat
  <2>4. QED
    BY <1>5, <1>6, <2>2, <2>3 DEF Disposed, Stored
<1>8. CASE InsertFails(x)
  <2>1. lost'["pg"] = lost["pg"] \cup Elements(batch[x]) /\ UNCHANGED <<log, skipped>>
    BY <1>8 DEF InsertFails, TypeOK, Sinks
  <2>2. QED
    BY <1>5, <1>6, <2>1 DEF Disposed, Lost
<1>9. CASE SkipDB(x)
  <2>1. /\ skipped'["pg"] = skipped["pg"] \cup Elements(batch[x]) /\ UNCHANGED <<log, lost>>
        /\ handle["pg"] = "nil"
    BY <1>9 DEF SkipDB, TypeOK, Sinks
  <2>2. QED
    BY <1>5, <1>6, <2>1 DEF Disposed, Skipped
<1>10. QED
  BY <1>7, <1>8, <1>9

\* The steps of an actor that move no record.
Moveless(x) ==
    \/ UseFile(x) \/ Encoded(x) \/ UseDB(x) \/ BeginTx(x) \/ BeginPanics(x)
    \/ CloseAgain(x) \/ Join(x) \/ CloseSinks(x)

\* They change control state only, and a batch they let go of is written.
LEMMA OtherMoves ==
    ASSUME TypeOK, NEW k \in Sinks,
           EndLoop \/ (\E x \in Actors : Moveless(x)) \/ UNCHANGED vars
    PROVE  Still(k)
<1>1. ASSUME NEW x \in Actors, Moveless(x) \/ (x = Loop /\ EndLoop), Rest(k, x)' = Rest(k, x)
      PROVE  Still(k)
  <2>1. /\ UNCHANGED <<called, accepted, buf, log, lost, skipped, batch, at>>
        /\ \A y \in Actors \ {x} : pc'[y] = pc[y]
    BY <1>1 DEF Moveless, UseFile, Encoded, UseDB, BeginTx, BeginPanics, CloseAgain, Join,
        CloseSinks, CloseFile, ClearFile, CloseDB, ClearDB, SetHandle, EndLoop, Goto, TypeOK
  <2>2. \A y \in Actors \ {x} : Rest(k, y)' = Rest(k, y)
    BY <2>1, RestFrame
  <2>3. QED
    BY <1>1, <2>1, <2>2 DEF Still
<1>2. ASSUME NEW x \in Actors, Join(x) PROVE Rest(k, x)' = Rest(k, x)
  <2>1. pc[x] = "join" /\ pc'[x] = IF batch[x] = <<>> THEN "closing" ELSE "jsonl"
    BY <1>2 DEF Join, Goto, TypeOK
  <2>2. batch' = batch /\ at' = at
    BY <1>2 DEF Join
  <2>3. CASE batch[x] = <<>>
    <3>1. Elements(batch[x]) = {} /\ Unwritten(x) = {}
      BY <2>3, ElementsEmpty DEF TypeOK, Unwritten
    <3>2. QED
      BY <2>1, <2>2, <2>3, <3>1 DEF Rest, Unwritten, Writing
  <2>4. CASE batch[x] # <<>>
    BY <2>1, <2>2, <2>4 DEF Rest, Unwritten, Writing
  <2>5. QED
    BY <2>3, <2>4
<1>3. ASSUME NEW x \in Actors, Encoded(x) PROVE Rest(k, x)' = Rest(k, x)
  <2>1. Unwritten(x) = {}
    BY <1>3 DEF Encoded, TypeOK, Unwritten
  <2>2. pc[x] = "encode" /\ pc'[x] = "pg" /\ batch' = batch /\ at' = at
    BY <1>3 DEF Encoded, Goto, TypeOK
  <2>3. QED
    BY <2>1, <2>2 DEF Rest, Writing
<1>4. ASSUME NEW x \in Actors, UseFile(x) \/ UseDB(x) \/ BeginTx(x) \/ BeginPanics(x)
      PROVE  Rest(k, x)' = Rest(k, x)
  <2>1. /\ batch' = batch /\ at' = at
        /\ \/ pc[x] = "jsonl" /\ pc'[x] = "encode"
           \/ pc[x] \in {"pg", "begin"} /\ pc'[x] \in {"begin", "commit"}
    BY <1>4 DEF UseFile, UseDB, BeginTx, BeginPanics, Goto, TypeOK
  <2>2. QED
    BY <2>1 DEF Rest, Unwritten, Writing
<1>5. ASSUME NEW x \in Actors, CloseAgain(x) \/ CloseSinks(x) \/ (x = Loop /\ EndLoop)
      PROVE  Rest(k, x)' = Rest(k, x)
  <2>1. /\ pc[x] \in {"idle", "closing", "fileClosed", "closingDB", "dbClosed"}
        /\ pc'[x] \in {"fileClosed", "closingDB", "dbClosed", "done"}
    BY <1>5 DEF CloseAgain, CloseSinks, CloseFile, ClearFile, CloseDB, ClearDB, SetHandle,
        EndLoop, Goto, TypeOK
  <2>2. QED
    BY <2>1 DEF Rest, Writing
<1>6. CASE UNCHANGED vars
  BY <1>6, RestFrame DEF vars, Still
<1>7. QED
  BY <1>1, <1>2, <1>3, <1>4, <1>5, <1>6 DEF Actors, Moveless

\* Hence every step is a move, for each sink.
LEMMA EveryStepMoves ==
    ASSUME TypeOK, Repeatless, [Next]_vars, NEW k \in Sinks
    PROVE  \/ \E r \in Records : Accepted(k, r)
           \/ \E x \in Actors : \/ Taken(k, x)
                              \/ \E some \in SUBSET Records : Disposed(k, x, some)
           \/ Still(k)
<1>1. ASSUME NEW r \in Records, Write(r) PROVE Accepted(k, r) \/ Still(k)
  BY <1>1, WriteMoves
<1>2. ASSUME NEW x \in Actors, Flush(x) \/ Close(x) PROVE Taken(k, x)
  BY <1>2, TakeMoves
<1>3. ASSUME NEW x \in Actors, EncodeRecord(x)
      PROVE  (\E some \in SUBSET Records : Disposed(k, x, some)) \/ Still(k)
  <2>1. batch[x][at[x] + 1] \in Records
    BY <1>3 DEF EncodeRecord, TypeOK
  <2>2. QED
    BY <1>3, <2>1, EncodeMoves DEF Sinks, Disposed
<1>4. ASSUME NEW x \in Actors, EncodeFails(x) \/ SkipFile(x)
      PROVE  (\E some \in SUBSET Records : Disposed(k, x, some)) \/ Still(k)
  <2>1. Rest("jsonl", x) \subseteq Records
    BY <1>4 DEF Rest, Unwritten, Elements, TypeOK
  <2>2. QED
    BY <1>4, <2>1, FileMoves DEF Sinks, Disposed
<1>5. ASSUME NEW x \in Actors, InsertBatch(x) \/ InsertFails(x) \/ SkipDB(x)
      PROVE  (\E some \in SUBSET Records : Disposed(k, x, some)) \/ Still(k)
  <2>1. Elements(batch[x]) \subseteq Records
    BY DEF Elements, TypeOK
  <2>2. Disposed("pg", x, Elements(batch[x])) /\ Still("jsonl")
    BY <1>5, InsertMoves
  <2>3. CASE k = "pg"
    BY <2>1, <2>2, <2>3 DEF Disposed
  <2>4. CASE k = "jsonl"
    BY <2>2, <2>4
  <2>5. QED
    BY <2>3, <2>4 DEF Sinks
<1>6. ASSUME NEW x \in Actors, Moveless(x) PROVE Still(k)
  BY <1>6, OtherMoves
<1>7. CASE EndLoop \/ UNCHANGED vars
  BY <1>7, OtherMoves
<1>8. QED
  BY <1>1, <1>2, <1>3, <1>4, <1>5, <1>6, <1>7 DEF Next, ActorStep, WriteAll, Moveless

-----------------------------------------------------------------------------
(* The invariant.                                                          *)

Known == Elements(accepted) \subseteq called

\* A record is stored, lost or passed over, not two of these.
AtMostOnce(k) ==
    /\ Elements(log[k]) \cap lost[k] = {}
    /\ (Elements(log[k]) \cup lost[k]) \cap skipped[k] = {}

\* A move leaves every accepted record in exactly one place.
LEMMA PlacesKept ==
    ASSUME NEW k \in Sinks, Placed(k), Apart(k), Known,
           \/ \E r \in Records : Accepted(k, r)
           \/ \E x \in Actors : \/ Taken(k, x)
                              \/ \E some \in SUBSET Records : Disposed(k, x, some)
           \/ Still(k)
    PROVE  Placed(k)' /\ Apart(k)' /\ Known'
<1>1. ASSUME NEW r \in Records, Accepted(k, r) PROVE Placed(k)' /\ Apart(k)' /\ Known'
  <2>1. r \notin Elements(accepted)
    BY <1>1 DEF Accepted, Known
  <2>2. Settled(k)' = Settled(k) /\ AtMostOnce(k)'
    BY <1>1 DEF Accepted, Settled, Apart, AtMostOnce
  <2>3. r \notin Elements(buf) \cup Settled(k) /\ \A y \in Actors : r \notin Rest(k, y)
    BY <2>1 DEF Placed
  <2>4. Placed(k)'
    BY <1>1, <2>2 DEF Accepted, Placed
  <2>5. Apart(k)'
    BY <1>1, <2>2, <2>3 DEF Accepted, Apart, AtMostOnce
  <2>6. QED
    BY <1>1, <2>4, <2>5 DEF Accepted, Known
<1>2. ASSUME NEW x \in Actors, Taken(k, x) PROVE Placed(k)' /\ Apart(k)' /\ Known'
  <2>1. Settled(k)' = Settled(k) /\ AtMostOnce(k)'
    BY <1>2 DEF Taken, Settled, Apart, AtMostOnce
  <2>2. Placed(k)'
    BY <1>2, <2>1 DEF Taken, Placed
  <2>3. Apart(k)'
    BY <1>2, <2>1 DEF Taken, Apart, AtMostOnce
  <2>4. QED
    BY <1>2, <2>2, <2>3 DEF Taken, Known
<1>3. ASSUME NEW x \in Actors, NEW some \in SUBSET Records, Disposed(k, x, some)
      PROVE  Placed(k)' /\ Apart(k)' /\ Known'
  <2>1. Settled(k)' = Settled(k) \cup some
    BY <1>3 DEF Disposed, Stored, Lost, Skipped, Settled
  <2>2. some \cap Settled(k) = {} /\ some \cap Elements(buf) = {}
    BY <1>3 DEF Disposed, Stored, Lost, Skipped, Moved, Apart, AtMostOnce
  <2>3. AtMostOnce(k)'
    BY <1>3, <2>2 DEF Disposed, Stored, Lost, Skipped, Settled, Apart, AtMostOnce
  <2>4. Placed(k)'
    BY <1>3, <2>1 DEF Disposed, Stored, Lost, Skipped, Moved, Placed
  <2>5. Apart(k)'
    <3>1. \A y \in Actors \ {x} : some \cap Rest(k, y) = {}
      BY <1>3 DEF Disposed, Stored, Lost, Skipped, Moved, Apart, AtMostOnce
    <3>2. QED
      BY <1>3, <2>1, <2>2, <2>3, <3>1 DEF Disposed, Stored, Lost, Skipped, Moved, Apart, AtMostOnce
  <2>6. QED
    BY <1>3, <2>4, <2>5 DEF Disposed, Stored, Lost, Skipped, Moved, Known
<1>4. CASE Still(k)
  <2>1. Settled(k)' = Settled(k) /\ AtMostOnce(k)'
    BY <1>4 DEF Still, Settled, Apart, AtMostOnce
  <2>2. Placed(k)' /\ Apart(k)'
    BY <1>4, <2>1 DEF Still, Placed, Apart, AtMostOnce
  <2>3. QED
    BY <1>4, <2>2 DEF Still, Known
<1>5. QED
  BY <1>1, <1>2, <1>3, <1>4

\* No step repeats a record in the buffer, in a batch or in a sink.
LEMMA RepeatlessStep ==
    ASSUME IInv, [Next]_vars
    PROVE  Repeatless' /\ NoDuplicate'
<1> USE DEF IInv
<1>1. ASSUME NEW r \in Records, Write(r) PROVE Repeatless' /\ NoDuplicate'
  <2>1. r \notin Elements(buf)
    BY <1>1 DEF Write, Placed, Sinks
  <2>2. Distinct(Append(buf, r))
    BY <2>1, DistinctAppend DEF TypeOK, Repeatless
  <2>3. QED
    BY <1>1, <2>2 DEF Write, Repeatless, NoDuplicate
<1>2. ASSUME NEW x \in Actors, Flush(x) \/ Close(x) PROVE Repeatless' /\ NoDuplicate'
  <2>1. /\ batch' = [batch EXCEPT ![x] = buf] /\ buf' = <<>> /\ log' = log
    BY <1>2 DEF Flush, Close, Take
  <2>2. Distinct(<<>>)
    BY DEF Distinct
  <2>3. QED
    BY <2>1, <2>2 DEF Repeatless, NoDuplicate, TypeOK
<1>3. ASSUME NEW x \in Actors, EncodeRecord(x) PROVE Repeatless' /\ NoDuplicate'
  <2>1. batch[x][at[x] + 1] \in Records /\ batch[x][at[x] + 1] \notin Elements(log["jsonl"])
    <3>1. Stored("jsonl", x, {batch[x][at[x] + 1]})
      BY <1>3, EncodeMoves
    <3>2. batch[x][at[x] + 1] \in Records
      BY <1>3 DEF EncodeRecord, TypeOK
    <3>3. QED
      BY <3>1, <3>2 DEF Stored, Moved, Apart, Settled, Sinks
  <2>2. Distinct(Append(log["jsonl"], batch[x][at[x] + 1]))
    BY <2>1, DistinctAppend DEF TypeOK, NoDuplicate, Sinks
  <2>3. /\ log'["jsonl"] = Append(log["jsonl"], batch[x][at[x] + 1])
        /\ log'["pg"] = log["pg"]
        /\ buf' = buf /\ batch' = batch
    BY <1>3 DEF EncodeRecord, TypeOK, Sinks
  <2>4. QED
    BY <2>2, <2>3 DEF Repeatless, NoDuplicate, Sinks
<1>4. ASSUME NEW x \in Actors, InsertBatch(x) PROVE Repeatless' /\ NoDuplicate'
  <2>1. Elements(log["pg"]) \cap Elements(batch[x]) = {}
    <3>1. Rest("pg", x) = Elements(batch[x])
      BY <1>4 DEF InsertBatch, Finish, Goto, Rest, Writing
    <3>2. QED
      BY <3>1 DEF Apart, Settled, Sinks
  <2>2. Distinct(log["pg"] \o batch[x])
    BY <2>1, DistinctConcat DEF TypeOK, NoDuplicate, Repeatless, Sinks
  <2>3. /\ log'["pg"] = log["pg"] \o batch[x]
        /\ log'["jsonl"] = log["jsonl"]
        /\ buf' = buf /\ batch' = [batch EXCEPT ![x] = <<>>]
    BY <1>4 DEF InsertBatch, Finish, TypeOK, Sinks
  <2>4. Distinct(<<>>)
    BY DEF Distinct
  <2>5. QED
    BY <2>2, <2>3, <2>4 DEF Repeatless, NoDuplicate, Sinks, TypeOK
<1>5. ASSUME NEW x \in Actors, InsertFails(x) \/ SkipDB(x) PROVE Repeatless' /\ NoDuplicate'
  <2>1. Distinct(<<>>)
    BY DEF Distinct
  <2>2. QED
    BY <1>5, <2>1 DEF InsertFails, SkipDB, Finish, Repeatless, NoDuplicate, TypeOK
<1>6. ASSUME UNCHANGED <<buf, batch, log>> PROVE Repeatless' /\ NoDuplicate'
  BY <1>6 DEF Repeatless, NoDuplicate
<1>7. ASSUME NEW x \in Actors, Moveless(x) \/ EncodeFails(x) \/ SkipFile(x)
      PROVE  UNCHANGED <<buf, batch, log>>
  BY <1>7 DEF Moveless, UseFile, Encoded, UseDB, BeginTx, BeginPanics, CloseAgain, Join,
      CloseSinks, CloseFile, ClearFile, CloseDB, ClearDB, SetHandle, EncodeFails, SkipFile
<1>8. CASE EndLoop \/ UNCHANGED vars
  BY <1>6, <1>8 DEF EndLoop, vars
<1>9. QED
  BY <1>1, <1>2, <1>3, <1>4, <1>5, <1>6, <1>7, <1>8 DEF Next, ActorStep, WriteAll, Moveless

\* What a step of writeAll does to the control state: the field is tested, the batch
\* goes from the file to PostgreSQL, and the actor is through with it.
LEMMA WriteAllFrame ==
    ASSUME TypeOK, NEW x \in Actors, WriteAll(x)
    PROVE  /\ UNCHANGED <<buf, closed, handle, accepted, called>>
           /\ pc[x] \in Writing
           /\ \/ pc' = pc
              \/ \E to \in Writing : pc' = [pc EXCEPT ![x] = to]
              \/ pc' = [pc EXCEPT ![x] = AfterBatch(x)]
BY DEF WriteAll, SkipFile, UseFile, EncodeRecord, Encoded, EncodeFails, SkipDB, UseDB, BeginTx,
       BeginPanics, InsertBatch, InsertFails, Finish, Goto, Writing

\* The steps by which Close closes the sinks and clears their fields.
LEMMA CloseSinksFrame ==
    ASSUME TypeOK, NEW x \in Actors, CloseSinks(x)
    PROVE  /\ UNCHANGED <<buf, closed, accepted, called>>
           /\ \/ /\ pc[x] = "closing" /\ pc' = [pc EXCEPT ![x] = "fileClosed"]
                 /\ handle' = [handle EXCEPT !["jsonl"] = "closed"]
              \/ /\ pc[x] = "fileClosed" /\ pc' = [pc EXCEPT ![x] = "closingDB"]
                 /\ handle' = [handle EXCEPT !["jsonl"] = "nil"]
              \/ /\ pc[x] = "closingDB" /\ pc' = [pc EXCEPT ![x] = "dbClosed"]
                 /\ handle' = [handle EXCEPT !["pg"] = "closed"]
              \/ /\ pc[x] = "dbClosed" /\ pc' = [pc EXCEPT ![x] = "done"]
                 /\ handle' = [handle EXCEPT !["pg"] = "nil"]
BY DEF CloseSinks, CloseFile, ClearFile, CloseDB, ClearDB, SetHandle, Goto

\* After Close nothing enters the buffer, and a sink is only shut after Close.
LEMMA ClosingStep ==
    ASSUME TypeOK, Closing, [Next]_vars
    PROVE  Closing'
<1>1. ASSUME NEW r \in Records, Write(r) PROVE Closing'
  BY <1>1 DEF Write, Closing
<1>2. ASSUME NEW x \in Actors, Close(x) PROVE Closing'
  BY <1>2 DEF Close, Goto, Take, Closing, TypeOK
<1>3. ASSUME NEW x \in Actors, Flush(x) PROVE Closing'
  <2>1. /\ buf' = <<>> /\ UNCHANGED <<closed, handle>>
        /\ \E to \in {"idle", "jsonl", "done"} : pc' = [pc EXCEPT ![x] = to]
        /\ x \notin Closers
    BY <1>3, AuditAssumption DEF Flush, Goto, Take
  <2>2. QED
    BY <2>1 DEF Closing, TypeOK
<1>4. ASSUME NEW x \in Actors, WriteAll(x) PROVE Closing'
  <2>1. UNCHANGED <<buf, closed, handle>> /\ pc[x] \in Writing
    BY <1>4, WriteAllFrame
  <2>2. CASE pc' = pc
    BY <2>1, <2>2 DEF Closing
  <2>3. ASSUME NEW to \in Writing \cup {AfterBatch(x)}, pc' = [pc EXCEPT ![x] = to] PROVE Closing'
    <3>1. x \in Closers \/ to \in Writing \cup {"idle", "done"}
      BY DEF AfterBatch, Actors
    <3>2. QED
      BY <2>1, <2>3, <3>1 DEF Closing, TypeOK, Writing
  <2>4. QED
    BY <1>4, <2>2, <2>3, WriteAllFrame
<1>5. ASSUME NEW x \in Actors, CloseAgain(x) \/ Join(x) PROVE Closing'
  <2>1. /\ UNCHANGED <<buf, closed, handle>> /\ closed /\ x \in Closers
        /\ \E to \in {"done", "closing", "jsonl"} : pc' = [pc EXCEPT ![x] = to]
    BY <1>5 DEF CloseAgain, Join, Goto, Closing
  <2>2. QED
    BY <2>1 DEF Closing, TypeOK
<1>6. ASSUME NEW x \in Actors, CloseSinks(x) PROVE Closing'
  <2>1. /\ UNCHANGED <<buf, closed>> /\ closed /\ x \in Closers
        /\ \E to \in {"fileClosed", "closingDB", "dbClosed", "done"} : pc' = [pc EXCEPT ![x] = to]
    BY <1>6, CloseSinksFrame DEF Closing
  <2>2. QED
    BY <2>1 DEF Closing, TypeOK
<1>7. ASSUME EndLoop PROVE Closing'
  BY <1>7, AuditAssumption DEF EndLoop, Goto, Closing, TypeOK
<1>8. ASSUME UNCHANGED vars PROVE Closing'
  BY <1>8 DEF vars, Closing
<1>9. QED
  BY <1>1, <1>2, <1>3, <1>4, <1>5, <1>6, <1>7, <1>8 DEF Next, ActorStep

\* What may be under way, step by step.
LEMMA OneAtATimeStep ==
    ASSUME TypeOK, Closing, OneAtATime, [Next]_vars
    PROVE  OneAtATime'
<1> USE AuditAssumption
<1>1. ASSUME NEW x \in Actors, Close(x) PROVE OneAtATime'
  <2>1. x \in Closers /\ pc' = [pc EXCEPT ![x] = "join"] /\ \A c \in Closers : pc[c] = "idle"
    BY <1>1 DEF Close, Goto, Closing
  <2>2. QED
    BY <2>1 DEF OneAtATime, TypeOK, Actors, Writing
<1>2. ASSUME NEW x \in Actors, x \notin Closers, Flush(x) \/ WriteAll(x)
      PROVE  OneAtATime'
  <2>1. pc' = pc \/ \E to : pc' = [pc EXCEPT ![x] = to]
    BY <1>2, WriteAllFrame DEF Flush, Goto
  <2>2. x = Loop => pc[Loop] # "done"
    BY <1>2, WriteAllFrame DEF Flush, Goto, Writing
  <2>3. QED
    BY <1>2, <2>1, <2>2 DEF OneAtATime, TypeOK, Actors
<1>3. ASSUME NEW x \in Closers, x \in Actors,
             WriteAll(x) \/ CloseAgain(x) \/ Join(x) \/ CloseSinks(x)
      PROVE  OneAtATime'
  <2>1. \/ pc' = pc
        \/ \E to : /\ pc' = [pc EXCEPT ![x] = to]
                   /\ to = "done" \/ pc[x] \notin {"idle", "done"}
                   /\ to \in Writing => pc[x] \in Writing \/ pc[Loop] = "done"
    <3>1. CASE WriteAll(x)
      <4>1. pc[x] \notin {"idle", "done"} /\ pc[x] \in Writing
        BY <1>3, <3>1, WriteAllFrame DEF Writing
      <4>2. QED
        BY <1>3, <3>1, <4>1, WriteAllFrame
    <3>2. CASE CloseAgain(x) \/ Join(x)
      BY <3>2 DEF CloseAgain, Join, Goto, Writing
    <3>3. CASE CloseSinks(x)
      BY <1>3, <3>3, CloseSinksFrame DEF Writing
    <3>4. QED
      BY <1>3, <3>1, <3>2, <3>3
  <2>2. CASE pc' = pc
    BY <2>2 DEF OneAtATime
  <2>3. QED
    BY <1>3, <2>1, <2>2 DEF OneAtATime, TypeOK, Actors
<1>4. ASSUME EndLoop PROVE OneAtATime'
  BY <1>4 DEF EndLoop, Goto, OneAtATime, TypeOK, Actors
<1>5. ASSUME UNCHANGED pc PROVE OneAtATime'
  BY <1>5 DEF OneAtATime
<1>6. ASSUME NEW r \in Records, Write(r) PROVE OneAtATime'
  BY <1>5, <1>6 DEF Write
<1>7. ASSUME NEW x \in Actors, CloseAgain(x) \/ Join(x) \/ CloseSinks(x)
      PROVE  x \in Closers
  BY <1>7, CloseSinksFrame DEF CloseAgain, Join, Goto, Closing
<1>8. ASSUME NEW x \in Actors, Flush(x) PROVE x \notin Closers
  BY <1>8 DEF Flush
<1>9. QED
  BY <1>1, <1>2, <1>3, <1>4, <1>5, <1>6, <1>7, <1>8 DEF Next, ActorStep, vars

\* The sinks are what the place of the Close under way says.
LEMMA HandlesStep ==
    ASSUME TypeOK, Closing, OneAtATime, Handles, [Next]_vars
    PROVE  Handles'
<1> USE AuditAssumption
<1>1. ASSUME NEW x \in Actors, Close(x) PROVE Handles'
  <2>1. /\ x \in Closers /\ pc' = [pc EXCEPT ![x] = "join"] /\ handle' = handle
        /\ \A c \in Closers : pc[c] = "idle"
        /\ \A k \in Sinks : handle[k] = "open"
    BY <1>1 DEF Close, Goto, Closing
  <2>2. QED
    BY <2>1 DEF Handles, TypeOK, Sinks, Actors
<1>2. ASSUME NEW x \in Actors, x \notin Closers, handle' = handle,
             pc' = pc \/ \E to : pc' = [pc EXCEPT ![x] = to]
      PROVE  Handles'
  BY <1>2 DEF Handles, TypeOK, Actors
<1>3. ASSUME NEW x \in Closers, x \in Actors, WriteAll(x) \/ Join(x) PROVE Handles'
  <2>1. /\ handle' = handle
        /\ pc[x] \in Writing \cup {"join"}
        /\ pc' = pc \/ \E to \in Writing \cup {"closing"} : pc' = [pc EXCEPT ![x] = to]
    BY <1>3, WriteAllFrame DEF Join, Goto, AfterBatch, Writing
  <2>2. CASE pc' = pc
    BY <2>1, <2>2 DEF Handles
  <2>3. QED
    BY <1>3, <2>1, <2>2 DEF Handles, TypeOK, Actors, Writing
<1>4. ASSUME NEW x \in Closers, x \in Actors, CloseAgain(x) PROVE Handles'
  BY <1>4 DEF CloseAgain, Goto, Handles, TypeOK, Actors
<1>5. ASSUME NEW x \in Closers, x \in Actors, CloseSinks(x) PROVE Handles'
  <2>1. pc[x] \notin {"idle", "done"} /\ \E to : pc' = [pc EXCEPT ![x] = to]
    BY <1>5, CloseSinksFrame
  <2>2. \A d \in Closers \ {x} : pc'[d] = pc[d] /\ pc[d] \in {"idle", "done"}
    BY <1>5, <2>1 DEF OneAtATime, TypeOK, Actors
  <2>3. /\ pc \in [Actors -> Places] /\ "jsonl" \in Sinks /\ "pg" \in Sinks
        /\ handle \in [Sinks -> {"open", "closed", "nil"}]
    BY DEF TypeOK, Sinks
  <2>4. /\ handle["jsonl"] = IF pc[x] \in {"closingDB", "dbClosed"} THEN "nil"
                             ELSE IF pc[x] = "fileClosed" THEN "closed" ELSE "open"
        /\ handle["pg"] = IF pc[x] = "dbClosed" THEN "closed" ELSE "open"
    BY <1>5, <2>1 DEF Handles
  <2>5. pc'[x] # "done" =>
            /\ handle'["jsonl"] = IF pc'[x] \in {"closingDB", "dbClosed"} THEN "nil"
                                  ELSE IF pc'[x] = "fileClosed" THEN "closed" ELSE "open"
            /\ handle'["pg"] = IF pc'[x] = "dbClosed" THEN "closed" ELSE "open"
    <3>1. CASE pc[x] = "closing" /\ pc' = [pc EXCEPT ![x] = "fileClosed"]
               /\ handle' = [handle EXCEPT !["jsonl"] = "closed"]
      BY <1>5, <2>3, <2>4, <3>1
    <3>2. CASE pc[x] = "fileClosed" /\ pc' = [pc EXCEPT ![x] = "closingDB"]
               /\ handle' = [handle EXCEPT !["jsonl"] = "nil"]
      BY <1>5, <2>3, <2>4, <3>2
    <3>3. CASE pc[x] = "closingDB" /\ pc' = [pc EXCEPT ![x] = "dbClosed"]
               /\ handle' = [handle EXCEPT !["pg"] = "closed"]
      BY <1>5, <2>3, <2>4, <3>3
    <3>4. CASE pc[x] = "dbClosed" /\ pc' = [pc EXCEPT ![x] = "done"]
      BY <1>5, <2>3, <3>4
    <3>5. QED
      BY <1>5, <3>1, <3>2, <3>3, <3>4, CloseSinksFrame
  <2>6. QED
    BY <2>2, <2>5 DEF Handles
<1>6. ASSUME UNCHANGED <<pc, handle>> PROVE Handles'
  BY <1>6 DEF Handles
<1>7. ASSUME NEW x \in Actors, CloseAgain(x) \/ Join(x) \/ CloseSinks(x)
      PROVE  x \in Closers
  BY <1>7, CloseSinksFrame DEF CloseAgain, Join, Goto, Closing
<1>8. ASSUME NEW x \in Actors, Flush(x) PROVE Handles'
  BY <1>2, <1>8 DEF Flush, Goto
<1>9. ASSUME NEW x \in Actors, x \notin Closers, WriteAll(x) PROVE Handles'
  BY <1>2, <1>9, WriteAllFrame
<1>10. CASE EndLoop
  BY <1>2, <1>10 DEF EndLoop, Goto, Actors
<1>11. CASE (\E r \in Records : Write(r)) \/ UNCHANGED vars
  BY <1>6, <1>11 DEF Write, vars
<1>12. QED
  BY <1>1, <1>3, <1>4, <1>5, <1>7, <1>8, <1>9, <1>10, <1>11 DEF Next, ActorStep

\* A sink whose field was cleared stays so.
LEMMA ClearedStays ==
    ASSUME TypeOK, Closing, Handles, [Next]_vars, NEW k \in Sinks, handle[k] = "nil"
    PROVE  handle'[k] = "nil"
<1>1. ASSUME NEW x \in Actors, CloseSinks(x) PROVE handle'[k] = "nil"
  <2>1. x \in Closers
    BY <1>1, CloseSinksFrame DEF Closing
  <2>2. QED
    BY <1>1, <2>1, CloseSinksFrame DEF Handles, TypeOK, Sinks
<1>2. ASSUME NEW x \in Actors, WriteAll(x) PROVE handle' = handle
  BY <1>2, WriteAllFrame
<1>3. QED
  BY <1>1, <1>2 DEF Next, ActorStep, Write, EndLoop, Flush, Close, CloseAgain, Join, vars

\* IInv is inductive.
THEOREM Inductive == Spec => []IInv
<1>1. Init => IInv
  <2> SUFFICES ASSUME Init PROVE IInv
    OBVIOUS
  <2>1. TypeOK /\ Closing /\ OneAtATime /\ Handles
    <3>1. TypeOK
      <4>1. <<>> \in Seq(Records) /\ Len(<<>>) = 0 /\ {} \subseteq Records
        OBVIOUS
      <4>2. /\ log \in [Sinks -> Seq(Records)] /\ lost \in [Sinks -> SUBSET Records]
            /\ skipped \in [Sinks -> SUBSET Records]
            /\ handle \in [Sinks -> {"open", "closed", "nil"}] /\ panicked \in BOOLEAN
        BY <4>1 DEF Init, Sinks
      <4>3. /\ called \subseteq Records /\ accepted \in Seq(Records)
            /\ buf \in Seq(Records) /\ closed \in BOOLEAN
        BY <4>1 DEF Init
      <4>4. /\ pc \in [Actors -> Places]
            /\ batch \in [Actors -> Seq(Records)]
            /\ at \in [Actors -> Nat]
            /\ \A x \in Actors : at[x] <= Len(batch[x])
        BY <4>1 DEF Init, Places
      <4>5. QED
        BY <4>2, <4>3, <4>4 DEF TypeOK
    <3>2. Closing
      <4>1. \A x \in Closers : x \in Actors /\ pc[x] = "idle"
        BY DEF Init, Actors
      <4>2. QED
        BY <4>1 DEF Init, Closing
    <3>3. OneAtATime /\ Handles
      BY DEF Init, OneAtATime, Handles, Actors, Writing
    <3>4. QED
      BY <3>1, <3>2, <3>3
  <2>2. NoDuplicate /\ Repeatless
    BY DEF Init, NoDuplicate, Repeatless, Distinct
  <2>3. \A k \in Sinks, x \in Actors : Rest(k, x) = {}
    BY DEF Init, Rest, Writing, Elements
  <2>4. \A k \in Sinks : Placed(k) /\ Apart(k) /\ Known
    BY <2>3, ElementsEmpty DEF Init, Placed, Apart, Settled, Known
  <2>5. QED
    BY <2>1, <2>2, <2>4 DEF IInv, Known, Sinks
<1>2. IInv /\ [Next]_vars => IInv'
  <2> SUFFICES ASSUME IInv, [Next]_vars PROVE IInv'
    OBVIOUS
  <2>1. TypeOK'
    BY TypeStep DEF IInv
  <2>2. Repeatless' /\ NoDuplicate'
    BY RepeatlessStep
  <2>3. Closing' /\ OneAtATime' /\ Handles'
    BY ClosingStep, OneAtATimeStep, HandlesStep DEF IInv
  <2>4. \A k \in Sinks : Placed(k)' /\ Apart(k)' /\ Known'
    BY EveryStepMoves, PlacesKept DEF IInv, Known
  <2>5. QED
    BY <2>1, <2>2, <2>3, <2>4 DEF IInv, Known, Sinks
<1>3. QED
  BY <1>1, <1>2, PTL DEF Spec

-----------------------------------------------------------------------------
(* The promise.                                                            *)

\* Every state variable has its type.
THEOREM TypeCorrect == Spec => []TypeOK
<1>1. IInv => TypeOK
  BY DEF IInv
<1>2. QED
  BY <1>1, Inductive, PTL

\* No sink holds a record twice, however Flush, the loop and Close interleave.
THEOREM WrittenOnce == Spec => []NoDuplicate
<1>1. IInv => NoDuplicate
  BY DEF IInv
<1>2. QED
  BY <1>1, Inductive, PTL

\* Once Close is over, it is over for good.
LEMMA OverStays ==
    ASSUME IInv, [Next]_vars, Over
    PROVE  Over'
<1>1. closed /\ buf = <<>> /\ \A x \in Actors : pc[x] \notin {"join"} \cup Writing
  BY DEF Over, InHand, IInv, Closing, Sinks
<1>2. \A k \in Sinks : handle'[k] = "nil"
  BY ClearedStays DEF IInv, Over
<1>3. \A y \in Actors : pc'[y] = pc[y] \/ pc'[y] \notin {"join"} \cup Writing
  <2>1. ASSUME NEW x \in Actors, Flush(x)
        PROVE  \A y \in Actors : pc'[y] = pc[y] \/ pc'[y] \in {"idle", "done"}
    BY <1>1, <2>1 DEF Flush, Goto, IInv, TypeOK
  <2>2. ASSUME NEW x \in Actors, CloseAgain(x)
        PROVE  \A y \in Actors : pc'[y] = pc[y] \/ pc'[y] = "done"
    BY <2>2 DEF CloseAgain, Goto, IInv, TypeOK
  <2>3. ASSUME NEW x \in Actors, CloseSinks(x)
        PROVE  \A y \in Actors :
                    pc'[y] = pc[y] \/ pc'[y] \in {"fileClosed", "closingDB", "dbClosed", "done"}
    BY <2>3, CloseSinksFrame DEF IInv, TypeOK
  <2>4. ASSUME NEW x \in Actors PROVE ~(WriteAll(x) \/ Close(x) \/ Join(x))
    BY <1>1, WriteAllFrame DEF Goto, Close, Join, IInv
  <2>5. ASSUME EndLoop
        PROVE  \A y \in Actors : pc'[y] = pc[y] \/ pc'[y] = "done"
    BY <2>5 DEF EndLoop, Goto, IInv, TypeOK
  <2>6. ASSUME UNCHANGED pc PROVE \A y \in Actors : pc'[y] = pc[y]
    BY <2>6
  <2>7. QED
    BY <2>1, <2>2, <2>3, <2>4, <2>5, <2>6 DEF Next, ActorStep, Write, vars, Writing
<1>4. QED
  BY <1>1, <1>2, <1>3 DEF Over, InHand

\* What the abstract log of sink k does in a step of the writer.
LEMMA StepOfLog ==
    ASSUME IInv, IInv', [Next]_vars, NEW k \in Sinks
    PROVE  \/ \E r \in Records :
                /\ handle[k] # "nil"
                /\ r \notin Elements(accepted)
                /\ Elements(accepted)' = Elements(accepted) \cup {r}
                /\ UNCHANGED <<Elements(log[k]), lost[k], skipped[k], handle[k], Over>>
           \/ /\ Elements(accepted)' = Elements(accepted)
              /\ \E some \in SUBSET Records :
                    /\ some \subseteq Elements(accepted) \ Settled(k)
                    /\ \/ /\ Elements(log[k])' = Elements(log[k]) \cup some
                          /\ UNCHANGED <<lost[k], skipped[k]>>
                       \/ /\ lost[k]' = lost[k] \cup some
                          /\ UNCHANGED <<Elements(log[k]), skipped[k]>>
                       \/ /\ skipped[k]' = skipped[k] \cup some
                          /\ handle[k] = "nil"
                          /\ UNCHANGED <<Elements(log[k]), lost[k]>>
              /\ handle[k] = "nil" => handle'[k] = "nil"
              /\ \/ Over' = Over
                 \/ /\ Over' /\ handle'[k] = "nil"
                    /\ (Elements(accepted) \ Settled(k))' = {}
<1>1. \/ Over' = Over
      \/ Over' /\ handle'[k] = "nil" /\ (Elements(accepted) \ Settled(k))' = {}
  <2>1. CASE Over
    BY <2>1, OverStays
  <2>2. ASSUME Over' PROVE Elements(accepted)' \subseteq Settled(k)' /\ handle'[k] = "nil"
    <3>1. buf' = <<>> /\ \A x \in Actors : Rest(k, x)' = {}
      BY <2>2 DEF Over, InHand, IInv, Closing, Sinks, Rest, Writing
    <3>2. handle'[k] = "nil"
      BY <2>2 DEF Over
    <3>3. QED
      BY <3>1, <3>2, ElementsEmpty DEF IInv, Placed
  <2>3. QED
    BY <2>1, <2>2 DEF Over, InHand
<1>2. ASSUME NEW r \in Records, Accepted(k, r)
      PROVE  /\ handle[k] # "nil"
             /\ r \notin Elements(accepted)
             /\ Elements(accepted)' = Elements(accepted) \cup {r}
             /\ UNCHANGED <<Elements(log[k]), lost[k], skipped[k], handle[k], Over>>
  <2>1. handle[k] # "nil"
    BY <1>2 DEF Accepted, IInv, Closing
  <2>2. UNCHANGED Over
    BY <1>2 DEF Accepted, Over, InHand
  <2>3. UNCHANGED Elements(log[k])
    BY <1>2 DEF Accepted, Elements
  <2>4. QED
    BY <1>2, <2>1, <2>2, <2>3 DEF Accepted, IInv
<1>3. handle[k] = "nil" => handle'[k] = "nil"
  BY ClearedStays DEF IInv
<1>4. ASSUME NEW x \in Actors, NEW some \in SUBSET Records, Disposed(k, x, some)
      PROVE  /\ Elements(accepted)' = Elements(accepted)
             /\ some \subseteq Elements(accepted) \ Settled(k)
             /\ \/ /\ Elements(log[k])' = Elements(log[k]) \cup some
                   /\ UNCHANGED <<lost[k], skipped[k]>>
                \/ /\ lost[k]' = lost[k] \cup some
                   /\ UNCHANGED <<Elements(log[k]), skipped[k]>>
                \/ /\ skipped[k]' = skipped[k] \cup some
                   /\ handle[k] = "nil"
                   /\ UNCHANGED <<Elements(log[k]), lost[k]>>
  <2>1. Elements(accepted)' = Elements(accepted)
    BY <1>4 DEF Disposed, Stored, Lost, Skipped, Moved, Elements
  <2>2. some \subseteq Rest(k, x)
    BY <1>4 DEF Disposed, Stored, Lost, Skipped, Moved
  <2>3. some \subseteq Elements(accepted) \ Settled(k)
    BY <2>2 DEF IInv, Placed, Apart
  <2>4. CASE Stored(k, x, some)
    BY <2>1, <2>3, <2>4 DEF Stored
  <2>5. CASE Lost(k, x, some)
    BY <2>1, <2>3, <2>5 DEF Lost, Elements
  <2>6. CASE Skipped(k, x, some)
    BY <2>1, <2>3, <2>6 DEF Skipped, Elements
  <2>7. QED
    BY <1>4, <2>4, <2>5, <2>6 DEF Disposed
<1>5. CASE (\E x \in Actors : Taken(k, x)) \/ Still(k)
  <2>1. {} \subseteq Elements(accepted) \ Settled(k) /\ {} \in SUBSET Records
    OBVIOUS
  <2>2. /\ Elements(accepted)' = Elements(accepted)
        /\ Elements(log[k])' = Elements(log[k]) \cup {}
        /\ UNCHANGED <<lost[k], skipped[k]>>
    BY <1>5 DEF Taken, Still, Elements
  <2>3. QED
    BY <1>1, <1>3, <2>1, <2>2
<1>6. CASE \E x \in Actors : \E some \in SUBSET Records : Disposed(k, x, some)
  BY <1>1, <1>3, <1>4, <1>6
<1>7. QED
  BY <1>2, <1>5, <1>6, EveryStepMoves DEF IInv

\* The JSONL file is the log AuditLog promises.
THEOREM JsonlKeepsPromise == Spec => JsonlLog
<1>1. Init => Jsonl!Init
  BY ElementsEmpty DEF Init, Jsonl!Init, Over, Sinks
<1>2. IInv /\ IInv' /\ [Next]_vars => [Jsonl!Next]_(Jsonl!vars)
  <2> SUFFICES ASSUME IInv, IInv', [Next]_vars PROVE Jsonl!Next
    OBVIOUS
  <2>1. QED
    BY StepOfLog
       DEF Sinks, Settled, Jsonl!Next, Jsonl!Accept, Jsonl!Store, Jsonl!Lose, Jsonl!Open,
           Jsonl!Skip, Jsonl!MayClose, Jsonl!MayShut
<1>3. QED
  BY <1>1, <1>2, Inductive, PTL DEF Spec, JsonlLog, Jsonl!Spec

\* The audit table of PostgreSQL is the log AuditLog promises.
THEOREM PgKeepsPromise == Spec => PgLog
<1>1. Init => Pg!Init
  BY ElementsEmpty DEF Init, Pg!Init, Over, Sinks
<1>2. IInv /\ IInv' /\ [Next]_vars => [Pg!Next]_(Pg!vars)
  <2> SUFFICES ASSUME IInv, IInv', [Next]_vars PROVE Pg!Next
    OBVIOUS
  <2>1. QED
    BY StepOfLog
       DEF Sinks, Settled, Pg!Next, Pg!Accept, Pg!Store, Pg!Lose, Pg!Open, Pg!Skip,
           Pg!MayClose, Pg!MayShut
<1>3. QED
  BY <1>1, <1>2, Inductive, PTL DEF Spec, PgLog, Pg!Spec

-----------------------------------------------------------------------------
(* The order of the records.  InOrder speaks of the sinks only: that they  *)
(* go on in the order of the calls depends on what is still in a batch and *)
(* in the buffer, and on who may write at the same time.                   *)

Quiet == \A x \in Flushers : pc[x] = "idle"

\* Every record in A was accepted before every record in B.
Follows(A, B) == \A r \in A, t \in B : Before(accepted, r, t)

AsCalled(s) == \A r, t \in Records : Before(s, r, t) => Before(accepted, r, t)

\* What sink k has comes before what the loop has, that before what Close has,
\* and all of it before the buffer.
Queued(k) ==
    /\ Follows(Elements(log[k]), Elements(buf))
    /\ \A x \in Actors : /\ Follows(Elements(log[k]), Rest(k, x))
                       /\ Follows(Rest(k, x), Elements(buf))
    /\ \A c \in Closers : Follows(Rest(k, Loop), Rest(k, c))

Ordered ==
    /\ AsCalled(buf)
    /\ \A x \in Actors : AsCalled(batch[x])
    /\ \A k \in Sinks : AsCalled(log[k]) /\ Queued(k)

OrderInv == Quiet => Ordered

\* An element of an appended sequence comes after those that were there.
LEMMA BeforeAppend ==
    ASSUME NEW S, NEW s \in Seq(S), NEW e \in S, NEW r, NEW t
    PROVE  Before(Append(s, e), r, t) <=> Before(s, r, t) \/ (r \in Elements(s) /\ t = e)
<1>1. /\ Len(s) \in Nat /\ DOMAIN s = 1..Len(s)
      /\ DOMAIN Append(s, e) = 1..(Len(s) + 1)
      /\ \A i \in 1..Len(s) : Append(s, e)[i] = s[i]
      /\ Append(s, e)[Len(s) + 1] = e
  OBVIOUS
<1> DEFINE u == Append(s, e)
<1>2. ASSUME Before(u, r, t) PROVE Before(s, r, t) \/ (r \in Elements(s) /\ t = e)
  <2>1. PICK i \in 1..(Len(s) + 1), j \in 1..(Len(s) + 1) : i < j /\ u[i] = r /\ u[j] = t
    BY <1>1, <1>2 DEF Before
  <2>2. i \in 1..Len(s) /\ (j \in 1..Len(s) \/ j = Len(s) + 1)
    BY <1>1, <2>1
  <2>3. QED
    BY <1>1, <2>1, <2>2 DEF Before, Elements
<1>3. ASSUME Before(s, r, t) PROVE Before(u, r, t)
  <2>1. PICK i \in 1..Len(s), j \in 1..Len(s) : i < j /\ s[i] = r /\ s[j] = t
    BY <1>1, <1>3 DEF Before
  <2>2. i \in DOMAIN u /\ j \in DOMAIN u
    BY <1>1
  <2>3. QED
    BY <1>1, <2>1, <2>2 DEF Before
<1>4. ASSUME r \in Elements(s), t = e PROVE Before(u, r, t)
  <2>1. PICK i \in 1..Len(s) : s[i] = r
    BY <1>1, <1>4 DEF Elements
  <2>2. i < Len(s) + 1 /\ i \in DOMAIN u /\ Len(s) + 1 \in DOMAIN u
    BY <1>1
  <2>3. QED
    BY <1>1, <1>4, <2>1, <2>2 DEF Before
<1>5. QED
  BY <1>2, <1>3, <1>4

\* Of two elements of a concatenation the parts, or which part it is, give the order.
LEMMA BeforeConcat ==
    ASSUME NEW S, NEW s \in Seq(S), NEW u \in Seq(S), NEW r, NEW t, Before(s \o u, r, t)
    PROVE  \/ Before(s, r, t) \/ Before(u, r, t)
           \/ r \in Elements(s) /\ t \in Elements(u)
<1>1. /\ DOMAIN (s \o u) = 1..(Len(s) + Len(u))
      /\ DOMAIN s = 1..Len(s) /\ DOMAIN u = 1..Len(u)
      /\ Len(s) \in Nat /\ Len(u) \in Nat
      /\ \A i \in 1..Len(s) : (s \o u)[i] = s[i]
      /\ \A i \in 1..Len(u) : (s \o u)[Len(s) + i] = u[i]
  OBVIOUS
<1>2. \A i \in 1..(Len(s) + Len(u)) : i > Len(s) =>
        i - Len(s) \in 1..Len(u) /\ (s \o u)[i] = u[i - Len(s)]
  <2> TAKE i \in 1..(Len(s) + Len(u))
  <2>1. HAVE i > Len(s)
  <2>2. i - Len(s) \in 1..Len(u) /\ Len(s) + (i - Len(s)) = i
    BY <1>1, <2>1
  <2>3. QED
    BY <1>1, <2>2
<1>3. PICK i \in 1..(Len(s) + Len(u)), j \in 1..(Len(s) + Len(u)) :
        i < j /\ (s \o u)[i] = r /\ (s \o u)[j] = t
  BY <1>1 DEF Before
<1>4. CASE j <= Len(s)
  <2>1. i \in 1..Len(s) /\ j \in 1..Len(s)
    BY <1>1, <1>3, <1>4
  <2>2. QED
    BY <1>1, <1>3, <2>1 DEF Before
<1>5. CASE i <= Len(s) /\ j > Len(s)
  <2>1. i \in 1..Len(s)
    BY <1>1, <1>5
  <2>2. QED
    BY <1>1, <1>2, <1>3, <1>5, <2>1 DEF Elements
<1>6. CASE i > Len(s)
  <2>1. j > Len(s) /\ i - Len(s) < j - Len(s)
    BY <1>1, <1>3, <1>6
  <2>2. /\ i - Len(s) \in DOMAIN u /\ u[i - Len(s)] = r
        /\ j - Len(s) \in DOMAIN u /\ u[j - Len(s)] = t
    BY <1>1, <1>2, <1>3, <1>6, <2>1
  <2>3. QED
    BY <2>1, <2>2 DEF Before
<1>7. QED
  BY <1>1, <1>4, <1>5, <1>6

\* Nothing comes before anything in the empty sequence.
LEMMA BeforeEmpty == ASSUME NEW r, NEW t PROVE ~Before(<<>>, r, t)
  BY DEF Before

\* Who never calls Flush holds nothing, and has called it if it called it before.
LEMMA QuietBefore ==
    ASSUME TypeOK, Closing, [Next]_vars, Quiet'
    PROVE  /\ Quiet
           /\ \A k \in Sinks, x \in Flushers : Rest(k, x) = {} /\ Rest(k, x)' = {}
           /\ \A x \in Flushers : ~Flush(x) /\ ~Close(x) /\ ~WriteAll(x)
<1> USE AuditAssumption
<1>1. ASSUME NEW x \in Flushers
      PROVE  ~Flush(x) /\ ~Close(x) /\ ~WriteAll(x)
  <2>1. pc'[x] = "idle" /\ x \in Actors
    BY DEF Quiet, Actors
  <2>2. ~WriteAll(x)
    BY <2>1, WriteAllFrame DEF Writing, TypeOK, AfterBatch
  <2>3. QED
    BY <2>1, <2>2 DEF Flush, Close, Goto, TypeOK
<1>2. ASSUME NEW f \in Flushers PROVE pc[f] = "idle"
  <2>1. ASSUME pc' = pc PROVE pc[f] = "idle"
    BY <2>1 DEF Quiet
  <2>2. ASSUME NEW x \in Actors, x \notin Flushers, \E to : pc' = [pc EXCEPT ![x] = to]
        PROVE  pc[f] = "idle"
    BY <2>2 DEF Quiet, TypeOK, Actors
  <2>3. ASSUME NEW x \in Actors, ActorStep(x) PROVE x \notin Flushers
    <3>1. ~(CloseAgain(x) \/ Join(x) \/ CloseSinks(x)) \/ x \in Closers
      BY CloseSinksFrame DEF CloseAgain, Join, Goto, Closing
    <3>2. QED
      BY <1>1, <2>3, <3>1 DEF ActorStep
  <2>4. ASSUME NEW x \in Actors, ActorStep(x)
        PROVE  pc' = pc \/ \E to : pc' = [pc EXCEPT ![x] = to]
    BY <2>4, WriteAllFrame, CloseSinksFrame DEF ActorStep, Flush, Close, CloseAgain, Join, Goto
  <2>5. CASE EndLoop
    <3>1. Loop \in Actors /\ Loop \notin Flushers /\ pc' = [pc EXCEPT ![Loop] = "done"]
      BY <2>5 DEF EndLoop, Goto, Actors
    <3>2. QED
      BY <2>2, <3>1
  <2>6. CASE UNCHANGED vars \/ \E r \in Records : Write(r)
    BY <2>1, <2>6 DEF vars, Write
  <2>7. QED
    BY <2>1, <2>2, <2>3, <2>4, <2>5, <2>6 DEF Next
<1>3. QED
  BY <1>1, <1>2 DEF Quiet, Rest, Writing

\* Who holds records beside the one that takes the buffer or writes: of the loop
\* and a Close only the loop, and with it nobody while Close goes on.
LEMMA OthersHold ==
    ASSUME TypeOK, Closing, OneAtATime, NEW k \in Sinks
    PROVE  /\ ~closed => \A c \in Closers : Rest(k, c) = {}
           /\ \A c \in Closers : pc[c] \in Writing =>
                /\ buf = <<>>
                /\ Rest(k, Loop) = {}
                /\ \A d \in Closers \ {c} : Rest(k, d) = {}
<1>1. \A x : pc[x] \in {"idle", "done"} => Rest(k, x) = {}
  BY DEF Rest, Writing
<1>2. QED
  BY <1>1 DEF Closing, OneAtATime, Writing

\* A record that is accepted goes to the end of the queue.
LEMMA AcceptedQueues ==
    ASSUME IInv, NEW r \in Records, NEW k \in Sinks, Accepted(k, r), Queued(k),
           accepted' = Append(accepted, r)
    PROVE  Queued(k)'
<1>1. \A a, b : Before(accepted, a, b) => Before(accepted, a, b)'
  BY BeforeAppend DEF IInv, TypeOK
<1>2. \A a \in Elements(accepted) : Before(accepted, a, r)'
  BY BeforeAppend DEF IInv, TypeOK
<1>3. /\ Elements(log[k]) \subseteq Elements(accepted)
      /\ \A x \in Actors : Rest(k, x) \subseteq Elements(accepted)
  BY DEF IInv, Placed, Settled
<1>4. /\ Elements(log[k])' = Elements(log[k])
      /\ Elements(buf)' = Elements(buf) \cup {r}
      /\ \A x \in Actors : Rest(k, x)' = Rest(k, x)
  BY DEF Accepted
<1>5. Loop \in Actors /\ Closers \subseteq Actors
  BY DEF Actors
<1>6. QED
  BY <1>1, <1>2, <1>3, <1>4, <1>5 DEF Queued, Follows

\* The taker is behind the sinks and, when it is Close, behind the loop.
LEMMA TakenQueues ==
    ASSUME IInv, NEW k \in Sinks, NEW x \in Actors \ Flushers, Taken(k, x), Queued(k),
           x = Loop \/ ~closed,
           \A f \in Flushers : Rest(k, f) = {} /\ Rest(k, f)' = {}
    PROVE  Queued(k)'
<1> USE AuditAssumption
<1>1. /\ Elements(log[k])' = Elements(log[k]) /\ Elements(buf)' = {} /\ accepted' = accepted
      /\ Rest(k, x)' = Elements(buf)
      /\ \A y \in Actors \ {x} : Rest(k, y)' = Rest(k, y)
  BY DEF Taken
<1>2. \A c \in Closers \ {x} : Rest(k, c)' = {} \/ Elements(buf) = {}
  <2>1. CASE ~closed
    BY <1>1, <2>1, OthersHold DEF IInv, Actors
  <2>2. CASE closed
    BY <2>2, ElementsEmpty DEF IInv, Closing
  <2>3. QED
    BY <2>1, <2>2
<1>3. Follows(Elements(log[k]), Elements(buf)) /\ Follows(Rest(k, Loop), Elements(buf))
  BY DEF Queued, Actors
<1>4. \A c \in Closers : Follows(Rest(k, Loop), Rest(k, c))'
  <2> TAKE c \in Closers
  <2>1. CASE x = Loop
    <3>1. c # x
      BY <2>1
    <3>2. QED
      BY <1>1, <1>2, <2>1, <3>1 DEF Follows
  <2>2. CASE x # Loop
    <3>1. Rest(k, Loop)' = Rest(k, Loop)
      BY <1>1, <2>2 DEF Actors
    <3>2. CASE c = x
      BY <1>1, <1>3, <3>1, <3>2 DEF Follows
    <3>3. CASE c # x
      BY <1>1, <1>2, <1>3, <3>1, <3>3 DEF Follows, Queued, Actors
    <3>4. QED
      BY <3>2, <3>3
  <2>3. QED
    BY <2>1, <2>2
<1>5. \A y \in Actors : Follows(Elements(log[k]), Rest(k, y))'
  BY <1>1, <1>3 DEF Queued, Follows
<1>6. QED
  BY <1>1, <1>4, <1>5 DEF Queued, Follows

\* Records leave the queue at its head, for the sink or not.
LEMMA MovedQueues ==
    ASSUME IInv, NEW k \in Sinks, NEW x \in Actors \ Flushers, NEW some,
           Disposed(k, x, some), Queued(k),
           pc[x] \in Writing,
           Follows(some, Rest(k, x)'),
           \A f \in Flushers : Rest(k, f) = {} /\ Rest(k, f)' = {}
    PROVE  Queued(k)'
<1> USE AuditAssumption
<1>1. /\ buf' = buf /\ accepted' = accepted
      /\ Elements(log[k])' \subseteq Elements(log[k]) \cup some
      /\ some \subseteq Rest(k, x)
      /\ \A y \in Actors : Rest(k, y)' \subseteq Rest(k, y)
  BY DEF Disposed, Stored, Lost, Skipped, Moved, Elements
<1>2. \A y \in Actors \ {x} : Follows(some, Rest(k, y))
  <2>1. CASE x = Loop
    BY <1>1, <2>1 DEF Queued, Follows, Actors
  <2>2. CASE x \in Closers
    <3>1. \A y \in Actors \ {x} : Rest(k, y) = {}
      BY <2>2, OthersHold DEF IInv, Actors
    <3>2. QED
      BY <3>1 DEF Follows
  <2>3. QED
    BY <2>1, <2>2 DEF Actors
<1>3. Follows(some, Elements(buf))
  BY <1>1 DEF Queued, Follows
<1>4. \A y \in Actors : Follows(Elements(log[k]), Rest(k, y))'
  BY <1>1, <1>2 DEF Queued, Follows
<1>5. Follows(Elements(log[k]), Elements(buf))'
  BY <1>1, <1>3 DEF Queued, Follows
<1>6. QED
  BY <1>1, <1>4, <1>5 DEF Queued, Follows, Actors

\* Nothing moved: the queue is what it was.
LEMMA StillQueues ==
    ASSUME NEW k \in Sinks, Still(k), Queued(k)
    PROVE  Queued(k)'
<1>1. /\ Elements(log[k])' = Elements(log[k]) /\ Elements(buf)' = Elements(buf)
      /\ accepted' = accepted
      /\ \A x \in Actors : Rest(k, x)' = Rest(k, x)
  BY DEF Still, Elements
<1>2. QED
  BY <1>1 DEF Queued, Follows, Actors

\* The sequences keep the order of the calls, and the queue is kept.
LEMMA OrderedStep ==
    ASSUME IInv, Ordered, [Next]_vars, Quiet'
    PROVE  Ordered'
<1> USE AuditAssumption DEF IInv
<1>1. /\ \A k \in Sinks, x \in Flushers : Rest(k, x) = {} /\ Rest(k, x)' = {}
      /\ \A x \in Flushers : ~Flush(x) /\ ~Close(x) /\ ~WriteAll(x)
  BY QuietBefore
<1>2. ASSUME NEW r \in Records, Write(r) PROVE Ordered'
  <2>1. CASE closed
    <3>1. UNCHANGED <<buf, accepted, batch, log>>
      BY <1>2, <2>1 DEF Write
    <3>2. \A k \in Sinks : Still(k)
      BY <1>2, <2>1, RestFrame DEF Write, Still
    <3>3. QED
      BY <3>1, <3>2, StillQueues DEF Ordered, AsCalled, Before
  <2>2. CASE ~closed
    <3>1. /\ accepted' = Append(accepted, r) /\ buf' = Append(buf, r)
          /\ UNCHANGED <<batch, log>>
      BY <1>2, <2>2 DEF Write
    <3>2. \A k \in Sinks : Accepted(k, r)
      <4>1. \A k \in Sinks, y \in Actors : Rest(k, y)' = Rest(k, y)
        BY <1>2, RestFrame DEF Write
      <4>2. /\ Elements(Append(buf, r)) = Elements(buf) \cup {r}
            /\ Elements(Append(accepted, r)) = Elements(accepted) \cup {r}
        BY ElementsAppend DEF TypeOK
      <4>3. QED
        BY <1>2, <2>2, <4>1, <4>2 DEF Write, Accepted
    <3>3. \A k \in Sinks : Queued(k)'
      BY <3>1, <3>2, AcceptedQueues DEF Ordered
    <3>4. \A a, b : Before(accepted, a, b) => Before(accepted, a, b)'
      BY <3>1, BeforeAppend DEF TypeOK
    <3>5. AsCalled(buf)'
      <4>1. Elements(buf) \subseteq Elements(accepted)
        BY DEF Placed, Sinks
      <4>2. \A a, b : Before(buf, a, b)' => Before(buf, a, b) \/ (a \in Elements(buf) /\ b = r)
        BY <3>1, BeforeAppend DEF TypeOK
      <4>3. \A a \in Elements(accepted) : Before(accepted, a, r)'
        BY <3>1, BeforeAppend DEF TypeOK
      <4>4. QED
        BY <3>4, <4>1, <4>2, <4>3 DEF Ordered, AsCalled
    <3>6. \A x \in Actors : AsCalled(batch[x])'
      BY <3>1, <3>4 DEF Ordered, AsCalled
    <3>7. \A k \in Sinks : AsCalled(log[k])'
      BY <3>1, <3>4 DEF Ordered, AsCalled
    <3>8. QED
      BY <3>3, <3>5, <3>6, <3>7 DEF Ordered
  <2>3. QED
    BY <2>1, <2>2
<1>3. ASSUME NEW x \in Actors, Flush(x) \/ Close(x) PROVE Ordered'
  <2>1. /\ batch' = [batch EXCEPT ![x] = buf] /\ buf' = <<>>
        /\ log' = log /\ accepted' = accepted
    BY <1>3 DEF Flush, Close, Take
  <2>2. x \notin Flushers /\ (x = Loop \/ ~closed)
    BY <1>1, <1>3 DEF Flush, Close
  <2>3. \A k \in Sinks : Queued(k)'
    BY <1>1, <1>3, <2>2, TakeMoves, TakenQueues DEF Ordered
  <2>4. AsCalled(buf)'
    BY <2>1, BeforeEmpty DEF AsCalled
  <2>5. \A y \in Actors : AsCalled(batch[y])'
    BY <2>1 DEF Ordered, AsCalled, TypeOK
  <2>6. \A k \in Sinks : AsCalled(log[k])'
    BY <2>1 DEF Ordered, AsCalled
  <2>7. QED
    BY <2>3, <2>4, <2>5, <2>6 DEF Ordered
<1>4. ASSUME NEW x \in Actors, EncodeRecord(x) PROVE Ordered'
  <2> DEFINE e == batch[x][at[x] + 1]
  <2>1. /\ pc[x] = "encode" /\ pc'[x] = "encode" /\ at'[x] = at[x] + 1
        /\ batch' = batch /\ buf' = buf /\ accepted' = accepted
        /\ log'["jsonl"] = Append(log["jsonl"], e) /\ log'["pg"] = log["pg"]
        /\ at[x] \in Nat /\ at[x] < Len(batch[x]) /\ batch[x] \in Seq(Records)
        /\ Len(batch[x]) \in Nat
    BY <1>4 DEF EncodeRecord, TypeOK, Sinks
  <2>2. x \notin Flushers
    BY <1>1, <1>4 DEF WriteAll
  <2>3. Stored("jsonl", x, {e}) /\ Still("pg")
    BY <1>4, EncodeMoves
  <2>4. e \in Records
    BY <2>1
  <2>5. Follows({e}, Rest("jsonl", x)')
    <3>1. Rest("jsonl", x)' = {batch[x][i] : i \in at[x]+1+1 .. Len(batch[x])}
      BY <2>1 DEF Rest, Unwritten
    <3>2. \A i \in at[x]+1+1 .. Len(batch[x]) : Before(batch[x], e, batch[x][i])
      <4> TAKE i \in at[x]+1+1 .. Len(batch[x])
      <4>1. at[x] + 1 \in DOMAIN batch[x] /\ i \in DOMAIN batch[x] /\ at[x] + 1 < i
        BY <2>1
      <4>2. QED
        BY <4>1 DEF Before
    <3>3. \A i \in at[x]+1+1 .. Len(batch[x]) : batch[x][i] \in Records
      BY <2>1
    <3>4. QED
      BY <2>4, <3>1, <3>2, <3>3 DEF Follows, Ordered, AsCalled
  <2>6. Queued("jsonl")'
    BY <1>1, <2>1, <2>2, <2>3, <2>5, MovedQueues DEF Ordered, Sinks, Disposed, Writing
  <2>7. Queued("pg")'
    BY <2>3, StillQueues DEF Ordered, Sinks
  <2>8. AsCalled(log["jsonl"])'
    <3>1. e \in Rest("jsonl", x)
      BY <2>3 DEF Stored, Moved
    <3>2. \A a \in Elements(log["jsonl"]) : Before(accepted, a, e)
      BY <3>1 DEF Ordered, Queued, Follows, Sinks
    <3>3. log["jsonl"] \in Seq(Records)
      BY DEF TypeOK, Sinks
    <3>4. \A a, b : Before(log["jsonl"], a, b)' =>
            Before(log["jsonl"], a, b) \/ (a \in Elements(log["jsonl"]) /\ b = e)
      BY <2>1, <2>4, <3>3, BeforeAppend
    <3>5. QED
      BY <2>1, <3>2, <3>4 DEF Ordered, AsCalled, Sinks
  <2>9. AsCalled(log["pg"])'
    BY <2>1 DEF Ordered, AsCalled, Sinks
  <2>10. AsCalled(buf)' /\ \A y \in Actors : AsCalled(batch[y])'
    BY <2>1 DEF Ordered, AsCalled
  <2>11. QED
    BY <2>6, <2>7, <2>8, <2>9, <2>10 DEF Ordered, Sinks
<1>5. ASSUME NEW x \in Actors, EncodeFails(x) \/ SkipFile(x) PROVE Ordered'
  <2>1. /\ pc[x] \in {"jsonl", "encode"} /\ pc'[x] = "pg"
        /\ UNCHANGED <<batch, buf, accepted, log>>
    BY <1>5 DEF EncodeFails, SkipFile, Goto, TypeOK
  <2>2. x \notin Flushers
    BY <1>1, <1>5 DEF WriteAll
  <2>3. Disposed("jsonl", x, Rest("jsonl", x)) /\ Still("pg")
    BY <1>5, FileMoves DEF Disposed
  <2>4. Follows(Rest("jsonl", x), Rest("jsonl", x)')
    BY <2>1 DEF Rest, Follows
  <2>5. Queued("jsonl")'
    <3>1. /\ "jsonl" \in Sinks /\ Queued("jsonl") /\ x \in Actors \ Flushers
          /\ pc[x] \in Writing
      BY <1>5, <2>1, <2>2 DEF Ordered, Sinks, Writing
    <3>2. Follows(Rest("jsonl", x), Rest("jsonl", x)')
      BY <2>4
    <3>3. \A f \in Flushers : Rest("jsonl", f) = {} /\ Rest("jsonl", f)' = {}
      BY <1>1, <3>1
    <3>4. QED
      BY <2>3, <3>1, <3>2, <3>3, MovedQueues DEF Disposed
  <2>6. Queued("pg")'
    BY <2>3, StillQueues DEF Ordered, Sinks
  <2>7. QED
    BY <2>1, <2>5, <2>6 DEF Ordered, AsCalled, Sinks
<1>6. ASSUME NEW x \in Actors, InsertBatch(x) \/ InsertFails(x) \/ SkipDB(x) PROVE Ordered'
  <2>1. /\ pc[x] \in {"pg", "begin", "commit"} /\ pc'[x] \in {"idle", "done", "closing"}
        /\ UNCHANGED <<buf, accepted>>
        /\ batch' = [batch EXCEPT ![x] = <<>>]
        /\ log'["jsonl"] = log["jsonl"]
        /\ log' = log \/ log'["pg"] = log["pg"] \o batch[x]
    BY <1>6 DEF InsertBatch, InsertFails, SkipDB, Finish, Goto, AfterBatch, TypeOK, Sinks
  <2>2. x \notin Flushers
    BY <1>1, <1>6 DEF WriteAll
  <2>3. Disposed("pg", x, Elements(batch[x])) /\ Still("jsonl")
    BY <1>6, InsertMoves
  <2>4. Rest("pg", x) = Elements(batch[x]) /\ Rest("pg", x)' = {}
    BY <2>1 DEF Rest, Writing
  <2>5. Queued("pg")'
    <3>1. /\ "pg" \in Sinks /\ Queued("pg") /\ x \in Actors \ Flushers
          /\ pc[x] \in Writing
      BY <1>6, <2>1, <2>2 DEF Ordered, Sinks, Writing
    <3>2. Follows(Elements(batch[x]), Rest("pg", x)')
      BY <2>4 DEF Follows
    <3>3. \A f \in Flushers : Rest("pg", f) = {} /\ Rest("pg", f)' = {}
      BY <1>1, <3>1
    <3>4. QED
      BY <2>3, <3>1, <3>2, <3>3, MovedQueues DEF Disposed
  <2>6. Queued("jsonl")'
    BY <2>3, StillQueues DEF Ordered, Sinks
  <2>7. AsCalled(log["pg"])'
    <3>1. CASE log' = log
      BY <2>1, <3>1 DEF Ordered, AsCalled, Sinks
    <3>2. CASE log'["pg"] = log["pg"] \o batch[x]
      <4>1. log["pg"] \in Seq(Records) /\ batch[x] \in Seq(Records)
        BY DEF TypeOK, Sinks
      <4>2. \A a, b : Before(log["pg"], a, b)' =>
              \/ Before(log["pg"], a, b) \/ Before(batch[x], a, b)
              \/ a \in Elements(log["pg"]) /\ b \in Elements(batch[x])
        BY <3>2, <4>1, BeforeConcat
      <4>3. \A a \in Elements(log["pg"]), b \in Elements(batch[x]) : Before(accepted, a, b)
        BY <2>4 DEF Ordered, Queued, Follows, Sinks
      <4>4. QED
        BY <2>1, <4>2, <4>3 DEF Ordered, AsCalled, Sinks
    <3>3. QED
      BY <2>1, <3>1, <3>2
  <2>8. AsCalled(log["jsonl"])' /\ AsCalled(buf)'
    BY <2>1 DEF Ordered, AsCalled, Sinks
  <2>9. \A y \in Actors : AsCalled(batch[y])'
    BY <2>1, BeforeEmpty DEF Ordered, AsCalled, TypeOK
  <2>10. QED
    BY <2>5, <2>6, <2>7, <2>8, <2>9 DEF Ordered, Sinks
<1>7. ASSUME UNCHANGED <<batch, buf, accepted, log>>, \A k \in Sinks : Still(k)
      PROVE  Ordered'
  BY <1>7, StillQueues DEF Ordered, AsCalled
<1>8. ASSUME NEW x \in Actors, Moveless(x) PROVE Ordered'
  <2>1. UNCHANGED <<batch, buf, accepted, log>>
    BY <1>8 DEF Moveless, UseFile, Encoded, UseDB, BeginTx, BeginPanics, CloseAgain, Join,
        CloseSinks, CloseFile, ClearFile, CloseDB, ClearDB, SetHandle
  <2>2. QED
    BY <1>7, <1>8, <2>1, OtherMoves
<1>9. CASE EndLoop \/ UNCHANGED vars
  <2>1. UNCHANGED <<batch, buf, accepted, log>>
    BY <1>9 DEF EndLoop, vars
  <2>2. QED
    BY <1>7, <1>9, <2>1, OtherMoves
<1>10. QED
  BY <1>2, <1>3, <1>4, <1>5, <1>6, <1>8, <1>9 DEF Next, ActorStep, WriteAll, Moveless

\* The order is an invariant with IInv.
LEMMA OrderInductive == Spec => []OrderInv
<1>1. Init => OrderInv
  <2> SUFFICES ASSUME Init PROVE Ordered
    BY DEF OrderInv
  <2>1. \A x \in Actors, k \in Sinks : batch[x] = <<>> /\ Rest(k, x) = {} /\ log[k] = <<>>
    BY DEF Init, Rest, Writing
  <2>2. \A k \in Sinks : Queued(k)
    BY <2>1, ElementsEmpty DEF Queued, Follows, Actors
  <2>3. AsCalled(<<>>)
    BY BeforeEmpty DEF AsCalled
  <2>4. QED
    BY <2>1, <2>2, <2>3 DEF Init, Ordered
<1>2. IInv /\ OrderInv /\ [Next]_vars => OrderInv'
  <2> SUFFICES ASSUME IInv, OrderInv, [Next]_vars, Quiet' PROVE Ordered'
    BY DEF OrderInv
  <2>1. Quiet
    BY QuietBefore DEF IInv
  <2>2. QED
    BY <2>1, OrderedStep DEF OrderInv
<1>3. QED
  BY <1>1, <1>2, Inductive, PTL DEF Spec

\* While nobody calls Flush each sink holds the records in the order of the calls,
\* for any number of records and of Closes: the loop and Close never write at once.
THEOREM AlwaysInOrder == Spec => []InOrder
<1>1. OrderInv => InOrder
  BY DEF OrderInv, Quiet, Ordered, AsCalled, InOrder
<1>2. QED
  BY <1>1, OrderInductive, PTL

=============================================================================
