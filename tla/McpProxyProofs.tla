--------------------------- MODULE McpProxyProofs ---------------------------
(***************************************************************************)
(* Proofs about McpProxy for any number of servers, calls, Stops and ids.  *)
(***************************************************************************)
EXTENDS McpProxy, TLAPS

\* Every action keeps every variable in its type: no entry for an id that was
\* never handed out, no reader or call in a state the code does not have.
LEMMA TypeStep == TypeOK /\ Located /\ Provenance /\ [Next]_vars => TypeOK'
<1> SUFFICES ASSUME TypeOK, Located, Provenance, [Next]_vars PROVE TypeOK'
  OBVIOUS
<1> USE ProxyAssumption DEF TypeOK, proxyVars, readerVars, callVars, serverVars,
        Ids, ReaderStates, CallStates, Replies, NoReply
<1>1. CASE Stop
  <2>1. Waiters \subseteq Calls
    BY DEF Waiters
  <2>2. closed' \subseteq Calls
    BY <1>1, <2>1 DEF Stop
  <2>3. stops' \in 0..MaxStops
    BY <1>1 DEF Stop
  <2>4. pending' \in [Ids -> Calls \cup {None}]
    BY <1>1 DEF Stop
  <2>5. QED
    BY <1>1, <2>2, <2>3, <2>4 DEF Stop
<1>2. ASSUME NEW s \in Streams, StartReader(s) PROVE TypeOK'
  BY <1>2 DEF StartReader
<1>3. ASSUME NEW s \in Streams, ReadLine(s) PROVE TypeOK'
  <2>1. inbox' \in [Streams -> SUBSET Ids]
    BY SMTT(30), <1>3 DEF ReadLine
  <2>2. line' \in [Streams -> Ids \cup {0}]
    BY <1>3 DEF ReadLine
  <2>3. QED
    BY <1>3, <2>1, <2>2 DEF ReadLine
<1>4. ASSUME NEW s \in Streams, Gate(s) PROVE TypeOK'
  BY <1>4 DEF Gate
<1>5. ASSUME NEW s \in Streams, Lookup(s) PROVE TypeOK'
  <2>1. target' \in [Streams -> Calls \cup {None}]
    <3>1. line[s] \in Ids
      BY <1>5 DEF Lookup, Provenance
    <3>2. QED
      BY <1>5, <3>1 DEF Lookup
  <2>3. QED
    BY <1>5, <2>1 DEF Lookup
<1>6. ASSUME NEW s \in Streams, Deliver(s) PROVE TypeOK'
  <2>1. <<line[s], s>> \in Replies
    BY <1>6 DEF Deliver, Provenance
  <2>3. QED
    BY <1>6, <2>1 DEF Deliver
<1>7. ASSUME NEW s \in Streams, SendOnClosed(s) PROVE TypeOK'
  BY <1>7 DEF SendOnClosed
<1>8. ASSUME NEW s \in Streams, EndOfStream(s) \/ LineTooLong(s) PROVE TypeOK'
  <2>1. StopScanning(s)
    BY <1>8 DEF EndOfStream, LineTooLong
  <2>2. QED
    BY <2>1 DEF StopScanning
<1>9. ASSUME NEW s \in Streams, CloseDone(s) PROVE TypeOK'
  BY <1>9 DEF CloseDone
<1>10. ASSUME NEW s \in Streams, Exit(s) PROVE TypeOK'
  BY <1>10 DEF Exit
<1>11. ASSUME NEW s \in Streams, Stall(s) PROVE TypeOK'
  BY <1>11 DEF Stall
<1>12. ASSUME NEW c \in Calls, LockWriter(c) PROVE TypeOK'
  BY <1>12 DEF LockWriter, Goto
<1>13. ASSUME NEW c \in Calls, WriteRequest(c) PROVE TypeOK'
  <2>1. callID[c] \in Ids
    BY <1>13 DEF WriteRequest, Goto, Located
  <2>2. inbox' \in [Streams -> SUBSET Ids]
    BY <1>13, <2>1 DEF WriteRequest
  <2>3. cpc' \in [Calls -> CallStates]
    BY <1>13 DEF WriteRequest, Goto
  <2>4. QED
    BY <1>13, <2>2, <2>3 DEF WriteRequest
<1>14. ASSUME NEW c \in Calls, WriteNotification(c) PROVE TypeOK'
  BY <1>14 DEF WriteNotification, Goto, Return
<1>15. ASSUME NEW c \in Calls, Receive(c) PROVE TypeOK'
  <2>1. got' \in [Calls -> Replies \cup {NoReply}] /\ buf' \in [Calls -> Replies \cup {NoReply}]
    BY <1>15 DEF Receive
  <2>2. cpc' \in [Calls -> CallStates]
    BY SMTT(30), <1>15 DEF Receive, Goto
  <2>3. QED
    BY <1>15, <2>1, <2>2 DEF Receive
<1>16. ASSUME NEW c \in Calls, Expire(c) PROVE TypeOK'
  BY <1>16 DEF Expire, Goto
<1>17. ASSUME NEW c \in Calls, Finish(c) PROVE TypeOK'
  <2>1. pending' \in [Ids -> Calls \cup {None}]
    BY <1>17 DEF Finish
  <2>2. cpc' \in [Calls -> CallStates]
    <3>1. \E to \in {"done", "notify"} : cpc' = [cpc EXCEPT ![c] = to]
      BY <1>17, Zenon DEF Finish, Goto
    <3>2. QED
      BY <3>1
  <2>3. QED
    BY <1>17, <2>1, <2>2 DEF Finish, Return
<1>18. ASSUME NEW c \in Calls, Refuse(c) PROVE TypeOK'
  BY <1>18 DEF Refuse, Goto
<1>19. ASSUME NEW c \in Calls, NEW s \in Streams, Register(c, s) PROVE TypeOK'
  BY <1>19 DEF Register, Goto
<1>20. CASE UNCHANGED vars
  BY <1>20 DEF vars
<1>21. QED
  BY <1>1, <1>2, <1>3, <1>4, <1>5, <1>6, <1>7, <1>8, <1>9, <1>10, <1>11, <1>12,
     <1>13, <1>14, <1>15, <1>16, <1>17, <1>18, <1>19, <1>20
     DEF Next, ReaderStep, CallStep

-----------------------------------------------------------------------------
(* The steps that change which call owns which id are Register and the two *)
(* that return; every other step leaves the ownership alone.               *)

LEMMA OwnershipFrame ==
    ASSUME [Next]_vars
    PROVE  \/ \E c \in Calls : \/ Finish(c)
                               \/ WriteNotification(c)
                               \/ \E s \in Streams : Register(c, s)
           \/ UNCHANGED <<nextID, callID, dest>>
<1> USE DEF proxyVars, readerVars, callVars, serverVars
<1>1. CASE Stop
  BY <1>1 DEF Stop
<1>2. ASSUME NEW s \in Streams,
             \/ StartReader(s) \/ ReadLine(s) \/ ReaderStep(s)
             \/ LineTooLong(s) \/ Exit(s) \/ Stall(s)
      PROVE  UNCHANGED <<nextID, callID, dest>>
  BY <1>2 DEF StartReader, ReadLine, ReaderStep, Gate, Lookup, Deliver, SendOnClosed,
              EndOfStream,
              LineTooLong, StopScanning, CloseDone, Exit, Stall
<1>3. ASSUME NEW c \in Calls,
             LockWriter(c) \/ WriteRequest(c) \/ Receive(c) \/ Expire(c) \/ Refuse(c)
      PROVE  UNCHANGED <<nextID, callID, dest>>
  BY <1>3 DEF LockWriter, WriteRequest, Receive, Expire, Refuse
<1>4. CASE UNCHANGED vars
  BY <1>4 DEF vars
<1>5. QED
  BY <1>1, <1>2, <1>3, <1>4 DEF Next, CallStep

\* Ids in use are pairwise different and below the counter.
LEMMA UniqueStep == TypeOK /\ UniqueIds /\ [Next]_vars => UniqueIds'
<1> SUFFICES ASSUME TypeOK, UniqueIds, [Next]_vars PROVE UniqueIds'
  OBVIOUS
<1> USE DEF TypeOK, UniqueIds, Ids, proxyVars
<1>1. ASSUME NEW c \in Calls, NEW s \in Streams, Register(c, s) PROVE UniqueIds'
  BY <1>1 DEF Register
<1>2. ASSUME NEW c \in Calls, Finish(c) PROVE UniqueIds'
  BY <1>2 DEF Finish, Return
<1>3. ASSUME NEW c \in Calls, WriteNotification(c) PROVE UniqueIds'
  BY <1>3 DEF WriteNotification, Return
<1>4. CASE UNCHANGED <<nextID, callID, dest>>
  BY <1>4
<1>5. QED
  BY <1>1, <1>2, <1>3, <1>4, OwnershipFrame

\* A call has an id and a server exactly while it runs.
LEMMA LocatedStep == TypeOK /\ Located /\ [Next]_vars => Located'
<1> SUFFICES ASSUME TypeOK, Located, [Next]_vars PROVE Located'
  OBVIOUS
<1> USE DEF TypeOK, Located, Ids, proxyVars, readerVars, callVars, serverVars, Goto
<1>1. CASE Stop
  BY <1>1 DEF Stop
<1>2. ASSUME NEW s \in Streams,
             \/ StartReader(s) \/ ReadLine(s) \/ ReaderStep(s)
             \/ LineTooLong(s) \/ Exit(s) \/ Stall(s)
      PROVE  UNCHANGED <<cpc, callID, dest, got>>
  BY <1>2 DEF StartReader, ReadLine, ReaderStep, Gate, Lookup, Deliver, SendOnClosed,
              EndOfStream,
              LineTooLong, StopScanning, CloseDone, Exit, Stall
<1>3. ASSUME NEW c \in Calls, LockWriter(c) PROVE Located'
  BY <1>3 DEF LockWriter
<1>4. ASSUME NEW c \in Calls, WriteRequest(c) PROVE Located'
  BY <1>4 DEF WriteRequest
<1>5. ASSUME NEW c \in Calls, WriteNotification(c) PROVE Located'
  BY <1>5 DEF WriteNotification, Return
<1>6. ASSUME NEW c \in Calls, Receive(c) PROVE Located'
  BY <1>6 DEF Receive
<1>7. ASSUME NEW c \in Calls, Expire(c) PROVE Located'
  BY <1>7 DEF Expire
<1>8. ASSUME NEW c \in Calls, Finish(c) PROVE Located'
  BY <1>8 DEF Finish, Return
<1>9. ASSUME NEW c \in Calls, Refuse(c) PROVE Located'
  BY <1>9 DEF Refuse
<1>10. ASSUME NEW c \in Calls, NEW s \in Streams, Register(c, s) PROVE Located'
  BY <1>10, ProxyAssumption DEF Register
<1>11. CASE UNCHANGED vars
  BY <1>11 DEF vars
<1>12. QED
  BY <1>1, <1>2, <1>3, <1>4, <1>5, <1>6, <1>7, <1>8, <1>9, <1>10, <1>11
     DEF Next, CallStep

-----------------------------------------------------------------------------
(* The provenance of ids survives every step.                              *)

\* An id that was handed out stays with the server it was written for.
LEMMA ComesFromStep ==
    ASSUME TypeOK, [Next]_vars, NEW i \in Ids, NEW s \in Streams, ComesFrom(i, s)
    PROVE  ComesFrom(i, s)'
<1> USE DEF TypeOK, ComesFrom, Ids
<1>1. ASSUME NEW c \in Calls, NEW t \in Streams, Register(c, t) PROVE ComesFrom(i, s)'
  BY <1>1 DEF Register
<1>2. ASSUME NEW c \in Calls, Finish(c) PROVE ComesFrom(i, s)'
  BY <1>2 DEF Finish, Return
<1>3. ASSUME NEW c \in Calls, WriteNotification(c) PROVE ComesFrom(i, s)'
  BY <1>3 DEF WriteNotification, Return
<1>4. CASE UNCHANGED <<nextID, callID, dest>>
  BY <1>4
<1>5. QED
  BY <1>1, <1>2, <1>3, <1>4, OwnershipFrame

\* A call keeps its id until it returns, and never runs again.
LEMMA OwnsStep ==
    ASSUME TypeOK, Located, [Next]_vars,
           NEW i \in Ids, NEW c \in Calls, OwnsOrReturned(c, i)
    PROVE  OwnsOrReturned(c, i)'
<1> USE DEF TypeOK, Located, OwnsOrReturned, Ids, Goto, proxyVars, readerVars,
            callVars, serverVars
<1>1. cpc[c] # "idle"
  OBVIOUS
<1>2. CASE Stop
  BY <1>2 DEF Stop
<1>3. ASSUME NEW s \in Streams,
             \/ StartReader(s) \/ ReadLine(s) \/ ReaderStep(s)
             \/ LineTooLong(s) \/ Exit(s) \/ Stall(s)
      PROVE  UNCHANGED <<cpc, callID>>
  BY <1>3 DEF StartReader, ReadLine, ReaderStep, Gate, Lookup, Deliver, SendOnClosed,
              EndOfStream,
              LineTooLong, StopScanning, CloseDone, Exit, Stall
<1>4. ASSUME NEW d \in Calls, LockWriter(d) \/ WriteRequest(d) \/ Receive(d) \/ Expire(d)
      PROVE  OwnsOrReturned(c, i)'
  BY <1>4 DEF LockWriter, WriteRequest, Receive, Expire
<1>5. ASSUME NEW d \in Calls, WriteNotification(d) PROVE OwnsOrReturned(c, i)'
  BY <1>5 DEF WriteNotification, Return
<1>6. ASSUME NEW d \in Calls, Finish(d) PROVE OwnsOrReturned(c, i)'
  BY <1>6 DEF Finish, Return
<1>7. ASSUME NEW d \in Calls, Refuse(d) PROVE OwnsOrReturned(c, i)'
  BY <1>1, <1>7 DEF Refuse
<1>8. ASSUME NEW d \in Calls, NEW s \in Streams, Register(d, s)
      PROVE  OwnsOrReturned(c, i)'
  BY <1>1, <1>8 DEF Register
<1>9. CASE UNCHANGED vars
  BY <1>9 DEF vars
<1>10. QED
  BY <1>2, <1>3, <1>4, <1>5, <1>6, <1>7, <1>8, <1>9 DEF Next, CallStep

\* Every id in a pipe, in a reader or in a channel leads back to its owner.
LEMMA ProvenanceStep ==
    TypeOK /\ TypeOK' /\ UniqueIds /\ Located /\ PendingExact /\ Provenance /\ [Next]_vars
        => Provenance'
<1> SUFFICES ASSUME TypeOK, TypeOK', UniqueIds, Located, PendingExact, Provenance,
                    [Next]_vars
             PROVE  Provenance'
  OBVIOUS
<1> DEFINE InboxOK  == \A s \in Streams : \A i \in inbox[s] : ComesFrom(i, s)
           LineOK   == \A s \in Streams : line[s] # 0 => ComesFrom(line[s], s)
           HeldOK   == \A s \in Streams : reader[s] \in {"lookup", "deliver"} => line[s] # 0
           TargetOK == \A s \in Streams : reader[s] = "deliver" =>
                           target[s] # None /\ OwnsOrReturned(target[s], line[s])
           BufOK    == \A c \in Calls : buf[c] # NoReply =>
                           OwnsOrReturned(c, buf[c][1]) /\ ComesFrom(buf[c][1], buf[c][2])
<1>1. InboxOK /\ LineOK /\ HeldOK /\ TargetOK /\ BufOK
  BY DEF Provenance
<1>2. InboxOK'
  <2> SUFFICES ASSUME NEW s \in Streams, NEW i \in inbox'[s] PROVE ComesFrom(i, s)'
    OBVIOUS
  <2>1. i \in Ids
    BY DEF TypeOK
  <2>2. CASE i \in inbox[s]
    BY <1>1, <2>1, <2>2, ComesFromStep
  <2>3. ASSUME NEW c \in Calls, WriteRequest(c), i \notin inbox[s] PROVE ComesFrom(i, s)
    <3>1. dest[c] = s /\ i = callID[c]
      BY <2>3 DEF WriteRequest, TypeOK
    <3>2. QED
      BY <3>1, <2>1 DEF UniqueIds, ComesFrom, Ids
  <2>4. ASSUME i \notin inbox[s] PROVE \E c \in Calls : WriteRequest(c)
    <3>1. ASSUME NEW r \in Streams,
                 \/ ReadLine(r) \/ Exit(r) \/ StartReader(r) \/ ReaderStep(r)
                 \/ LineTooLong(r) \/ Stall(r)
          PROVE  i \in inbox[s]
      <4>1. CASE ReadLine(r)
        BY <4>1 DEF ReadLine, TypeOK
      <4>2. CASE Exit(r)
        BY <4>2 DEF Exit, TypeOK
      <4>3. CASE StartReader(r) \/ ReaderStep(r) \/ LineTooLong(r) \/ Stall(r)
        BY <4>3 DEF StartReader, ReaderStep, Gate, Lookup, Deliver, SendOnClosed,
                    EndOfStream,
              LineTooLong, StopScanning, CloseDone, Stall, serverVars
      <4>4. QED
        BY <3>1, <4>1, <4>2, <4>3
    <3>2. ASSUME NEW c \in Calls,
                 \/ LockWriter(c) \/ WriteNotification(c) \/ Receive(c) \/ Expire(c)
                 \/ Finish(c) \/ Refuse(c) \/ \E r \in Streams : Register(c, r)
          PROVE  i \in inbox[s]
      BY <3>2 DEF LockWriter, WriteNotification, Receive, Expire, Finish, Refuse, Register,
                  serverVars
    <3>3. CASE Stop \/ UNCHANGED vars
      BY <2>4, <3>3 DEF Stop, vars, serverVars
    <3>4. QED
      BY <2>4, <3>1, <3>2, <3>3 DEF Next, CallStep
  <2>5. QED
    BY <2>1, <2>2, <2>3, <2>4, ComesFromStep
<1>3. LineOK'
  <2> SUFFICES ASSUME NEW s \in Streams, line'[s] # 0 PROVE ComesFrom(line[s], s)'
    OBVIOUS
  <2>1. line'[s] \in Ids
    BY DEF TypeOK
  <2>2. line'[s] = line[s] \/ line'[s] \in inbox[s]
    <3>1. ASSUME NEW r \in Streams,
                 \/ StartReader(r) \/ ReadLine(r) \/ ReaderStep(r)
                 \/ LineTooLong(r) \/ Exit(r) \/ Stall(r)
          PROVE  line'[s] = line[s] \/ line'[s] \in inbox[s]
      BY <3>1 DEF StartReader, ReadLine, ReaderStep, Gate, Lookup, Deliver, SendOnClosed,
                  EndOfStream,
              LineTooLong, StopScanning, CloseDone, Exit, Stall, readerVars, TypeOK
    <3>2. ASSUME NEW c \in Calls,
                 CallStep(c) \/ Refuse(c) \/ \E r \in Streams : Register(c, r)
          PROVE  line' = line
      BY <3>2 DEF CallStep, LockWriter, WriteRequest, WriteNotification, Receive, Expire,
                  Finish, Refuse, Register, readerVars
    <3>3. CASE Stop \/ UNCHANGED vars
      BY <3>3 DEF Stop, vars, readerVars
    <3>4. QED
      BY <3>1, <3>2, <3>3 DEF Next
  <2>3. ComesFrom(line'[s], s)
    BY <1>1, <2>2
  <2>4. QED
    BY <2>1, <2>3, ComesFromStep
<1>4. HeldOK' /\ TargetOK'
  <2> USE DEF TypeOK, Ids
  <2>1. ASSUME NEW s \in Streams, Lookup(s) PROVE HeldOK' /\ TargetOK'
    <3>1. HeldOK'
      BY <1>1, <2>1 DEF Lookup
    <3>2. ASSUME NEW r \in Streams, reader'[r] = "deliver"
          PROVE  (target[r] # None /\ OwnsOrReturned(target[r], line[r]))'
      <4>1. CASE r = s
        BY <1>1, <2>1, <3>2, <4>1 DEF Lookup, PendingExact, OwnsOrReturned, callVars
      <4>2. CASE r # s
        BY <1>1, <2>1, <3>2, <4>2 DEF Lookup, OwnsOrReturned, callVars
      <4>3. QED
        BY <4>1, <4>2
    <3>3. QED
      BY <3>1, <3>2
  <2>2. ASSUME NEW s \in Streams,
               \/ StartReader(s) \/ ReadLine(s) \/ Gate(s) \/ Deliver(s)
               \/ EndOfStream(s) \/ LineTooLong(s) \/ CloseDone(s)
        PROVE  HeldOK' /\ TargetOK'
    <3>1. UNCHANGED <<cpc, callID>>
      BY <2>2 DEF StartReader, ReadLine, Gate, Deliver, EndOfStream,
              LineTooLong, StopScanning, CloseDone, callVars
    <3>2. \A r \in Streams \ {s} :
            reader'[r] = reader[r] /\ line'[r] = line[r] /\ target'[r] = target[r]
      BY <2>2 DEF StartReader, ReadLine, Gate, Deliver, EndOfStream,
              LineTooLong, StopScanning, CloseDone, readerVars
    <3>3. reader'[s] \in {"lookup", "deliver"} => reader'[s] = "lookup" /\ line'[s] # 0
      BY <2>2 DEF StartReader, ReadLine, Gate, Deliver, EndOfStream,
              LineTooLong, StopScanning, CloseDone
    <3>4. QED
      BY <1>1, <3>1, <3>2, <3>3 DEF OwnsOrReturned
  <2>3. CASE UNCHANGED <<reader, line, target>>
    BY <1>1, <2>3, OwnsStep
  <2>7. ASSUME NEW s \in Streams, SendOnClosed(s) \/ Exit(s) \/ Stall(s)
        PROVE  UNCHANGED <<reader, line, target>>
    BY <2>7 DEF SendOnClosed, Exit, Stall, readerVars
  <2>4. ASSUME NEW c \in Calls,
               CallStep(c) \/ Refuse(c) \/ \E r \in Streams : Register(c, r)
        PROVE  UNCHANGED <<reader, line, target>>
    BY <2>4 DEF CallStep, LockWriter, WriteRequest, WriteNotification, Receive, Expire,
                Finish, Refuse, Register, readerVars
  <2>5. CASE Stop \/ UNCHANGED vars
    BY <2>3, <2>5 DEF Stop, vars, readerVars
  <2>6. QED
    BY <2>1, <2>2, <2>3, <2>4, <2>5, <2>7 DEF Next, ReaderStep
<1>5. BufOK'
  <2> SUFFICES ASSUME NEW c \in Calls, buf'[c] # NoReply
               PROVE  (OwnsOrReturned(c, buf[c][1]) /\ ComesFrom(buf[c][1], buf[c][2]))'
    OBVIOUS
  <2>1. buf'[c][1] \in Ids /\ buf'[c][2] \in Streams
    BY DEF TypeOK, Replies
  <2>2. CASE buf'[c] = buf[c]
    BY <1>1, <2>1, <2>2, OwnsStep, ComesFromStep
  <2>3. ASSUME NEW s \in Streams, Deliver(s), buf'[c] # buf[c]
        PROVE  OwnsOrReturned(c, buf'[c][1]) /\ ComesFrom(buf'[c][1], buf'[c][2])
    BY <1>1, <2>3 DEF Deliver, TypeOK
  <2>4. ASSUME buf'[c] # buf[c] PROVE \E s \in Streams : Deliver(s)
    <3>1. ASSUME NEW s \in Streams,
                 \/ StartReader(s) \/ ReadLine(s) \/ Gate(s) \/ Lookup(s) \/ SendOnClosed(s)
                 \/ EndOfStream(s) \/ LineTooLong(s) \/ CloseDone(s) \/ Exit(s) \/ Stall(s)
          PROVE  buf' = buf
      BY <3>1 DEF StartReader, ReadLine, Gate, Lookup, SendOnClosed, EndOfStream,
                  LineTooLong, StopScanning, CloseDone, Exit, Stall, callVars
    <3>2. ASSUME NEW d \in Calls,
                 CallStep(d) \/ Refuse(d) \/ \E r \in Streams : Register(d, r)
          PROVE  buf'[c] = buf[c]
      <4>1. CASE Receive(d)
        BY <4>1, buf'[c] # NoReply DEF Receive, TypeOK
      <4>2. CASE ~Receive(d)
        BY <3>2, <4>2 DEF CallStep, LockWriter, WriteRequest, WriteNotification, Expire,
                  Finish, Refuse, Register, callVars
      <4>3. QED
        BY <4>1, <4>2
    <3>3. CASE Stop \/ UNCHANGED vars
      BY <2>4, <3>3 DEF Stop, vars, callVars
    <3>4. QED
      BY <2>4, <3>1, <3>2, <3>3 DEF Next, ReaderStep
  <2>5. QED
    BY <2>1, <2>2, <2>3, <2>4, OwnsStep, ComesFromStep
<1>6. QED
  BY <1>2, <1>3, <1>4, <1>5 DEF Provenance

-----------------------------------------------------------------------------
(* The pending table and the answers.                                      *)

\* The entry of a call stays until Stop closes the channel or the call leaves.
LEMMA RegisteredStep ==
    TypeOK /\ UniqueIds /\ Located /\ Registered /\ [Next]_vars => Registered'
<1> SUFFICES ASSUME TypeOK, UniqueIds, Located, Registered, [Next]_vars PROVE Registered'
  OBVIOUS
<1> USE DEF TypeOK, Registered, Ids, Goto, proxyVars, readerVars, callVars, serverVars
<1>1. CASE Stop
  BY <1>1 DEF Stop, Waiters, Located
<1>2. ASSUME NEW s \in Streams,
             \/ StartReader(s) \/ ReadLine(s) \/ ReaderStep(s)
             \/ LineTooLong(s) \/ Exit(s) \/ Stall(s)
      PROVE  UNCHANGED <<cpc, callID, closed, pending>>
  BY <1>2 DEF StartReader, ReadLine, ReaderStep, Gate, Lookup, Deliver, SendOnClosed,
              EndOfStream,
              LineTooLong, StopScanning, CloseDone, Exit, Stall
<1>3. ASSUME NEW c \in Calls, LockWriter(c) PROVE Registered'
  BY <1>3 DEF LockWriter
<1>4. ASSUME NEW c \in Calls, WriteRequest(c) PROVE Registered'
  BY <1>4 DEF WriteRequest
<1>5. ASSUME NEW c \in Calls, WriteNotification(c) PROVE Registered'
  BY <1>5 DEF WriteNotification, Return
<1>6. ASSUME NEW c \in Calls, Receive(c) PROVE Registered'
  BY <1>6 DEF Receive
<1>7. ASSUME NEW c \in Calls, Expire(c) PROVE Registered'
  BY <1>7 DEF Expire
<1>8. ASSUME NEW c \in Calls, Finish(c) PROVE Registered'
  BY <1>8 DEF Finish, Return, UniqueIds, Located
<1>9. ASSUME NEW c \in Calls, Refuse(c) PROVE Registered'
  BY <1>9 DEF Refuse
<1>10. ASSUME NEW c \in Calls, NEW s \in Streams, Register(c, s) PROVE Registered'
  BY <1>10 DEF Register, UniqueIds
<1>11. CASE UNCHANGED vars
  BY <1>11 DEF vars
<1>12. QED
  BY <1>1, <1>2, <1>3, <1>4, <1>5, <1>6, <1>7, <1>8, <1>9, <1>10, <1>11
     DEF Next, CallStep

\* An entry belongs to a call that has not returned.
LEMMA PendingStep ==
    TypeOK /\ UniqueIds /\ Located /\ PendingExact /\ Registered' /\ [Next]_vars
        => PendingExact'
<1> SUFFICES ASSUME TypeOK, UniqueIds, Located, PendingExact, Registered', [Next]_vars
             PROVE  PendingExact'
  OBVIOUS
<1> DEFINE Owned == \A i \in Ids : pending[i] # None =>
                        callID[pending[i]] = i /\ cpc[pending[i]] \in InFlight
<1>1. Owned
  BY DEF PendingExact
<1> SUFFICES Owned'
  BY DEF PendingExact, Registered
<1> USE DEF TypeOK, InFlight, Ids, Goto, proxyVars, readerVars, callVars, serverVars
<1>2. CASE Stop
  BY <1>2 DEF Stop
<1>3. ASSUME NEW s \in Streams,
             \/ StartReader(s) \/ ReadLine(s) \/ ReaderStep(s)
             \/ LineTooLong(s) \/ Exit(s) \/ Stall(s)
      PROVE  UNCHANGED <<cpc, callID, pending>>
  BY <1>3 DEF StartReader, ReadLine, ReaderStep, Gate, Lookup, Deliver, SendOnClosed,
              EndOfStream,
              LineTooLong, StopScanning, CloseDone, Exit, Stall
<1>4. ASSUME NEW c \in Calls, LockWriter(c) PROVE Owned'
  BY <1>1, <1>4 DEF LockWriter
<1>5. ASSUME NEW c \in Calls, WriteRequest(c) PROVE Owned'
  BY <1>1, <1>5 DEF WriteRequest
<1>6. ASSUME NEW c \in Calls, WriteNotification(c) PROVE Owned'
  BY <1>1, <1>6 DEF WriteNotification, Return
<1>7. ASSUME NEW c \in Calls, Receive(c) PROVE Owned'
  BY <1>1, <1>7 DEF Receive
<1>8. ASSUME NEW c \in Calls, Expire(c) PROVE Owned'
  BY <1>1, <1>8 DEF Expire
<1>9. ASSUME NEW c \in Calls, Finish(c) PROVE Owned'
  BY <1>1, <1>9 DEF Finish, Return, UniqueIds, Located
<1>10. ASSUME NEW c \in Calls, Refuse(c) PROVE Owned'
  BY <1>1, <1>10 DEF Refuse
<1>11. ASSUME NEW c \in Calls, NEW s \in Streams, Register(c, s) PROVE Owned'
  <2>1. ASSUME NEW i \in Ids, pending'[i] # None
        PROVE  callID'[pending'[i]] = i /\ cpc'[pending'[i]] \in InFlight
    <3>1. CASE i = nextID
      BY <1>11, <3>1 DEF Register
    <3>2. CASE i # nextID
      <4>1. pending'[i] = pending[i] /\ pending[i] \in Calls
        BY <1>11, <2>1, <3>2 DEF Register
      <4>2. callID[pending[i]] = i /\ cpc[pending[i]] \in InFlight
        BY <1>1, <2>1, <4>1
      <4>3. pending[i] # c
        BY <1>11, <4>2 DEF Register
      <4>4. QED
        BY <1>11, <4>1, <4>2, <4>3 DEF Register
    <3>3. QED
      BY <3>1, <3>2
  <2>2. QED
    BY <2>1
<1>12. CASE UNCHANGED vars
  BY <1>1, <1>12 DEF vars
<1>13. QED
  BY <1>1, <1>2, <1>3, <1>4, <1>5, <1>6, <1>7, <1>8, <1>9, <1>10, <1>11, <1>12
     DEF Next, CallStep

\* What a call receives came to its channel for its own id, from its own server.
LEMMA OwnReplyStep ==
    TypeOK /\ Located /\ Provenance /\ OwnReply /\ [Next]_vars => OwnReply'
<1> SUFFICES ASSUME TypeOK, Located, Provenance, OwnReply, [Next]_vars PROVE OwnReply'
  OBVIOUS
<1> USE DEF TypeOK, OwnReply, proxyVars, readerVars, callVars, serverVars, Goto
<1>1. ASSUME NEW c \in Calls, Receive(c) PROVE OwnReply'
  <2>1. CASE buf[c] = NoReply
    BY <1>1, <2>1 DEF Receive
  <2>2. CASE buf[c] # NoReply
    <3>1. buf[c] \in Replies /\ cpc[c] = "waiting"
      BY <1>1, <2>2 DEF Receive
    <3>2. buf[c] = <<callID[c], dest[c]>>
      BY <2>2, <3>1 DEF Provenance, OwnsOrReturned, ComesFrom, Replies
    <3>3. QED
      BY <1>1, <3>2 DEF Receive
  <2>3. QED
    BY <2>1, <2>2
<1>2. ASSUME NEW c \in Calls, Finish(c) PROVE OwnReply'
  BY <1>2 DEF Finish, Return
<1>3. ASSUME NEW c \in Calls, WriteNotification(c) PROVE OwnReply'
  BY <1>3 DEF WriteNotification, Return
<1>4. ASSUME NEW c \in Calls, NEW s \in Streams, Register(c, s) PROVE OwnReply'
  BY <1>4 DEF Register, Located
<1>5. ASSUME NEW c \in Calls, LockWriter(c) \/ WriteRequest(c) \/ Expire(c) \/ Refuse(c)
      PROVE  UNCHANGED <<callID, dest, got>>
  BY <1>5 DEF LockWriter, WriteRequest, Expire, Refuse
<1>6. ASSUME NEW s \in Streams,
             \/ StartReader(s) \/ ReadLine(s) \/ ReaderStep(s)
             \/ LineTooLong(s) \/ Exit(s) \/ Stall(s)
      PROVE  UNCHANGED <<callID, dest, got>>
  BY <1>6 DEF StartReader, ReadLine, ReaderStep, Gate, Lookup, Deliver, SendOnClosed,
              EndOfStream,
              LineTooLong, StopScanning, CloseDone, Exit, Stall
<1>7. CASE Stop \/ UNCHANGED vars
  BY <1>7 DEF Stop, vars
<1>8. QED
  BY <1>1, <1>2, <1>3, <1>4, <1>5, <1>6, <1>7 DEF Next, CallStep

-----------------------------------------------------------------------------

\* The inductive invariant: McpProxy!IInv holds in every reachable state.
THEOREM Inductive == Spec => []IInv
<1>1. Init => IInv
  <2> SUFFICES ASSUME Init PROVE IInv
    OBVIOUS
  <2> USE ProxyAssumption DEF Init, Ids, NoReply, Replies
  <2>1. TypeOK
    <3>1. stops \in 0..MaxStops /\ nextID \in Nat \ {0}
      OBVIOUS
    <3>2. pending \in [Ids -> Calls \cup {None}]
      OBVIOUS
    <3>3. QED
      BY <3>1, <3>2 DEF TypeOK, ReaderStates, CallStates
  <2>2. OwnReply /\ PendingExact /\ UniqueIds /\ Located /\ Registered
    BY DEF OwnReply, PendingExact, UniqueIds, Located, Registered, InFlight
  <2>3. Provenance
    BY DEF Provenance
  <2>4. QED
    BY <2>1, <2>2, <2>3 DEF IInv
<1>2. IInv /\ [Next]_vars => IInv'
  BY TypeStep, UniqueStep, LocatedStep, ProvenanceStep, RegisteredStep, PendingStep,
     OwnReplyStep DEF IInv
<1>3. QED
  BY <1>1, <1>2, PTL DEF Spec

\* Type correctness of the proxy for every number of servers, calls and ids.
THEOREM TypeCorrect == Spec => []TypeOK
  BY Inductive, PTL DEF IInv

\* No answer is ever delivered to a call other than the one that asked for it,
\* whatever other servers, timeouts and Stops do to the shared proxy.
THEOREM AnswersGoHome == Spec => []OwnReply
  BY Inductive, PTL DEF IInv

\* The pending table never leaks an entry and never misses a waiting call.
THEOREM PendingTableExact == Spec => []PendingExact
  BY Inductive, PTL DEF IInv
=============================================================================
