------------------------ MODULE BrokerLifecycleProofs ------------------------
(***************************************************************************)
(* Proofs about BrokerLifecycle for every set of servers, configurations   *)
(* and transport lists and any number of processes.  What an entry shows   *)
(* is right for the servers no request is about; for the one it is about,  *)
(* each place of the request has its own account of the process the entry  *)
(* holds, and a watcher may take that process away at every one of them.   *)
(***************************************************************************)
EXTENDS BrokerLifecycle, SequenceTheorems, TLAPS

\* The process n shows runs configuration c and, if it has pipes, announced the
\* tools n shows.
Matches(n, c) ==
    \A p \in Procs : Holds(n, p) =>
        /\ launched[p].config = c
        /\ c \in Stdio => entry[n].tools = c

\* The configuration of the server before the attempt in progress.
Before == IF old # None THEN old ELSE entry[name].config

\* A process that was launched stays known by name; nobody shows another's.
ProcInv ==
    /\ \A p \in Procs : life[p] # "unused" => launched[p] \in [name : Names, config : Configs]
    /\ \A p \in Procs : watch[p] # "none" => life[p] # "unused"
    /\ \A n \in Names, p \in Procs : Holds(n, p) => life[p] # "unused" /\ launched[p].name = n

\* What a request knows of its server.
RequestInv ==
    /\ pc # "idle" => name \in Names
    /\ pc \in {"try", "launch", "attach", "handshake", "failed"} => Registered(name)
    /\ pc \in {"stop", "wait"} =>
        then \in {"launch", "failed", "remove"} /\ (then # "remove" => Registered(name))
    /\ old # None =>
        /\ pc \in {"launch", "attach", "handshake", "failed", "stop", "wait"}
        /\ pc \in {"stop", "wait"} => then = "failed"
        /\ entry[name].config \in Stdio

\* What each place of a request knows of the process its server shows.
MatchInv ==
    /\ \A n \in Names : pc = "idle" \/ n # name => Matches(n, entry[n].config)
    /\ pc = "try" => Matches(name, entry[name].config)
    /\ pc \in {"launch", "failed"} => Matches(name, Before)
    /\ pc = "attach" =>
        \A p \in Procs : Holds(name, p) => launched[p].config = entry[name].config
    /\ pc = "handshake" =>
        /\ cur \in Procs
        /\ life[cur] # "unused"
        /\ launched[cur].config = entry[name].config
        /\ \A p \in Procs : Holds(name, p) => p = cur
    /\ pc = "wait" => cur \in signalled /\ \A p \in Procs : Holds(name, p) => p = cur
    /\ pc = "remove" => \A p \in Procs : ~Holds(name, p)

\* A client is stored for a registered name, and not for one that is being removed.
ClientInv ==
    /\ \A n \in httpClients : Registered(n)
    /\ pc = "remove" \/ (pc \in {"stop", "wait"} /\ then = "remove") => name \notin httpClients

IInv == TypeOK /\ ProcInv /\ RequestInv /\ MatchInv /\ ClientInv

-----------------------------------------------------------------------------
(* Types.                                                                  *)

\* The transports in another order.
LEMMA RotateType ==
    ASSUME NEW ts \in Menus, NEW i \in 1..Len(ts)
    PROVE  Rotate(ts, i) \in Seq(Configs) /\ ts[1] \in Configs
<1>1. ts \in Seq(Configs) /\ ts # << >>
  BY LifecycleAssumption
<1>2. Len(ts) \in Nat \ {0} /\ \A j \in 1..Len(ts) : ts[j] \in Configs
  BY <1>1, EmptySeq, ElementOfSeq
<1>3. i \in Int /\ Len(ts) \in Int /\ 1 \in Int /\ i - 1 \in Int
      /\ \A j \in i..Len(ts) : ts[j] \in Configs
  BY <1>2
<1>4. \A j \in 1..i-1 : ts[j] \in Configs
  BY <1>2
<1>5. SubSeq(ts, i, Len(ts)) \in Seq(Configs) /\ SubSeq(ts, 1, i - 1) \in Seq(Configs)
  BY <1>3, <1>4, SubSeqProperties
<1>6. QED
  BY <1>2, <1>5, ConcatProperties DEF Rotate

LEMMA TodoType ==
    ASSUME TypeOK, todo # << >>
    PROVE  Head(todo) \in Configs /\ Tail(todo) \in Seq(Configs)
BY HeadTailProperties DEF TypeOK

\* An entry with one field changed is an entry.
LEMMA EntryUpdated ==
    ASSUME TypeOK, NEW n \in Names
    PROVE  /\ \A e \in Entries \cup {None} :
                [entry EXCEPT ![n] = e] \in [Names -> Entries \cup {None}]
           /\ \A c \in Configs : NewEntry(c) \in Entries
           /\ Registered(n) => entry[n] \in Entries
           /\ Registered(n) =>
                /\ \A c \in Configs :
                    [entry EXCEPT ![n].config = c] \in [Names -> Entries \cup {None}]
                /\ \A p \in Procs \cup {None} :
                    [entry EXCEPT ![n].proc = p] \in [Names -> Entries \cup {None}]
                /\ \A c \in Configs :
                    [entry EXCEPT ![n].tools = c] \in [Names -> Entries \cup {None}]
           /\ ClearRuntime(n) => entry' \in [Names -> Entries \cup {None}]
<1>1. entry \in [Names -> Entries \cup {None}] /\ None \notin Entries
  BY LifecycleAssumption DEF TypeOK
<1>2. \A e \in Entries \cup {None} : [entry EXCEPT ![n] = e] \in [Names -> Entries \cup {None}]
  BY <1>1
<1>3. \A c \in Configs : NewEntry(c) \in Entries
  BY DEF NewEntry, Entries
<1>4. Registered(n) => entry[n] \in Entries
  BY <1>1 DEF Registered
<1>5. ASSUME Registered(n)
      PROVE  /\ \A c \in Configs : [entry[n] EXCEPT !.config = c] \in Entries
             /\ \A p \in Procs \cup {None} : [entry[n] EXCEPT !.proc = p] \in Entries
             /\ \A c \in Configs : [entry[n] EXCEPT !.tools = c] \in Entries
  BY <1>4, <1>5 DEF Entries
<1>6. ASSUME Registered(n)
      PROVE  /\ \A c \in Configs :
                    [entry EXCEPT ![n].config = c] \in [Names -> Entries \cup {None}]
             /\ \A p \in Procs \cup {None} :
                    [entry EXCEPT ![n].proc = p] \in [Names -> Entries \cup {None}]
             /\ \A c \in Configs :
                    [entry EXCEPT ![n].tools = c] \in [Names -> Entries \cup {None}]
  BY <1>1, <1>5, <1>6
<1>7. ClearRuntime(n) => entry' \in [Names -> Entries \cup {None}]
  BY <1>1, <1>6 DEF ClearRuntime
<1>8. QED
  BY <1>2, <1>3, <1>4, <1>6, <1>7

LEMMA TypeStep == TypeOK /\ ProcInv /\ RequestInv /\ [Next]_vars => TypeOK'
<1> SUFFICES ASSUME TypeOK, ProcInv, RequestInv, [Next]_vars PROVE TypeOK'
  OBVIOUS
<1> USE DEF proxyVars, procVars, requestVars
<1>1. CASE Request
  <2>1. ASSUME NEW m \in Names, StartServer(m) \/ Deregister(m) PROVE TypeOK'
    BY <2>1 DEF StartServer, Deregister, Begin, TypeOK
  <2>2. ASSUME NEW m \in Names, NEW c \in Configs, Register(m, c) PROVE TypeOK'
    BY <2>2, EntryUpdated DEF Register, TypeOK
  <2>3. ASSUME NEW m \in Names, NEW c \in Configs, Reload(m, c) PROVE TypeOK'
    <3>1. entry' \in [Names -> Entries \cup {None}]
      BY <2>3, EntryUpdated DEF Reload
    <3>2. QED
      BY <2>3, <3>1 DEF Reload, Begin, ProxyStop, SomeReadersReturn, TypeOK
  <2>4. ASSUME NEW m \in Names, NEW ts \in Menus, NEW i \in 1..Len(ts), Activate(m, ts, i)
        PROVE  TypeOK'
    BY <2>4, RotateType DEF Activate, Begin, TypeOK
  <2>5. ASSUME NEW m \in Names, NEW ts \in Menus, NEW i \in 1..Len(ts),
               ActivateFromCatalog(m, ts, i)
        PROVE  TypeOK'
    BY <2>5, RotateType, EntryUpdated DEF ActivateFromCatalog, Begin, TypeOK
  <2>6. QED
    BY <1>1, <2>1, <2>2, <2>3, <2>4, <2>5 DEF Request
<1>2. CASE TryHttp
  <2>1. Head(todo) \in Configs /\ Tail(todo) \in Seq(Configs) /\ name \in Names
    BY <1>2, TodoType DEF TryHttp, RequestInv
  <2>2. [config |-> Head(todo), proc |-> None, tools |-> Head(todo)] \in Entries
    BY <2>1 DEF Entries
  <2> DEFINE served == [config |-> Head(todo), proc |-> None, tools |-> Head(todo)]
  <2> HIDE DEF served
  <2>3. [entry EXCEPT ![name] = served] \in [Names -> Entries \cup {None}]
    BY <2>1, <2>2, EntryUpdated DEF served
  <2>4. CASE todo' = Tail(todo) /\ UNCHANGED <<entry, httpClients, pc, name, cur, then, old>>
    BY <1>2, <2>1, <2>4 DEF TryHttp, TypeOK
  <2>5. CASE entry' = [entry EXCEPT ![name] = served] /\ httpClients' = httpClients \cup {name} /\ Return
    BY <1>2, <2>1, <2>3, <2>5, EmptySeq DEF TryHttp, Return, TypeOK
  <2>6. QED
    BY <1>2, <2>4, <2>5 DEF TryHttp, served
<1>3. CASE TryStdio
  <2>1. Head(todo) \in Configs /\ Tail(todo) \in Seq(Configs) /\ name \in Names /\ Registered(name)
    BY <1>3, TodoType DEF TryStdio, RequestInv
  <2>2. entry[name].config \in Configs
    BY <2>1, EntryUpdated DEF Entries
  <2>3. entry' \in [Names -> Entries \cup {None}]
    BY <1>3, <2>1, EntryUpdated DEF TryStdio
  <2>4. QED
    BY <1>3, <2>1, <2>2, <2>3 DEF TryStdio, TypeOK
<1>4. CASE AllTransportsFailed \/ LaunchFails \/ NoPipes \/ Interrupt \/ NothingToStop
  <2>1. pc = "stop" => then \in {"launch", "failed", "remove"}
    BY DEF RequestInv, TypeOK
  <2>2. name \in Names /\ (Registered(name) => entry[name].proc \in Procs \cup {None})
    BY <1>4, EntryUpdated DEF AllTransportsFailed, LaunchFails, NoPipes, Interrupt, NothingToStop,
        Step, RequestInv, Entries
  <2>3. QED
    BY <1>4, <2>1, <2>2, EmptySeq DEF AllTransportsFailed, LaunchFails, NoPipes, Interrupt,
        NothingToStop, Step, Return, TypeOK
<1>5. CASE StartFailed
  <2>1. name \in Names /\ Registered(name)
    BY <1>5 DEF StartFailed, RequestInv
  <2>2. entry' \in [Names -> Entries \cup {None}]
    BY <1>5, <2>1, EntryUpdated DEF StartFailed, TypeOK
  <2>3. QED
    BY <1>5, <2>2, EmptySeq DEF StartFailed, Return, TypeOK
<1>6. CASE Launch
  <2>1. name \in Names /\ Registered(name) /\ entry[name].config \in Configs
    BY <1>6, EntryUpdated DEF Launch, Step, RequestInv, Entries
  <2>2. PICK p \in Procs : /\ entry' = [entry EXCEPT ![name].proc = p]
                           /\ life' = [life EXCEPT ![p] = "running"]
                           /\ launched' = [launched EXCEPT
                                ![p] = [name |-> name, config |-> entry[name].config]]
                           /\ watch' = [watch EXCEPT ![p] = "waiting"]
    BY <1>6 DEF Launch
  <2>3. entry' \in [Names -> Entries \cup {None}]
    BY <2>1, <2>2, EntryUpdated
  <2>4. launched' \in [Procs -> [name : Names, config : Configs] \cup {Unlaunched}]
    BY <2>1, <2>2 DEF TypeOK
  <2>5. QED
    BY <1>6, <2>2, <2>3, <2>4 DEF Launch, Step, TypeOK
<1>7. CASE Attach
  <2>1. cur' \in Procs
    BY <1>7, EntryUpdated DEF Attach, Step, HasPipes, RequestInv, Entries
  <2>2. QED
    BY <1>7, <2>1 DEF Attach, Step, ProxyStartReader, SomeReadersReturn, TypeOK
<1>8. CASE Handshake
  <2>1. name \in Names /\ Registered(name) /\ cur \in Procs \cup {None}
    BY <1>8 DEF Handshake, RequestInv, TypeOK
  <2>2. readers \subseteq Procs /\ cur \in Procs
    BY <1>8 DEF Handshake, TypeOK
  <2>3. CASE launched[cur].config \in Configs
    BY <1>8, <2>1, <2>3, EntryUpdated, EmptySeq DEF Handshake, Return, TypeOK
  <2>4. CASE launched[cur].config \notin Configs
    <3>1. launched[cur] = Unlaunched
      BY <2>2, <2>4 DEF TypeOK
    <3>2. entry' = [entry EXCEPT ![name].tools = None]
      BY <1>8, <3>1 DEF Handshake, Unlaunched
    <3>3. entry' \in [Names -> Entries \cup {None}]
      BY <2>1, <3>2 DEF TypeOK, Entries, Registered
    <3>4. QED
      BY <1>8, <3>3, EmptySeq DEF Handshake, Return, TypeOK
  <2>5. QED
    BY <2>3, <2>4
<1>9. CASE HandshakeFails
  BY <1>9 DEF HandshakeFails, Step, ProxyStop, SomeReadersReturn, TypeOK
<1>10. CASE Stopped
  <2>1. name \in Names /\ then \in {"launch", "failed", "remove"}
    BY <1>10 DEF Stopped, Step, RequestInv, TypeOK
  <2>2. QED
    BY <1>10, <2>1, EntryUpdated DEF Stopped, Step, TypeOK
<1>11. CASE Remove
  <2>1. name \in Names
    BY <1>11 DEF Remove, RequestInv
  <2>2. QED
    BY <1>11, <2>1, EntryUpdated, EmptySeq DEF Remove, Return, TypeOK
<1>12. ASSUME NEW p \in Procs, Exit(p) \/ EndOfStream(p) \/ CloseDone(p) \/ Reap(p) PROVE TypeOK'
  <2>1. CASE Exit(p)
    BY <2>1 DEF Exit, TypeOK
  <2>2. CASE EndOfStream(p)
    BY <2>2 DEF EndOfStream, TypeOK
  <2>3. CASE CloseDone(p)
    BY <2>3 DEF CloseDone, TypeOK
  <2>4. CASE Reap(p)
    BY <2>4 DEF Reap, TypeOK
  <2>5. QED
    BY <1>12, <2>1, <2>2, <2>3, <2>4
<1>13. ASSUME NEW p \in Procs, ClearAfterExit(p) PROVE TypeOK'
  <2>1. launched[p].name \in Names
    BY <1>13 DEF ClearAfterExit, ProcInv
  <2>2. QED
    BY <1>13, <2>1, EntryUpdated DEF ClearAfterExit, TypeOK
<1>14. CASE UNCHANGED vars
  BY <1>14 DEF vars, TypeOK
<1>15. QED
  BY <1>1, <1>2, <1>3, <1>4, <1>5, <1>6, <1>7, <1>8, <1>9, <1>10, <1>11, <1>12, <1>13, <1>14
     DEF Next, Request, RequestStep, Watcher

-----------------------------------------------------------------------------
(* What the assignments do to the entries.                                 *)

\* The entries of all names but n are as they were.
OnlyEntry(n) == \A m \in Names : m # n => entry'[m] = entry[m]

\* n has configuration c, process p and tools t.
Shows(n, c, p, t) ==
    Registered(n)' /\ entry'[n].config = c /\ entry'[n].proc = p /\ entry'[n].tools = t

LEMMA EntryEffects ==
    ASSUME TypeOK, NEW n \in Names
    PROVE  /\ \A c \in Configs : entry' = [entry EXCEPT ![n] = NewEntry(c)]
                => OnlyEntry(n) /\ Shows(n, c, None, None)
           /\ entry' = [entry EXCEPT ![n] = None] => OnlyEntry(n) /\ ~Registered(n)'
           /\ \A c \in Configs : Registered(n) /\ entry' = [entry EXCEPT ![n].config = c]
                => OnlyEntry(n) /\ Shows(n, c, entry[n].proc, entry[n].tools)
           /\ \A p \in Procs \cup {None} : Registered(n) /\ entry' = [entry EXCEPT ![n].proc = p]
                => OnlyEntry(n) /\ Shows(n, entry[n].config, p, entry[n].tools)
           /\ \A t \in Configs : Registered(n) /\ entry' = [entry EXCEPT ![n].tools = t]
                => OnlyEntry(n) /\ Shows(n, entry[n].config, entry[n].proc, t)
           /\ ClearRuntime(n)
                => /\ OnlyEntry(n)
                   /\ ~Registered(n) => entry'[n] = entry[n]
                   /\ Registered(n) => Shows(n, entry[n].config, None, entry[n].tools)
<1>1. entry \in [Names -> Entries \cup {None}] /\ None \notin Entries
  BY LifecycleAssumption DEF TypeOK
<1>2. Registered(n) => entry[n] \in Entries
  BY <1>1 DEF Registered
<1>3. ASSUME NEW e, entry' = [entry EXCEPT ![n] = e]
      PROVE  entry'[n] = e /\ OnlyEntry(n) /\ (e \in Entries => Registered(n)')
  BY <1>1, <1>3 DEF OnlyEntry, Registered
<1>4. ASSUME NEW c \in Configs, entry' = [entry EXCEPT ![n] = NewEntry(c)]
      PROVE  OnlyEntry(n) /\ Shows(n, c, None, None)
  BY <1>1, <1>3, <1>4, EntryUpdated DEF Shows, NewEntry
<1>5. entry' = [entry EXCEPT ![n] = None] => OnlyEntry(n) /\ ~Registered(n)'
  BY <1>3 DEF Registered
<1>6. ASSUME NEW c \in Configs, Registered(n), entry' = [entry EXCEPT ![n].config = c]
      PROVE  OnlyEntry(n) /\ Shows(n, c, entry[n].proc, entry[n].tools)
  <2>1. entry' = [entry EXCEPT ![n] = [entry[n] EXCEPT !.config = c]]
    BY <1>1, <1>6
  <2> DEFINE e == [entry[n] EXCEPT !.config = c]
  <2>2. e \in Entries /\ e.config = c /\ e.proc = entry[n].proc /\ e.tools = entry[n].tools
    BY <1>2, <1>6 DEF Entries
  <2> HIDE DEF e
  <2>3. entry' = [entry EXCEPT ![n] = e]
    BY <2>1 DEF e
  <2>4. entry'[n] = e /\ OnlyEntry(n) /\ Registered(n)'
    BY <1>3, <2>2, <2>3
  <2>5. QED
    BY <2>2, <2>4 DEF Shows
<1>7. ASSUME NEW p \in Procs \cup {None}, Registered(n), entry' = [entry EXCEPT ![n].proc = p]
      PROVE  OnlyEntry(n) /\ Shows(n, entry[n].config, p, entry[n].tools)
  <2>1. entry' = [entry EXCEPT ![n] = [entry[n] EXCEPT !.proc = p]]
    BY <1>1, <1>7
  <2> DEFINE e == [entry[n] EXCEPT !.proc = p]
  <2>2. e \in Entries /\ e.proc = p /\ e.config = entry[n].config /\ e.tools = entry[n].tools
    BY <1>2, <1>7 DEF Entries
  <2> HIDE DEF e
  <2>3. entry' = [entry EXCEPT ![n] = e]
    BY <2>1 DEF e
  <2>4. entry'[n] = e /\ OnlyEntry(n) /\ Registered(n)'
    BY <1>3, <2>2, <2>3
  <2>5. QED
    BY <2>2, <2>4 DEF Shows
<1>8. ASSUME NEW t \in Configs, Registered(n), entry' = [entry EXCEPT ![n].tools = t]
      PROVE  OnlyEntry(n) /\ Shows(n, entry[n].config, entry[n].proc, t)
  <2>1. entry' = [entry EXCEPT ![n] = [entry[n] EXCEPT !.tools = t]]
    BY <1>1, <1>8
  <2> DEFINE e == [entry[n] EXCEPT !.tools = t]
  <2>2. e \in Entries /\ e.tools = t /\ e.config = entry[n].config /\ e.proc = entry[n].proc
    BY <1>2, <1>8 DEF Entries
  <2> HIDE DEF e
  <2>3. entry' = [entry EXCEPT ![n] = e]
    BY <2>1 DEF e
  <2>4. entry'[n] = e /\ OnlyEntry(n) /\ Registered(n)'
    BY <1>3, <2>2, <2>3
  <2>5. QED
    BY <2>2, <2>4 DEF Shows
<1>9. ASSUME ClearRuntime(n)
      PROVE  /\ OnlyEntry(n)
             /\ ~Registered(n) => entry'[n] = entry[n]
             /\ Registered(n) => Shows(n, entry[n].config, None, entry[n].tools)
  <2>1. CASE Registered(n)
    BY <1>7, <1>9, <2>1 DEF ClearRuntime
  <2>2. CASE ~Registered(n)
    BY <1>9, <2>2 DEF ClearRuntime, OnlyEntry
  <2>3. QED
    BY <2>1, <2>2
<1>10. QED
  BY <1>4, <1>5, <1>6, <1>7, <1>8, <1>9

-----------------------------------------------------------------------------
(* The steps beside the request.                                           *)

\* An entry has lost its process, or nothing.
Dropped ==
    \A n \in Names :
        /\ Registered(n)' <=> Registered(n)
        /\ Registered(n) => /\ entry'[n].config = entry[n].config
                            /\ entry'[n].tools = entry[n].tools
                            /\ entry'[n].proc \in {entry[n].proc, None}

\* A process taken away from an entry disturbs no request.
LEMMA DropsKeep ==
    ASSUME IInv, Dropped, UNCHANGED <<launched, signalled, httpClients, requestVars>>,
           \A p \in Procs : life[p] # "unused" => life'[p] # "unused",
           \A p \in Procs : life'[p] # "unused" => life[p] # "unused",
           \A p \in Procs : watch'[p] # "none" => watch[p] # "none"
    PROVE  ProcInv' /\ RequestInv' /\ MatchInv' /\ ClientInv'
<1>1. None \notin Procs
  BY LifecycleAssumption
<1>2. \A n \in Names, p \in Procs : Holds(n, p)' => Holds(n, p)
  BY <1>1 DEF Dropped, Holds
<1>3. ProcInv'
  BY <1>2 DEF IInv, ProcInv
<1>4. \A n \in Names : Registered(n) => entry'[n].config = entry[n].config
  BY DEF Dropped
<1>5. RequestInv'
  BY <1>4 DEF Dropped, IInv, RequestInv, requestVars
<1>6. \A n \in Names : \A c : Matches(n, c) => Matches(n, c)'
  BY <1>2 DEF Matches, Dropped, Holds
<1>7. \A n \in Names : Matches(n, entry[n].config) => Matches(n, entry[n].config)'
  BY <1>2, <1>4, <1>6 DEF Matches, Holds
<1>8. pc \in {"launch", "failed"} => Before' = Before
  BY <1>4 DEF IInv, RequestInv, Before, requestVars
<1>9. MatchInv'
  BY <1>2, <1>4, <1>6, <1>7, <1>8 DEF IInv, MatchInv, RequestInv, Holds, requestVars
<1>10. ClientInv'
  BY DEF Dropped, IInv, ClientInv, TypeOK, requestVars
<1>11. QED
  BY <1>3, <1>5, <1>9, <1>10

LEMMA BesideKeeps ==
    ASSUME IInv, NEW p \in Procs, Exit(p) \/ EndOfStream(p) \/ CloseDone(p) \/ Watcher(p)
    PROVE  ProcInv' /\ RequestInv' /\ MatchInv' /\ ClientInv'
<1>1. CASE Exit(p) \/ EndOfStream(p) \/ CloseDone(p) \/ Reap(p)
  <2>1. entry' = entry
    BY <1>1 DEF Exit, EndOfStream, CloseDone, Reap
  <2>2. Dropped
    BY <2>1 DEF Dropped, Registered
  <2>3. UNCHANGED <<launched, signalled, httpClients, requestVars>>
    BY <1>1 DEF Exit, EndOfStream, CloseDone, Reap, procVars
  <2>4. /\ \A q \in Procs : life[q] # "unused" <=> life'[q] # "unused"
        /\ \A q \in Procs : watch'[q] # "none" => watch[q] # "none"
    BY <1>1 DEF Exit, EndOfStream, CloseDone, Reap, procVars, IInv, TypeOK
  <2>5. QED
    BY <2>2, <2>3, <2>4, DropsKeep
<1>2. CASE ClearAfterExit(p)
  <2>1. launched[p].name \in Names /\ ClearRuntime(launched[p].name)
    BY <1>2 DEF ClearAfterExit, IInv, ProcInv
  <2>2. Dropped
    BY <2>1, EntryEffects DEF Dropped, IInv, OnlyEntry, Shows, Registered
  <2>3. UNCHANGED <<life, launched, signalled, httpClients, requestVars>>
    BY <1>2 DEF ClearAfterExit, procVars
  <2>4. \A q \in Procs : watch'[q] # "none" => watch[q] # "none"
    BY <1>2 DEF ClearAfterExit, IInv, TypeOK
  <2>5. QED
    BY <2>2, <2>3, <2>4, DropsKeep
<1>3. QED
  BY <1>1, <1>2 DEF Watcher

-----------------------------------------------------------------------------
(* The steps of a request.                                                 *)

Kept == ProcInv' /\ RequestInv' /\ MatchInv' /\ ClientInv'

\* What is known of a name whose entry and process a step leaves alone.
LEMMA OthersKeep ==
    ASSUME IInv, NEW n \in Names, OnlyEntry(n),
           \A p \in Procs : life[p] # "unused" => launched'[p] = launched[p]
    PROVE  /\ \A m \in Names, p \in Procs : m # n => (Holds(m, p)' <=> Holds(m, p))
           /\ \A m \in Names : m # n => (Registered(m)' <=> Registered(m))
           /\ \A m \in Names : m # n /\ Matches(m, entry[m].config) => Matches(m, entry[m].config)'
BY DEF OnlyEntry, Holds, Registered, Matches, IInv, ProcInv

\* A request begins.
LEMMA RequestKeeps == ASSUME IInv, Request PROVE Kept
<1>1. pc = "idle" /\ old = None
  BY DEF IInv, RequestInv, Request, StartServer, Deregister, Register, Reload, Activate,
     ActivateFromCatalog, Begin
<1>2. ASSUME NEW n \in Names,
             \/ StartServer(n) \/ Deregister(n)
             \/ \E ts \in Menus : \E i \in 1..Len(ts) : Activate(n, ts, i)
      PROVE  Kept
  <2>1. /\ UNCHANGED <<entry, life, launched, signalled, watch, cur, old>> /\ name' = n
        /\ \/ pc' \in {"launch", "try"} /\ Registered(n) /\ httpClients' = httpClients
           \/ pc' = "stop" /\ then' = "remove" /\ httpClients' = httpClients \ {n}
    BY <1>2 DEF StartServer, Deregister, Activate, Begin, procVars
  <2>2. \A m \in Names : /\ Registered(m)' <=> Registered(m)
                         /\ Matches(m, entry[m].config)' <=> Matches(m, entry[m].config)
                         /\ \A p \in Procs : Holds(m, p)' <=> Holds(m, p)
    BY <2>1 DEF Registered, Matches, Holds
  <2>3. ProcInv' /\ ClientInv'
    BY <2>1, <2>2 DEF IInv, ProcInv, ClientInv, TypeOK
  <2>4. RequestInv'
    BY <1>1, <2>1, <2>2 DEF RequestInv
  <2>5. Before' = entry[n].config
    BY <1>1, <2>1 DEF Before
  <2>6. MatchInv'
    BY <1>1, <2>1, <2>2, <2>5 DEF IInv, MatchInv
  <2>7. QED
    BY <2>3, <2>4, <2>6 DEF Kept
<1>3. ASSUME NEW n \in Names, NEW c \in Configs, Register(n, c) PROVE Kept
  <2>1. UNCHANGED <<httpClients, life, launched, signalled, watch, pc, name, cur, then, old>>
        /\ entry' = [entry EXCEPT ![n] = NewEntry(c)]
    BY <1>3 DEF Register, procVars, requestVars
  <2>2. OnlyEntry(n) /\ Shows(n, c, None, None)
    BY <2>1, EntryEffects DEF IInv
  <2>3. \A p \in Procs : ~Holds(n, p)'
    BY <2>2, LifecycleAssumption DEF Shows, Holds
  <2>4. ProcInv' /\ RequestInv' /\ ClientInv'
    BY <1>1, <2>1, <2>2, <2>3, OthersKeep DEF IInv, ProcInv, RequestInv, ClientInv, Shows, TypeOK
  <2>5. MatchInv'
    BY <1>1, <2>1, <2>2, <2>3, OthersKeep DEF IInv, MatchInv, Matches
  <2>6. QED
    BY <2>4, <2>5 DEF Kept
<1>4. ASSUME NEW n \in Names, NEW c \in Configs, Reload(n, c) PROVE Kept
  <2>1. /\ UNCHANGED <<httpClients, life, launched, signalled, watch, cur, old>> /\ name' = n
        /\ Registered(n) /\ entry' = [entry EXCEPT ![n].config = c]
        /\ \/ pc' = "launch" /\ entry[n].proc = None
           \/ pc' = "stop" /\ then' = "launch"
    BY <1>4 DEF Reload, Begin, procVars
  <2>2. OnlyEntry(n) /\ Shows(n, c, entry[n].proc, entry[n].tools)
    BY <2>1, EntryEffects DEF IInv
  <2>3. (\A p \in Procs : Holds(n, p)' <=> Holds(n, p)) /\ Registered(n)'
    BY <2>1, <2>2 DEF Shows, Holds
  <2>4. ProcInv'
    BY <2>1, <2>2, <2>3, OthersKeep DEF IInv, ProcInv
  <2>5. RequestInv'
    BY <1>1, <2>1, <2>3 DEF RequestInv
  <2>6. ClientInv'
    BY <2>1, <2>2, <2>3, OthersKeep DEF IInv, ClientInv, TypeOK
  <2>7. pc' = "launch" => \A p \in Procs : ~Holds(n, p)
    BY <2>1, LifecycleAssumption DEF Holds
  <2>8. MatchInv'
    BY <1>1, <2>1, <2>2, <2>3, <2>7, OthersKeep DEF IInv, MatchInv, Matches
  <2>9. QED
    BY <2>4, <2>5, <2>6, <2>8 DEF Kept
<1>5. ASSUME NEW n \in Names, NEW ts \in Menus, NEW i \in 1..Len(ts),
             ActivateFromCatalog(n, ts, i)
      PROVE  Kept
  <2>1. /\ UNCHANGED <<httpClients, life, launched, signalled, watch, cur, old>> /\ name' = n
        /\ entry' = [entry EXCEPT ![n] = NewEntry(ts[1])] /\ pc' = "try"
    BY <1>5 DEF ActivateFromCatalog, Begin, procVars
  <2>2. OnlyEntry(n) /\ Shows(n, ts[1], None, None)
    BY <2>1, EntryEffects, RotateType DEF IInv
  <2>3. Registered(n)' /\ \A p \in Procs : ~Holds(n, p)'
    BY <2>2, LifecycleAssumption DEF Shows, Holds
  <2>4. ProcInv' /\ RequestInv' /\ ClientInv'
    BY <1>1, <2>1, <2>2, <2>3, OthersKeep DEF IInv, ProcInv, RequestInv, ClientInv, TypeOK
  <2>5. MatchInv'
    BY <1>1, <2>1, <2>2, <2>3, OthersKeep DEF IInv, MatchInv, Matches
  <2>6. QED
    BY <2>4, <2>5 DEF Kept
<1>6. QED
  BY <1>2, <1>3, <1>4, <1>5 DEF Request

LEMMA TryKeeps == ASSUME IInv, TryHttp \/ TryStdio \/ AllTransportsFailed PROVE Kept
<1>1. /\ pc = "try" /\ old = None /\ name \in Names /\ Registered(name)
      /\ UNCHANGED <<life, launched, signalled, watch>>
      /\ Matches(name, entry[name].config)
  BY DEF TryHttp, TryStdio, AllTransportsFailed, procVars, IInv, RequestInv, MatchInv
<1>2. ASSUME UNCHANGED <<entry, httpClients>>,
             \/ pc' = "idle" /\ old' = None
             \/ UNCHANGED <<pc, name, old>>
      PROVE  Kept
  <2>1. \A m \in Names : /\ Registered(m)' <=> Registered(m)
                         /\ Matches(m, entry[m].config)' <=> Matches(m, entry[m].config)
                         /\ \A p \in Procs : Holds(m, p)' <=> Holds(m, p)
    BY <1>1, <1>2 DEF Registered, Matches, Holds
  <2>2. ProcInv' /\ RequestInv' /\ ClientInv'
    BY <1>1, <1>2, <2>1 DEF IInv, ProcInv, RequestInv, ClientInv, TypeOK
  <2>3. MatchInv'
    BY <1>1, <1>2, <2>1 DEF IInv, MatchInv
  <2>4. QED
    BY <2>2, <2>3 DEF Kept
<1>3. CASE TryHttp
  <2>1. Head(todo) \in Configs
    BY <1>3, TodoType DEF TryHttp, IInv
  <2> DEFINE served == [config |-> Head(todo), proc |-> None, tools |-> Head(todo)]
  <2>2. CASE UNCHANGED <<entry, httpClients, pc, name, cur, then, old>>
    BY <1>2, <2>2
  <2>3. CASE entry' = [entry EXCEPT ![name] = served] /\ httpClients' = httpClients \cup {name} /\ Return
    <3>1. served \in Entries /\ served.proc = None
      BY <2>1 DEF Entries
    <3> HIDE DEF served
    <3>2. PICK n \in Names : n = name
      BY <1>1
    <3>3. OnlyEntry(n) /\ entry'[n] = served /\ Registered(n)'
      BY <2>3, <3>1, <3>2, LifecycleAssumption DEF OnlyEntry, Registered, IInv, TypeOK
    <3>4. \A p \in Procs : ~Holds(n, p)'
      BY <3>1, <3>3, LifecycleAssumption DEF Holds
    <3>5. pc' = "idle" /\ old' = None
      BY <2>3 DEF Return
    <3>6. \A m \in Names, p \in Procs : Holds(m, p)' => m # n /\ Holds(m, p)
      BY <1>1, <3>3, <3>4, OthersKeep
    <3>7. ProcInv' /\ RequestInv'
      BY <1>1, <3>5, <3>6 DEF IInv, ProcInv, RequestInv
    <3>8. \A m \in httpClients : m \in Names /\ Registered(m)'
      BY <1>1, <3>3, OthersKeep DEF IInv, ClientInv, TypeOK
    <3>9. ClientInv'
      BY <2>3, <3>2, <3>3, <3>5, <3>8 DEF ClientInv
    <3>10. MatchInv'
      BY <1>1, <3>2, <3>3, <3>4, <3>5, OthersKeep DEF IInv, MatchInv, Matches
    <3>11. QED
      BY <3>7, <3>9, <3>10 DEF Kept
  <2>4. QED
    BY <1>3, <2>2, <2>3 DEF TryHttp
<1>4. CASE TryStdio
  <2>1. Head(todo) \in Configs /\ Head(todo) \in Stdio
    BY <1>4, TodoType DEF TryStdio, IInv
  <2>2. /\ old' = entry[name].config /\ entry' = [entry EXCEPT ![name].config = Head(todo)]
        /\ pc' = "launch" /\ UNCHANGED <<httpClients, name>>
    BY <1>4 DEF TryStdio
  <2>3. OnlyEntry(name) /\ Shows(name, Head(todo), entry[name].proc, entry[name].tools)
    BY <1>1, <2>1, <2>2, EntryEffects DEF IInv
  <2>4. (\A p \in Procs : Holds(name, p)' <=> Holds(name, p)) /\ Registered(name)'
    BY <1>1, <2>2, <2>3 DEF Shows, Holds
  <2>5. ProcInv' /\ ClientInv'
    BY <1>1, <2>2, <2>4, <2>3, OthersKeep DEF IInv, ProcInv, ClientInv, TypeOK
  <2>6. RequestInv'
    BY <1>1, <2>1, <2>2, <2>3, <2>4 DEF RequestInv, Shows
  <2>7. entry[name].config \in Configs
    BY <1>1, EntryUpdated DEF IInv, Entries
  <2>8. Before' = entry[name].config
    BY <2>2, <2>7, LifecycleAssumption DEF Before
  <2>9. Matches(name, Before)'
    BY <1>1, <2>2, <2>3, <2>4, <2>8 DEF Matches, Shows
  <2>10. MatchInv'
    BY <1>1, <2>2, <2>3, <2>9, OthersKeep DEF IInv, MatchInv
  <2>11. QED
    BY <2>5, <2>6, <2>10 DEF Kept
<1>5. CASE AllTransportsFailed
  BY <1>2, <1>5 DEF AllTransportsFailed, Return
<1>6. QED
  BY <1>3, <1>4, <1>5

LEMMA LaunchKeeps == ASSUME IInv, Launch \/ LaunchFails PROVE Kept
<1>1. pc = "launch" /\ name \in Names /\ Registered(name) /\ entry[name].config \in Configs
  BY EntryUpdated DEF Launch, LaunchFails, Step, IInv, RequestInv, Entries
<1>2. CASE Launch
  <2>1. PICK p \in Procs : /\ life[p] = "unused"
                           /\ entry' = [entry EXCEPT ![name].proc = p]
                           /\ life' = [life EXCEPT ![p] = "running"]
                           /\ launched' = [launched EXCEPT
                                ![p] = [name |-> name, config |-> entry[name].config]]
                           /\ watch' = [watch EXCEPT ![p] = "waiting"]
    BY <1>2 DEF Launch
  <2>2. UNCHANGED <<httpClients, signalled, name, old>> /\ pc' = "attach"
    BY <1>2 DEF Launch, Step
  <2>3. OnlyEntry(name) /\ Shows(name, entry[name].config, p, entry[name].tools)
    BY <1>1, <2>1, EntryEffects DEF IInv
  <2>4. Registered(name)' /\ \A q \in Procs : Holds(name, q)' => q = p
    BY <2>2, <2>3 DEF Shows, Holds
  <2>5. /\ launched'[p] = [name |-> name, config |-> entry[name].config]
        /\ \A q \in Procs : q # p => launched'[q] = launched[q] /\ life'[q] = life[q]
                                     /\ watch'[q] = watch[q]
        /\ life'[p] = "running"
    BY <2>1 DEF IInv, TypeOK
  <2>6. \A q \in Procs : life[q] # "unused" => launched'[q] = launched[q]
    BY <2>1, <2>5
  <2>7. ProcInv'
    BY <1>1, <2>1, <2>2, <2>3, <2>4, <2>5, <2>6, OthersKeep DEF IInv, ProcInv
  <2>8. RequestInv'
    BY <1>1, <2>2, <2>3, <2>4 DEF IInv, RequestInv, Shows
  <2>9. ClientInv'
    BY <1>1, <2>2, <2>4, <2>3, <2>6, OthersKeep DEF IInv, ClientInv, TypeOK
  <2>10. MatchInv'
    BY <1>1, <2>2, <2>3, <2>4, <2>5, <2>6, OthersKeep DEF IInv, MatchInv, Shows
  <2>11. QED
    BY <2>7, <2>8, <2>9, <2>10 DEF Kept
<1>3. CASE LaunchFails
  <2>1. UNCHANGED <<entry, httpClients, life, launched, signalled, watch, name, old>>
        /\ pc' = "failed"
    BY <1>3 DEF LaunchFails, Step, procVars
  <2>2. \A m \in Names : /\ Registered(m)' <=> Registered(m)
                         /\ Matches(m, entry[m].config)' <=> Matches(m, entry[m].config)
                         /\ \A p \in Procs : Holds(m, p)' <=> Holds(m, p)
    BY <2>1 DEF Registered, Matches, Holds
  <2>3. ProcInv' /\ RequestInv' /\ ClientInv'
    BY <1>1, <2>1, <2>2 DEF IInv, ProcInv, RequestInv, ClientInv, TypeOK
  <2>4. Matches(name, Before)'
    BY <1>1, <2>1 DEF IInv, MatchInv, Matches, Before, Holds, Registered
  <2>5. MatchInv'
    BY <1>1, <2>1, <2>2, <2>4 DEF IInv, MatchInv
  <2>6. QED
    BY <2>3, <2>5 DEF Kept
<1>4. QED
  BY <1>2, <1>3

\* A step that leaves the entries and the processes alone leaves what they say.
LEMMA SameEntries ==
    ASSUME UNCHANGED <<entry, life, launched>>
    PROVE  \A m \in Names : /\ Registered(m)' <=> Registered(m)
                            /\ Matches(m, entry[m].config)' <=> Matches(m, entry[m].config)
                            /\ \A p \in Procs : Holds(m, p)' <=> Holds(m, p)
BY DEF Registered, Matches, Holds

LEMMA StartFailedKeeps == ASSUME IInv, StartFailed PROVE Kept
<1>1. PICK n \in Names : n = name
  BY DEF StartFailed, IInv, RequestInv
<1>2. /\ pc = "failed" /\ Registered(n) /\ Matches(n, Before)
      /\ UNCHANGED <<httpClients, life, launched, signalled, watch>>
  BY <1>1 DEF StartFailed, procVars, IInv, RequestInv, MatchInv
<1>3. CASE old = None
  <2>1. entry' = entry /\ pc' = "idle" /\ old' = None
    BY <1>3 DEF StartFailed, Return
  <2>2. Matches(n, entry[n].config)
    BY <1>1, <1>2, <1>3 DEF Before
  <2>3. ProcInv' /\ RequestInv' /\ ClientInv'
    BY <1>2, <2>1, SameEntries DEF IInv, ProcInv, RequestInv, ClientInv, TypeOK
  <2>4. MatchInv'
    BY <1>1, <1>2, <2>1, <2>2, SameEntries DEF IInv, MatchInv
  <2>5. QED
    BY <2>3, <2>4 DEF Kept
<1>4. CASE old # None
  <2>1. /\ entry' = [entry EXCEPT ![n].config = old] /\ pc' = "try" /\ old' = None /\ name' = name
        /\ old \in Configs
    BY <1>1, <1>4 DEF StartFailed, IInv, TypeOK
  <2>2. OnlyEntry(n) /\ Shows(n, old, entry[n].proc, entry[n].tools)
    BY <1>2, <2>1, EntryEffects DEF IInv
  <2>3. (\A p \in Procs : Holds(n, p)' <=> Holds(n, p)) /\ Registered(n)'
    BY <1>2, <2>2 DEF Shows, Holds
  <2>4. ProcInv' /\ RequestInv' /\ ClientInv'
    BY <1>1, <1>2, <2>1, <2>2, <2>3, OthersKeep DEF IInv, ProcInv, RequestInv, ClientInv, TypeOK
  <2>5. Matches(n, entry[n].config)'
    BY <1>2, <1>4, <2>2, <2>3 DEF Matches, Before, Shows
  <2>6. MatchInv'
    BY <1>1, <1>2, <2>1, <2>2, <2>5, OthersKeep DEF IInv, MatchInv
  <2>7. QED
    BY <2>4, <2>6 DEF Kept
<1>5. QED
  BY <1>3, <1>4

LEMMA AttachKeeps == ASSUME IInv, Attach \/ NoPipes PROVE Kept
<1>1. PICK n \in Names : n = name
  BY DEF Attach, NoPipes, Step, IInv, RequestInv
<1>2. /\ pc = "attach" /\ Registered(n) /\ UNCHANGED <<entry, httpClients, name, old>>
      /\ UNCHANGED <<life, launched, signalled, watch>>
      /\ \A p \in Procs : Holds(n, p) => launched[p].config = entry[n].config
  BY <1>1 DEF Attach, NoPipes, Step, procVars, IInv, RequestInv, MatchInv
<1>3. ProcInv' /\ ClientInv' /\ RequestInv'
  BY <1>1, <1>2, SameEntries DEF Attach, NoPipes, Step, IInv, ProcInv, ClientInv, RequestInv, TypeOK
<1>4. \A p \in Procs : Holds(n, p) <=> entry[n].proc = p
  BY <1>2 DEF Holds
<1>5. entry[n].proc \in Procs \cup {None}
  BY <1>2, EntryUpdated DEF IInv, Entries
<1>6. CASE Attach
  <2>1. pc' = "handshake" /\ cur' = entry[n].proc /\ cur' \in Procs
    BY <1>1, <1>5, <1>6 DEF Attach, Step, HasPipes
  <2>2. Holds(n, cur')
    BY <1>2, <2>1 DEF Holds
  <2>3. MatchInv'
    BY <1>1, <1>2, <1>4, <2>1, <2>2, SameEntries DEF IInv, MatchInv, ProcInv
  <2>4. QED
    BY <1>3, <2>3 DEF Kept
<1>7. CASE NoPipes
  <2>1. pc' = "failed"
    BY <1>7 DEF NoPipes, Step
  <2>2. \A p \in Procs : Holds(n, p) => launched[p].config \notin Stdio
    BY <1>1, <1>4, <1>7, LifecycleAssumption DEF NoPipes, HasPipes
  <2>3. Matches(n, Before)
    <3>1. CASE old = None
      BY <1>1, <1>2, <2>2, <3>1 DEF Matches, Before
    <3>2. CASE old # None
      BY <1>1, <1>2, <2>2, <3>2 DEF Matches, IInv, RequestInv
    <3>3. QED
      BY <3>1, <3>2
  <2>4. Matches(name, Before)'
    BY <1>1, <1>2, <2>3 DEF Matches, Before, Holds, Registered
  <2>5. MatchInv'
    BY <1>1, <1>2, <2>1, <2>4, SameEntries DEF IInv, MatchInv
  <2>6. QED
    BY <1>3, <2>5 DEF Kept
<1>8. QED
  BY <1>6, <1>7

LEMMA HandshakeKeeps == ASSUME IInv, Handshake \/ HandshakeFails PROVE Kept
<1>1. PICK n \in Names : n = name
  BY DEF Handshake, HandshakeFails, Step, IInv, RequestInv
<1>2. /\ pc = "handshake" /\ Registered(n) /\ UNCHANGED httpClients
      /\ UNCHANGED <<life, launched, signalled, watch>>
      /\ cur \in Procs /\ launched[cur].config = entry[n].config
      /\ \A p \in Procs : Holds(n, p) => p = cur
  BY <1>1 DEF Handshake, HandshakeFails, Step, procVars, IInv, RequestInv, MatchInv
<1>3. CASE Handshake
  <2> DEFINE t == launched[cur].config
  <2>1. t \in Configs /\ t = entry[n].config
    BY <1>2, EntryUpdated DEF IInv, Entries
  <2>2. entry' = [entry EXCEPT ![n].tools = t] /\ pc' = "idle" /\ old' = None
    BY <1>1, <1>3 DEF Handshake, Return
  <2> HIDE DEF t
  <2>3. OnlyEntry(n) /\ Shows(n, entry[n].config, entry[n].proc, t)
    BY <1>2, <2>1, <2>2, EntryEffects DEF IInv
  <2>4. (\A p \in Procs : Holds(n, p)' <=> Holds(n, p)) /\ Registered(n)'
    BY <1>2, <2>3 DEF Shows, Holds
  <2>5. ProcInv' /\ RequestInv' /\ ClientInv'
    BY <1>1, <1>2, <2>2, <2>3, <2>4, OthersKeep DEF IInv, ProcInv, RequestInv, ClientInv, TypeOK
  <2>6. Matches(n, entry[n].config)'
    BY <1>2, <2>1, <2>3, <2>4 DEF Matches, Shows, t
  <2>7. MatchInv'
    BY <1>1, <1>2, <2>2, <2>3, <2>6, OthersKeep DEF IInv, MatchInv
  <2>8. QED
    BY <2>5, <2>7 DEF Kept
<1>4. CASE HandshakeFails
  <2>1. pc' = "stop" /\ then' = "failed" /\ UNCHANGED <<entry, name, old>>
    BY <1>4 DEF HandshakeFails, Step
  <2>2. ProcInv' /\ RequestInv' /\ ClientInv'
    BY <1>1, <1>2, <2>1, SameEntries DEF IInv, ProcInv, RequestInv, ClientInv, TypeOK
  <2>3. MatchInv'
    BY <1>1, <1>2, <2>1, SameEntries DEF IInv, MatchInv
  <2>4. QED
    BY <2>2, <2>3 DEF Kept
<1>5. QED
  BY <1>3, <1>4

LEMMA StopKeeps == ASSUME IInv, NothingToStop \/ Interrupt \/ Stopped PROVE Kept
<1>1. PICK n \in Names : n = name
  BY DEF NothingToStop, Interrupt, Stopped, Step, IInv, RequestInv
<1>2. /\ pc \in {"stop", "wait"} /\ then \in {"launch", "failed", "remove"}
      /\ then # "remove" => Registered(n)
      /\ UNCHANGED <<httpClients, life, launched, watch, name, old>>
  BY <1>1 DEF NothingToStop, Interrupt, Stopped, Step, procVars, IInv, RequestInv
<1>3. CASE Interrupt
  <2>1. /\ pc' = "wait" /\ cur' = entry[n].proc /\ signalled' = signalled \cup {cur'}
        /\ UNCHANGED <<entry, then>>
    BY <1>1, <1>3 DEF Interrupt, Step
  <2>2. ProcInv' /\ RequestInv' /\ ClientInv'
    BY <1>1, <1>2, <1>3, <2>1, SameEntries DEF Interrupt, Step, IInv, ProcInv, RequestInv, ClientInv, TypeOK
  <2>3. \A p \in Procs : Holds(n, p) => p = cur'
    BY <2>1 DEF Holds
  <2>4. MatchInv'
    BY <1>1, <1>2, <2>1, <2>3, SameEntries DEF IInv, MatchInv
  <2>5. QED
    BY <2>2, <2>4 DEF Kept
<1>4. CASE NothingToStop \/ Stopped
  <2>1. pc' = then /\ (pc = "wait" => ClearRuntime(n)) /\ signalled' = signalled
    BY <1>1, <1>4 DEF NothingToStop, Stopped, Step, procVars
  <2>2. /\ OnlyEntry(n) /\ (Registered(n)' <=> Registered(n))
        /\ Registered(n) => Shows(n, entry[n].config, None, entry[n].tools)
    <3>1. CASE NothingToStop
      <4>1. entry' = entry /\ (Registered(n) => entry[n].proc = None)
        BY <1>1, <3>1 DEF NothingToStop
      <4>2. QED
        BY <4>1 DEF OnlyEntry, Shows, Registered
    <3>2. CASE Stopped
      BY <1>1, <3>2, EntryEffects DEF Stopped, IInv, Shows, Registered
    <3>3. QED
      BY <1>4, <3>1, <3>2
  <2>3. \A p \in Procs : ~Holds(n, p)'
    BY <2>2, LifecycleAssumption DEF Shows, Holds
  <2>4. ProcInv'
    BY <1>2, <2>2, <2>3, OthersKeep DEF IInv, ProcInv
  <2>5. RequestInv'
    BY <1>1, <1>2, <2>1, <2>2 DEF IInv, RequestInv, Shows
  <2>6. ClientInv'
    BY <1>1, <1>2, <2>1, <2>2, OthersKeep DEF IInv, ClientInv, TypeOK
  <2>7. \A c : Matches(n, c)'
    BY <2>3 DEF Matches
  <2>8. Matches(name, Before)'
    BY <1>1, <1>2, <2>3 DEF Matches
  <2>9. MatchInv'
    BY <1>1, <1>2, <2>1, <2>2, <2>3, <2>8, OthersKeep DEF IInv, MatchInv
  <2>10. QED
    BY <2>4, <2>5, <2>6, <2>9 DEF Kept
<1>5. QED
  BY <1>3, <1>4

LEMMA RemoveKeeps == ASSUME IInv, Remove PROVE Kept
<1>1. PICK n \in Names : n = name
  BY DEF Remove, IInv, RequestInv
<1>2. /\ pc = "remove" /\ pc' = "idle" /\ old' = None /\ entry' = [entry EXCEPT ![n] = None]
      /\ UNCHANGED <<httpClients, life, launched, signalled, watch>>
      /\ n \notin httpClients
  BY <1>1 DEF Remove, Return, procVars, IInv, ClientInv
<1>3. OnlyEntry(n) /\ ~Registered(n)'
  BY <1>2, EntryEffects DEF IInv
<1>4. \A p \in Procs : ~Holds(n, p)'
  BY <1>3 DEF Holds
<1>5. ProcInv' /\ RequestInv' /\ ClientInv'
  BY <1>1, <1>2, <1>3, <1>4, OthersKeep DEF IInv, ProcInv, RequestInv, ClientInv, TypeOK
<1>6. MatchInv'
  BY <1>1, <1>2, <1>3, <1>4, OthersKeep DEF IInv, MatchInv, Matches
<1>7. QED
  BY <1>5, <1>6 DEF Kept

-----------------------------------------------------------------------------
(* The theorems.                                                           *)

LEMMA StepKeeps == ASSUME IInv, [Next]_vars PROVE IInv'
<1>1. TypeOK'
  BY TypeStep DEF IInv
<1>2. Kept
  <2>1. CASE Request
    BY <2>1, RequestKeeps
  <2>2. CASE RequestStep
    BY <2>2, TryKeeps, StartFailedKeeps, LaunchKeeps, AttachKeeps, HandshakeKeeps, StopKeeps,
       RemoveKeeps DEF RequestStep
  <2>3. CASE \E p \in Procs : Exit(p) \/ EndOfStream(p) \/ CloseDone(p) \/ Watcher(p)
    BY <2>3, BesideKeeps DEF Kept
  <2>4. CASE UNCHANGED vars
    <3>1. Dropped /\ UNCHANGED <<life, launched, signalled, watch, httpClients, requestVars>>
      BY <2>4 DEF vars, procVars, Dropped, Registered
    <3>2. QED
      BY <3>1, DropsKeep DEF Kept
  <2>5. QED
    BY <2>1, <2>2, <2>3, <2>4 DEF Next
<1>3. QED
  BY <1>1, <1>2 DEF Kept, IInv

\* The invariant: what is known of the server of the request in progress at each
\* of its places, and of the other servers.
THEOREM Inductive == Spec => []IInv
<1>1. Init => IInv
  <2> SUFFICES ASSUME Init PROVE IInv
    OBVIOUS
  <2>1. TypeOK
    BY EmptySeq DEF Init, TypeOK
  <2>2. \A n \in Names : ~Registered(n)
    BY DEF Init, Registered
  <2>3. ProcInv /\ RequestInv /\ MatchInv /\ ClientInv
    BY <2>2 DEF Init, ProcInv, RequestInv, MatchInv, ClientInv, Matches, Holds
  <2>4. QED
    BY <2>1, <2>3 DEF IInv
<1>2. IInv /\ [Next]_vars => IInv'
  BY StepKeeps
<1>3. QED
  BY <1>1, <1>2, PTL DEF Spec

THEOREM TypeCorrect == Spec => []TypeOK
<1>1. IInv => TypeOK
  BY DEF IInv
<1>2. QED
  BY <1>1, Inductive, PTL

\* Between requests every server shows the process, the configuration and the tools
\* of one and the same attempt, whatever failed before and whichever watcher ran.
THEOREM AlwaysRunsItsConfig == Spec => []RunsItsConfig
<1>1. IInv => RunsItsConfig
  <2> SUFFICES ASSUME IInv, pc = "idle", NEW n \in Names, NEW p \in Procs, Holds(n, p)
               PROVE  /\ launched[p] = [name |-> n, config |-> entry[n].config]
                      /\ entry[n].config \in Stdio => entry[n].tools = entry[n].config
    BY DEF RunsItsConfig
  <2>1. Matches(n, entry[n].config)
    BY DEF IInv, MatchInv
  <2>2. launched[p].name = n /\ launched[p] \in [name : Names, config : Configs]
    BY DEF IInv, ProcInv
  <2>3. QED
    BY <2>1, <2>2 DEF Matches
<1>2. QED
  BY <1>1, Inductive, PTL

\* Between requests no client is stored for a name that is not registered.
THEOREM ClientsAlwaysRegistered == Spec => []ClientsRegistered
<1>1. IInv => ClientsRegistered
  BY DEF IInv, ClientInv, ClientsRegistered
<1>2. QED
  BY <1>1, Inductive, PTL

\* Stop and Deregister let go of no process that runs and was not told to stop.
THEOREM AlwaysStopsWhatItDrops == Spec => StopsWhatItDrops
<1>1. ASSUME IInv, Stopped \/ Remove, NEW n \in Names, NEW p \in Procs,
             Holds(n, p), ~Holds(n, p)'
      PROVE  p \in signalled \/ Exited(p)
  <2>1. PICK m \in Names : m = name
    BY <1>1 DEF Stopped, Remove, Step, IInv, RequestInv
  <2>2. OnlyEntry(m)
    BY <1>1, <2>1, EntryEffects DEF Stopped, Remove, IInv
  <2>3. n = name
    BY <1>1, <2>1, <2>2 DEF OnlyEntry, Holds, Registered
  <2>4. CASE Stopped
    BY <1>1, <2>3, <2>4 DEF Stopped, Step, IInv, MatchInv
  <2>5. CASE Remove
    BY <1>1, <2>3, <2>5 DEF Remove, IInv, MatchInv
  <2>6. QED
    BY <1>1, <2>4, <2>5
<1>2. IInv /\ [Next]_vars =>
        [(Stopped \/ Remove) => \A n \in Names, p \in Procs :
            Holds(n, p) /\ ~Holds(n, p)' => p \in signalled \/ Exited(p)]_vars
  BY <1>1
<1>3. QED
  BY <1>2, Inductive, PTL DEF Spec, StopsWhatItDrops

=============================================================================
