------------------------------ MODULE ToolBroker ------------------------------
(***************************************************************************)
(* The broker as the requests of a session see it (broker.go's Call,       *)
(* MatchIntent, catalogs and profiles, access/access.go, catalog/*.go,     *)
(* profile/profile.go and the broker.* handlers of cmd/backend/main.go).   *)
(* What happens inside an activation is BrokerLifecycle's; here it is one  *)
(* step that succeeds with one of the transports or with none.             *)
(*                                                                         *)
(* A configuration is known by its type: one of type "http" has no         *)
(* command.  A tool is known by the server it names and the one it is of.  *)
(***************************************************************************)
EXTENDS Naturals, Sequences, FiniteSets

CONSTANTS
    Server,            \* names of MCP servers
    Menu,              \* the transports the curated catalog has for some of them
    BrokerRole,        \* roles that ask; "" and "orchestrator" may be among them
    ServerRoles,       \* DefaultServerRoles: roles of the servers it names
    MaxBrokerRequests  \* bound: requests of a session

Transport == {"stdio", "http"}

ASSUME BrokerAssumption ==
    /\ "" \notin Server
    /\ DOMAIN Menu \subseteq Server
    /\ \A n \in DOMAIN Menu : Menu[n] \in Seq(Transport) /\ Menu[n] # <<>>
    /\ DOMAIN ServerRoles \subseteq Server
    /\ MaxBrokerRequests \in Nat

\* entries: the registry, server -> [type, up, tools]; tools is the type of the
\*    activation that listed them.
\* clients: the names in httpClients.
\* roles: AccessControl.serverRoles.
\* archive: the profile the client has exported, and may import.
\* asked, answer: the requests so far, and the last answer.
VARIABLE broker

NoArchive == [key |-> "none", lock |-> {}]

\* NewBrokerWithWorkspace.
BrokerInit ==
    broker = [entries |-> <<>>, clients |-> {}, roles |-> ServerRoles,
              archive |-> NoArchive, asked |-> 0, answer |-> [op |-> "none"]]

\* One request: what it makes of the broker, and its answer.
Respond(after, a) ==
    /\ broker.asked < MaxBrokerRequests
    /\ broker' = [after EXCEPT !.asked = @ + 1, !.answer = a]

Refuse(op) == Respond(broker, [op |-> op, ok |-> FALSE])

Known(n) == n \in DOMAIN broker.entries

-----------------------------------------------------------------------------
(* Access control.                                                         *)

\* A server the table does not name, or names with no roles, is for everyone.
CanAccess(role, n) ==
    \/ role = "orchestrator"
    \/ n \notin DOMAIN broker.roles
    \/ broker.roles[n] = {}
    \/ role \in broker.roles[n]

\* The servers of the table only, whether registered or not.
GetAccessibleServers(role) == {n \in DOMAIN broker.roles : CanAccess(role, n)}

\* A catalog for the role "" has everything, as MatchIntent has; Call has not.
Sees(role, n) == role = "" \/ CanAccess(role, n)

\* Granting a role on a server that is for everyone makes it for that role only.
Grant(role, n) ==
    [broker EXCEPT !.roles =
        [m \in DOMAIN @ \cup {n} |->
            (IF m \in DOMAIN @ THEN @[m] ELSE {}) \cup (IF m = n THEN {role} ELSE {})]]

\* Taking the last role away makes it for everyone again.
Revoke(role, n) ==
    IF n \in DOMAIN broker.roles THEN [broker EXCEPT !.roles[n] = @ \ {role}] ELSE broker

-----------------------------------------------------------------------------
(* The registry and activation.                                            *)

\* Whatever entry there is, and the process it may have, is forgotten.
Register(b, n, type) ==
    [b EXCEPT !.entries =
        [m \in DOMAIN @ \cup {n} |->
            IF m = n THEN [type |-> type, up |-> FALSE, tools |-> "none"] ELSE @[m]]]

RegisterMCPServer(b, n, menu) == Register(b, n, menu[1])

Activated(b, n, type) ==
    [b EXCEPT !.entries[n] = [type |-> type, up |-> type = "stdio", tools |-> type],
              !.clients = IF type = "http" THEN @ \cup {n} ELSE @]

\* How the loop over the transports may end: with one of them, those before it
\* having failed, or with none, and then a process that was up may be no more.
ActivateMCPServerWithTransport(b, n, menu) ==
    {[after |-> Activated(b, n, menu[i]), ok |-> TRUE] : i \in DOMAIN menu}
    \cup {[after |-> c, ok |-> FALSE] : c \in {b, [b EXCEPT !.entries[n].up = FALSE]}}

Activation(b, n, menu) ==
    \E r \in ActivateMCPServerWithTransport(b, n, menu) :
       Respond(r.after, [op |-> "activate", ok |-> r.ok])

\* Whether or not the server is registered already.
ActivateFromCatalog(role, n) ==
    IF n \in DOMAIN Menu /\ Sees(role, n)
    THEN Activation(RegisterMCPServer(broker, n, Menu[n]), n, Menu[n])
    ELSE Refuse("activate")

\* DeregisterServer of a server that is there; of another there is nothing to do.
DeactivateMCPServer(n) ==
    IF Known(n)
    THEN Respond([broker EXCEPT !.clients = @ \ {n},
                                !.entries = [m \in DOMAIN @ \ {n} |-> @[m]]],
                 [op |-> "deactivate", ok |-> TRUE])
    ELSE Respond(broker, [op |-> "deactivate", ok |-> TRUE])

-----------------------------------------------------------------------------
(* Catalogs, intent and calls.                                             *)

\* http_client.go leaves the server of a tool empty.
ListToolsOf(n) ==
    CASE broker.entries[n].tools = "none"  -> {}
      [] broker.entries[n].tools = "http"  -> {[server |-> "", of |-> n]}
      [] broker.entries[n].tools = "stdio" -> {[server |-> n, of |-> n]}

GetAllTools == UNION {ListToolsOf(n) : n \in DOMAIN broker.entries}

buildSummary(n) ==
    [server |-> n,
     tools  |-> ListToolsOf(n),
     status |-> IF broker.entries[n].up THEN "running"
                ELSE IF broker.entries[n].type = "stdio" THEN "stopped" ELSE "registered"]

Build(role) == {buildSummary(n) : n \in {m \in DOMAIN broker.entries : Sees(role, m)}}

DiscoverCatalog(role) == {n \in DOMAIN Menu : ~Known(n) /\ Sees(role, n)}

\* The best of the scores, if it reaches the threshold, is that of any tool.
Match(tools) ==
    {[op |-> "match", ok |-> TRUE, tool |-> t] : t \in tools} \cup {[op |-> "match", ok |-> FALSE]}

MatchIntent(role) ==
    \E a \in Match({t \in GetAllTools : Sees(role, t.server)}) : Respond(broker, a)

\* An HTTP client, once there is one, goes before the process.
Call(role, n) ==
    IF ~CanAccess(role, n)
    THEN Respond(broker, [op |-> "call", ok |-> FALSE, use |-> GetAccessibleServers(role)])
    ELSE \/ /\ n \in broker.clients \/ (Known(n) /\ broker.entries[n].up)
            /\ Respond(broker, [op |-> "call", ok |-> TRUE])
         \/ Refuse("call")

-----------------------------------------------------------------------------
(* Profiles.                                                               *)

\* Of a server the name, the type and the command are kept; what its environment
\* says, the URL of an HTTP server included, is not.
ExportProfile(key) ==
    [broker EXCEPT !.archive =
        [key |-> key, lock |-> {[name |-> n, type |-> broker.entries[n].type] :
                                   n \in DOMAIN broker.entries}]]

\* A signed profile wants its passphrase; one that is not accepts any.
CanImport(key) == broker.archive.key \in {"", key}

\* RegisterServer of each server that is not registered, which refuses one with no
\* command, and is then passed over.
ImportProfile ==
    [broker EXCEPT !.entries =
        LET new == {m \in broker.archive.lock : ~Known(m.name) /\ m.type # "http"} IN
        [n \in DOMAIN @ \cup {m.name : m \in new} |->
            IF n \in DOMAIN @ THEN @[n] ELSE [type |-> "stdio", up |-> FALSE, tools |-> "none"]]]

\* The counts are taken when the import is over: every server of the profile that
\* is registered by then is a conflict.
ImportAnswer(after) ==
    LET conflicts == {m \in broker.archive.lock : m.name \in DOMAIN after.entries}
    IN  [op |-> "import", ok |-> TRUE,
         applied   |-> Cardinality(broker.archive.lock) - Cardinality(conflicts),
         conflicts |-> {m.name : m \in conflicts}]

-----------------------------------------------------------------------------
(* The handlers.                                                           *)

handleBrokerRegisterMCPServer ==
    \/ \E n \in Server, type \in Transport :
          Respond(RegisterMCPServer(broker, n, <<type>>), [op |-> "register", ok |-> TRUE])
    \/ Refuse("register")

\* The client brings transports, or a URL, which is one of type http.
handleBrokerActivateMCPServer ==
    \/ \E n \in DOMAIN broker.entries, type \in Transport : Activation(broker, n, <<type>>)
    \/ Refuse("activate")

handleBrokerActivateFromCatalog ==
    \E role \in BrokerRole, n \in Server : ActivateFromCatalog(role, n)

handleBrokerDeactivateMCPServer == \E n \in Server : DeactivateMCPServer(n)

handleBrokerDiscoverCatalog ==
    \E role \in BrokerRole :
       Respond(broker, [op |-> "discover", ok |-> TRUE, servers |-> DiscoverCatalog(role)])

\* Which binaries are on PATH decides what is unavailable, never http.
handleBrokerListTransports ==
    \/ \E n \in DOMAIN Menu, found \in BOOLEAN :
          Respond(broker, [op |-> "transports", ok |-> TRUE,
                           unavailable |-> {Menu[n][i] : i \in DOMAIN Menu[n]}
                                           \ (IF found THEN Transport ELSE {"http"})])
    \/ Refuse("transports")

handleBrokerBuildCatalog ==
    \E role \in BrokerRole :
       Respond(broker, [op |-> "catalog", ok |-> TRUE, servers |-> Build(role)])

handleBrokerMatchIntent == \E role \in BrokerRole : MatchIntent(role)

handleBrokerCall == \E role \in BrokerRole, n \in Server : Call(role, n)

handleBrokerExportProfile ==
    \E key \in {"", "secret"} : Respond(ExportProfile(key), [op |-> "export", ok |-> TRUE])

handleBrokerImportProfile ==
    \/ /\ broker.archive # NoArchive
       /\ \E key \in {"", "secret"} :
             IF CanImport(key) THEN Respond(ImportProfile, ImportAnswer(ImportProfile))
             ELSE Refuse("import")
    \/ Refuse("import")

-----------------------------------------------------------------------------
(* What happens beside the requests.                                       *)

\* A process ends, and its entry is cleared.
ServerExits ==
    \E n \in DOMAIN broker.entries :
       /\ broker.entries[n].up
       /\ broker' = [broker EXCEPT !.entries[n].up = FALSE]

\* The backend ends, and another starts; what was exported is with the client.
BrokerRestarts ==
    /\ broker.entries # <<>>
    /\ broker' = [broker EXCEPT !.entries = <<>>, !.clients = {}, !.roles = ServerRoles,
                                !.answer = [op |-> "none"]]

\* No request reaches these; the program that embeds a broker may call them.
AccessChanges ==
    \E role \in BrokerRole, n \in Server :
       \E after \in {Grant(role, n), Revoke(role, n)} :
          Respond(after, [op |-> "access", ok |-> TRUE])

BrokerNext ==
    \/ handleBrokerRegisterMCPServer
    \/ handleBrokerActivateMCPServer
    \/ handleBrokerActivateFromCatalog
    \/ handleBrokerDeactivateMCPServer
    \/ handleBrokerDiscoverCatalog
    \/ handleBrokerListTransports
    \/ handleBrokerBuildCatalog
    \/ handleBrokerMatchIntent
    \/ handleBrokerCall
    \/ handleBrokerExportProfile
    \/ handleBrokerImportProfile
    \/ ServerExits
    \/ BrokerRestarts
    \/ AccessChanges

BrokerSpec == BrokerInit /\ [][BrokerNext]_broker

-----------------------------------------------------------------------------
BrokerTypeOK ==
    /\ DOMAIN broker.entries \subseteq Server
    /\ \A n \in DOMAIN broker.entries :
          /\ broker.entries[n] \in [type: Transport, up: BOOLEAN, tools: Transport \cup {"none"}]
          /\ broker.entries[n].up => broker.entries[n].type = "stdio"
    /\ broker.clients \subseteq DOMAIN broker.entries
    /\ DOMAIN broker.roles \subseteq Server
    /\ broker.archive.lock \subseteq [name: Server, type: Transport]
    /\ broker.asked \in 0..MaxBrokerRequests

\* Documented: an import "skips MCPs that already exist in the registry (the
\* applied count excludes them, the conflicts list shows what was skipped)"
\* (docs/design/deferred-followups.md:53; main.go:1736 counts after the import).
ImportCounts ==
    [][LET a == broker'.answer IN
       broker'.asked # broker.asked /\ a.op = "import" /\ a.ok =>
          /\ a.applied = Cardinality(DOMAIN broker'.entries \ DOMAIN broker.entries)
          /\ \A n \in a.conflicts : Known(n)]_broker
=============================================================================
