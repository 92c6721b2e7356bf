----------------------------- MODULE PeerServices -----------------------------
(***************************************************************************)
(* Peers, what is shared with them, their profiles, the tools they have    *)
(* asked for, and the audit log: the handlers peer.*, user.*, agent.* and  *)
(* audit.* of the backend over the tables peers, memory_sharing,           *)
(* user_profiles, agent_tools and audit_log (migrations 000001, 000004).   *)
(* The constraints of the tables decide what an insert does; the classes   *)
(* that check before they insert a peer or a share (peer.PeerManager,      *)
(* peer.SharingManager) are not called by the backend.                     *)
(***************************************************************************)
EXTENDS Naturals, Sequences, FiniteSets, SequencesExt, Functions

CONSTANTS
    Peer,           \* ids of peers
    Shared,         \* ids of memories that exist
    Tool,           \* tools, as server.tool
    CoreTool,       \* DefaultInitialTools
    MaxPeerRequests \* bound: requests of a session

BypassAfter  == 5
DefaultPeer  == "default"
Roles        == {"OWNER", "GUEST"}            \* two of the four the table takes
Permissions  == {"PRIVATE", "SHARED", "INHERITED"}
Severities   == {"info", "critical"}

ASSUME PeerAssumption == DefaultPeer \notin Peer /\ MaxPeerRequests \in Nat

\* listed: the table peers, newest first.
\* shares: memory_sharing.     profiles: user_profiles, by peer.
\* tools: agent_tools, <<peer, tool>> -> use_count.     audit: audit_log.
\* active: activePeerContext.     asked, answer: the requests, the last answer.
VARIABLE peers

DefaultProfile == [style |-> "neutral", notes |-> FALSE, prefs |-> {}]

\* A session may begin with a tool that is about to reach the threshold.
PeersInit ==
    \E used \in {<<>>} \cup [Peer \X Tool -> {BypassAfter - 2}] :
       peers = [listed |-> <<>>, shares |-> {}, profiles |-> <<>>, tools |-> used,
                audit |-> <<>>, active |-> DefaultPeer, asked |-> 0, answer |-> "none"]

Answer(after, a) ==
    /\ peers.asked < MaxPeerRequests
    /\ peers' = [after EXCEPT !.asked = @ + 1, !.answer = a]

Error == Answer(peers, "error")

IsPeer(p) == p \in Range(peers.listed)

Put(f, k, v) == [i \in DOMAIN f \cup {k} |-> IF i = k THEN v ELSE f[i]]

-----------------------------------------------------------------------------
(* The statements of the store.                                            *)

\* A role or a trust level out of range, and an id that is taken, are refused.
AddPeer(p, role, inRange) ==
    IF IsPeer(p) \/ role \notin Roles \/ ~inRange THEN Error
    ELSE Answer([peers EXCEPT !.listed = <<p>> \o @], p)

ListPeers(limit) == SubSeq(peers.listed, 1, IF limit < Len(peers.listed) THEN limit
                                            ELSE Len(peers.listed))

\* One row for each memory and peer; whoever grants it is not stored.
ShareMemory(m, p, permission) ==
    IF \/ permission \notin Permissions \/ m \notin Shared \/ ~IsPeer(p)
       \/ \E s \in peers.shares : s.memory = m /\ s.peer = p
    THEN Error
    ELSE Answer([peers EXCEPT !.shares =
                    @ \cup {[memory |-> m, peer |-> p, permission |-> permission]}], "shared")

\* The query names a column the table does not have.
GetSharedMemories(p) == Error

\* A row has seventeen columns and is scanned into eighteen: none is kept.
GetPeerMemories(p) == Answer(peers, {})

\* Null when there is none.
GetUserProfile(p) == IF p \in DOMAIN peers.profiles THEN {peers.profiles[p]} ELSE {}

\* The foreign key of user_profiles wants a peer.
UpsertUserProfile(p, profile) ==
    IF IsPeer(p) THEN Answer([peers EXCEPT !.profiles = Put(@, p, profile)], profile) ELSE Error

\* ON CONFLICT DO NOTHING; peers are not looked up.
RecordToolRequest(p, t) ==
    IF <<p, t>> \in DOMAIN peers.tools THEN peers
    ELSE [peers EXCEPT !.tools = Put(@, <<p, t>>, 0)]

IncrementToolUse(p, t) == [peers EXCEPT !.tools[<<p, t>>] = @ + 1]

GetAgentTools(p) == {k[2] : k \in {j \in DOMAIN peers.tools : j[1] = p}}

\* Session, details and states are stored as NULL.  An empty memory id is not a
\* UUID, so an event that is not about a memory is refused.
LogAuditEvent(known, severity, memory) ==
    IF known /\ memory
    THEN Answer([peers EXCEPT !.audit = Append(@, severity)], "logged")
    ELSE Error

\* A NULL session does not scan, and a row that does not scan ends the answer.
GetAuditEvents(session, ofType) ==
    IF session \/ ~ofType \/ peers.audit = <<>> THEN Answer(peers, {}) ELSE Error

\* Five counts, of which the ones by type and agent are left out.
GetSecuritySummary ==
    [total    |-> Len(peers.audit),
     critical |-> Len(SelectSeq(peers.audit, LAMBDA s : s = "critical"))]

-----------------------------------------------------------------------------
(* The managers above the store.                                           *)

OrDefaults(found) == IF found = {} THEN DefaultProfile ELSE CHOOSE p \in found : TRUE

\* The severity is checked before the insert, the type by it.
LogEvent(known, severity, memory) ==
    IF severity \in Severities THEN LogAuditEvent(known, severity, memory) ELSE Error

\* What is not there is made up and not stored; notes are left out if not asked for.
GetProfile(p, includeNotes) ==
    LET profile == OrDefaults(GetUserProfile(p))
    IN  IF includeNotes THEN profile ELSE [profile EXCEPT !.notes = FALSE]

\* Preferences are merged key by key, the other fields replaced if they are given.
UpdateProfile(p, style, notes, prefs) ==
    LET old == OrDefaults(GetUserProfile(p))
    IN  UpsertUserProfile(p, [style |-> IF style = "" THEN old.style ELSE style,
                              notes |-> notes \/ old.notes,
                              prefs |-> old.prefs \cup prefs])

\* The core tools and what the peer has recorded.
GetInitialToolSet(p) == CoreTool \cup GetAgentTools(p)

-----------------------------------------------------------------------------
(* The handlers.                                                           *)

\* The role a request leaves out is "guest", which the table refuses.
handlePeerAddPeer ==
    \/ \E p \in Peer, role \in Roles \cup {"guest"}, inRange \in BOOLEAN : AddPeer(p, role, inRange)
    \/ Error

handlePeerListPeers == \E limit \in {1, 100} : Answer(peers, ListPeers(limit))

\* The permission a request leaves out is "shared", which the table refuses.
handlePeerShareMemory ==
    \/ \E m \in Shared, p \in Peer, permission \in {"PRIVATE", "SHARED", "shared"} :
          ShareMemory(m, p, permission)
    \/ Error

handlePeerGetPeerMemories == \E p \in Peer : GetPeerMemories(p)

handlePeerGetSharedMemories == GetSharedMemories(peers.active)

SwitchPeer(p) == Answer([peers EXCEPT !.active = p], peers.active)

\* A slip: the peer is not looked up.
SwitchUnchecked == \E p \in Peer \cup {DefaultPeer} : SwitchPeer(p)

\* The peer must be among the first thousand; there is no way back to the default.
handlePeerSwitchContext ==
    \E p \in Peer \cup {DefaultPeer} :
       IF p \in Range(ListPeers(1000)) THEN SwitchPeer(p) ELSE Error

handleUserGetProfile ==
    \E p \in Peer, includeNotes \in BOOLEAN : Answer(peers, GetProfile(p, includeNotes))

handleUserUpdateProfile ==
    \E p \in Peer, style \in {"", "terse"}, notes \in BOOLEAN, prefs \in {{}, {"lang"}, {"tz"}} :
       UpdateProfile(p, style, notes, prefs)

handleAgentRecordToolRequest ==
    \E p \in Peer, t \in Tool : Answer(RecordToolRequest(p, t), "recorded")

\* The count is read again after the increment, and is the same.
handleAgentIncrementToolUse ==
    \E p \in Peer, t \in Tool :
       IF <<p, t>> \in DOMAIN peers.tools
       THEN LET used == peers.tools[<<p, t>>] + 1
            IN  Answer(IncrementToolUse(p, t), [useCount |-> used, bypass |-> used >= BypassAfter])
       ELSE Error

handleAgentGetTools == \E p \in Peer : Answer(peers, GetAgentTools(p))

handleAgentGetInitialToolSet == \E p \in Peer : Answer(peers, GetInitialToolSet(p))

handleMemoryLogAuditEvent ==
    \E known, memory \in BOOLEAN, severity \in Severities \cup {"fatal"} :
       LogEvent(known, severity, memory)

\* A session that is not a UUID is an error of the query.
handleMemoryGetAuditEvents ==
    \/ \E session, ofType \in BOOLEAN : GetAuditEvents(session, ofType)
    \/ Error

handleAuditGetSecuritySummary == Answer(peers, GetSecuritySummary)

\* Another process: the tables stay, the active peer is the default one.
PeersRestart ==
    /\ peers.active # DefaultPeer
    /\ peers' = [peers EXCEPT !.active = DefaultPeer, !.answer = "none"]

PeersNext ==
    \/ handlePeerAddPeer
    \/ handlePeerListPeers
    \/ handlePeerShareMemory
    \/ handlePeerGetPeerMemories
    \/ handlePeerGetSharedMemories
    \/ handlePeerSwitchContext
    \/ handleUserGetProfile
    \/ handleUserUpdateProfile
    \/ handleAgentRecordToolRequest
    \/ handleAgentIncrementToolUse
    \/ handleAgentGetTools
    \/ handleAgentGetInitialToolSet
    \/ handleMemoryLogAuditEvent
    \/ handleMemoryGetAuditEvents
    \/ handleAuditGetSecuritySummary
    \/ PeersRestart

PeersSpec == PeersInit /\ [][PeersNext]_peers

-----------------------------------------------------------------------------
PeersTypeOK ==
    /\ IsInjective(peers.listed) /\ Range(peers.listed) \subseteq Peer
    /\ peers.shares \subseteq [memory: Shared, peer: Range(peers.listed), permission: Permissions]
    /\ \A r, s \in peers.shares : r.memory = s.memory /\ r.peer = s.peer => r = s
    /\ DOMAIN peers.profiles \subseteq Range(peers.listed)
    /\ DOMAIN peers.tools \subseteq Peer \X Tool
    /\ peers.active \in Range(peers.listed) \cup {DefaultPeer}
    /\ peers.asked \in 0..MaxPeerRequests
=============================================================================
