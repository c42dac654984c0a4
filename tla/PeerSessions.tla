------------------------------ MODULE PeerSessions ------------------------------
(***************************************************************************)
(* The peering sessions of one burrow (apps/server/src/federation.rs) and  *)
(* the registry they share (crates/server-core/src/federation.rs).  Peers  *)
(* dial in and prove their key, a dialer task calls the configured ones,   *)
(* an operator approves and revokes, and every session, when it ends,      *)
(* marks its peer disconnected.  The registry has one record for a key,    *)
(* however many connections there are.                                     *)
(*                                                                         *)
(* A key keeps the origin it is bound to, and a listed peer the key it     *)
(* answers with; proofs and pins are outcomes a connection may have.  An   *)
(* operator's change is made in memory first and then saved; the           *)
(* operator_change lock lets one through at a time.                        *)
(***************************************************************************)
EXTENDS Integers, FiniteSets

CONSTANTS
  Keys,         \* peers
  OriginOf,     \* the origin each announces
  Configured,   \* the ones listed in federation_peers
  Pinned,       \* the listed ones whose key is given there
  Silent,       \* the ones that may keep a connection open and say nothing
  MaxApproved,  \* MAX_APPROVED_PEERS
  Conns,        \* connections at a time
  MaxInbound,   \* bound: connections that peers open
  MaxEvents     \* bound: operator changes, failed sends and saves, restarts

ASSUME PeersAssumption == Configured \subseteq Keys /\ Pinned \subseteq Configured
ASSUME PeerBoundsAssumption == Conns \subseteq Nat /\ MaxInbound \in Nat /\ MaxEvents \in Nat

VARIABLES
  state,     \* PeerRecord::state
  approved,  \* keys with PeerRecord::approved
  disk,      \* keys in approved_peers.json
  conn,      \* each connection: the peer and how far it has come
  change,    \* the operator's change in progress
  told,      \* history: which change of a peer was last reported as made
  lost,      \* history: peers whose welcome could not be sent
  ignored,   \* history: peers in a file that boot ignored, and not decided on since
  inbound, events

registry == <<state, approved>>
bounds == <<inbound, events>>
histories == <<lost, ignored>>
peersVars == <<registry, disk, conn, change, told, histories, bounds>>

NoKey == "no key"
ASSUME NoKeyAssumption == NoKey \notin Keys
Stages == {"proving", "declined", "welcoming", "dialing", "syncing", "entering", "live"}
Free == [key |-> NoKey, stage |-> "free"]
ConnAt(k, st) == [key |-> k, stage |-> st]
Conn == {Free} \cup [key : Keys, stage : Stages]
NoChange == [kind |-> "none", key |-> NoKey, new |-> FALSE]

PeersTypeOK ==
  /\ state \in [Keys -> {"unknown", "pending", "disconnected", "connected"}]
  /\ approved \subseteq Keys
  /\ disk \subseteq Keys
  /\ conn \in [Conns -> Conn]
  /\ change \in {NoChange} \cup [kind : {"approve", "revoke", "forget"}, key : Keys, new : BOOLEAN]
  /\ told \in [Keys -> {"nothing", "approved", "revoked"}]
  /\ lost \subseteq Keys /\ ignored \subseteq Keys
  /\ inbound \in 0..MaxInbound
  /\ events \in 0..MaxEvents

\* load_approved: too many keys, or two for one origin, and the whole file is
\* ignored.
Unloadable(saved) ==
  \/ Cardinality(saved) > MaxApproved
  \/ \E j, k \in saved : j # k /\ OriginOf[j] = OriginOf[k]
Loaded(saved) == IF Unloadable(saved) THEN {} ELSE saved

\* What boot makes of the file and the configuration.
Seeded(saved) == Loaded(saved) \cup Pinned

PeersInit ==
  /\ disk = {}
  /\ approved = Seeded({})
  /\ state = [k \in Keys |-> IF k \in Seeded({}) THEN "disconnected" ELSE "unknown"]
  /\ conn = [c \in Conns |-> Free]
  /\ change = NoChange
  /\ told = [k \in Keys |-> "nothing"]
  /\ lost = {} /\ ignored = {}
  /\ inbound = 0 /\ events = 0

-----------------------------------------------------------------------------
(* The registry.                                                             *)

\* seed_approved, approve_origin: a peer that is not connected is now
\* approved and disconnected.
Approve(k) ==
  /\ approved' = approved \cup {k}
  /\ state' = [state EXCEPT ![k] = IF @ \in {"unknown", "pending"} THEN "disconnected" ELSE @]

Revoke(k) ==
  /\ approved' = approved \ {k}
  /\ state' = [state EXCEPT ![k] = IF @ = "unknown" THEN @ ELSE "pending"]

\* What set_disconnected leaves of the state.
Disconnected(k) == [state EXCEPT ![k] = IF @ = "connected" THEN "disconnected" ELSE @]

\* Mutant: an approval that came in the meantime is overwritten.
NotedAlways(k) == [state EXCEPT ![k] = "pending"]
\* note_pending, for a peer that may have been approved in the meantime.
Noted(k) == [state EXCEPT ![k] = IF k \in approved THEN @ ELSE "pending"]

Move(c, st) == conn' = [conn EXCEPT ![c] = ConnAt(conn[c].key, st)]
Close(c) == conn' = [conn EXCEPT ![c] = Free]
In(c, st) == conn[c].stage = st
\* A new connection.  (Which number it has means nothing: the least.)
Opens(c, k, st) ==
  /\ conn[c] = Free /\ \A d \in Conns : conn[d] = Free => c <= d
  /\ conn' = [conn EXCEPT ![c] = ConnAt(k, st)]

\* One of the things that happen a bounded number of times.
Happens == events < MaxEvents /\ events' = events + 1

-----------------------------------------------------------------------------
(* The operator.                                                             *)

\* is_configured_peer: listed by its key or, once it is known, its origin.
Listed(k) ==
  \/ k \in Pinned
  \/ state[k] # "unknown" /\ \E j \in Configured : OriginOf[j] = OriginOf[k]

\* approve_peer and revoke_peer up to the save.  A listed peer cannot be
\* revoked, and revoking an unknown one is answered as such.
BeginChange(kind, k) ==
  /\ change = NoChange /\ Happens
  /\ change' = [kind |-> kind, key |-> k, new |-> k \notin approved]
  /\ told' = [told EXCEPT ![k] = "nothing"]
  /\ ignored' = ignored \ {k}
  /\ UNCHANGED <<disk, conn, lost, inbound>>
BeginApprove(k) == BeginChange("approve", k) /\ Approve(k)
Revocation(k) == IF state[k] = "unknown" THEN "forget" ELSE "revoke"
\* Mutant: a listed peer is revoked like any other.
BeginRevokeListed(k) == BeginChange(Revocation(k), k) /\ Revoke(k)
BeginRevoke(k) == ~ Listed(k) /\ BeginChange(Revocation(k), k) /\ Revoke(k)

Answers == [approve |-> "approved", revoke |-> "revoked", forget |-> "nothing"]
\* Mutant: only the peer in question is written.
SavedAlone ==
  /\ change # NoChange
  /\ disk' = IF change.kind = "approve" THEN {change.key} ELSE {}
  /\ told' = [told EXCEPT ![change.key] = Answers[change.kind]]
  /\ change' = NoChange
  /\ UNCHANGED <<registry, conn, histories, bounds>>
\* persist_approved writes the whole registry.
Saved ==
  /\ change # NoChange
  /\ disk' = approved
  /\ told' = [told EXCEPT ![change.key] = Answers[change.kind]]
  /\ change' = NoChange
  /\ UNCHANGED <<registry, conn, histories, bounds>>

\* It fails: a new approval is withdrawn again, a revocation stays.
SaveFails ==
  LET k == change.key IN
  /\ change # NoChange /\ Happens
  /\ IF change.kind = "approve" /\ change.new THEN Revoke(k) ELSE UNCHANGED registry
  /\ change' = NoChange
  /\ UNCHANGED <<disk, conn, told, histories, inbound>>

-----------------------------------------------------------------------------
(* Inbound connections (serve_peer).                                         *)

PeerDials(c, k) ==
  /\ inbound < MaxInbound /\ inbound' = inbound + 1
  /\ Opens(c, k, "proving")
  /\ UNCHANGED <<registry, disk, change, told, histories, events>>

\* authorize_authenticated_peer: approval counts now, not as of the Ack.
Proved(c) ==
  LET k == conn[c].key IN
  /\ In(c, "proving")
  /\ IF k \in approved
     THEN state' = [state EXCEPT ![k] = "connected"] /\ Move(c, "welcoming")
     ELSE UNCHANGED state /\ Move(c, "declined")
  /\ UNCHANGED <<approved, disk, change, told, histories, bounds>>

\* The proof is bad, the pin conflicts, or the peer goes away.
NotProved(c) ==
  /\ In(c, "proving")
  /\ Close(c)
  /\ UNCHANGED <<registry, disk, change, told, histories, bounds>>

Declined(c) ==
  /\ In(c, "declined")
  /\ state' = Noted(conn[c].key)
  /\ Close(c)
  /\ UNCHANGED <<approved, disk, change, told, histories, bounds>>

Welcomed(c) ==
  /\ In(c, "welcoming")
  /\ Move(c, "entering")
  /\ UNCHANGED <<registry, disk, change, told, histories, bounds>>

\* The send fails: serve_peer returns the error there and then.
WelcomeFails(c) ==
  /\ In(c, "welcoming") /\ Happens
  /\ lost' = lost \cup {conn[c].key}
  /\ Close(c)
  /\ UNCHANGED <<registry, disk, change, told, ignored, inbound>>

-----------------------------------------------------------------------------
(* The dialer (federation_dialer, dial_peer): one connection at a time.      *)

DialerIdle == \A c \in Conns : ~ In(c, "dialing") /\ ~ In(c, "syncing")

\* Mutant: an approved peer is taken for a connected one.
DialTickUnapproved(c, k) ==
  /\ DialerIdle
  /\ k \in Configured /\ (k \in Pinned => k \notin approved)
  /\ Opens(c, k, "dialing")
  /\ UNCHANGED <<registry, disk, change, told, histories, bounds>>

\* A listed peer is called unless the registry has it connected; without its
\* key the registry cannot be asked.
DialTick(c, k) ==
  /\ DialerIdle
  /\ k \in Configured /\ (k \in Pinned => state[k] # "connected")
  /\ Opens(c, k, "dialing")
  /\ UNCHANGED <<registry, disk, change, told, histories, bounds>>

\* No connection, or a failed handshake.
DialFails(c) ==
  /\ In(c, "dialing")
  /\ Close(c)
  /\ UNCHANGED <<registry, disk, change, told, histories, bounds>>

\* The peer has yet to approve us, or its origin conflicts with a pin.
DialPending(c) ==
  /\ In(c, "dialing")
  /\ Approve(conn[c].key)
  /\ Close(c)
  /\ UNCHANGED <<disk, change, told, histories, bounds>>

DialConnected(c) ==
  LET k == conn[c].key IN
  /\ In(c, "dialing")
  /\ approved' = approved \cup {k}
  /\ state' = [state EXCEPT ![k] = "connected"]
  /\ Move(c, "syncing")
  /\ UNCHANGED <<disk, change, told, histories, bounds>>

\* sync_catalogs returns, whatever its result.
Synced(c) ==
  /\ In(c, "syncing")
  /\ Move(c, "entering")
  /\ UNCHANGED <<registry, disk, change, told, histories, bounds>>

\* ... unless the peer's budget or the deny list refuses it.
SyncRefused(c) ==
  /\ In(c, "syncing")
  /\ state' = Disconnected(conn[c].key)
  /\ Close(c)
  /\ UNCHANGED <<approved, disk, change, told, histories, bounds>>

-----------------------------------------------------------------------------
(* The session loop (run_peer_session).                                      *)

Enter(c) ==
  LET k == conn[c].key IN
  /\ In(c, "entering")
  /\ IF k \in approved
     THEN Move(c, "live") /\ UNCHANGED state
     ELSE Close(c) /\ state' = Disconnected(k)
  /\ UNCHANGED <<approved, disk, change, told, histories, bounds>>

\* Mutant: the registry keeps the peer connected.
LeaveConnected(c) ==
  /\ Close(c)
  /\ UNCHANGED <<registry, disk, change, told, histories, bounds>>
\* The loop is left: the peer is marked disconnected.
Leave(c) ==
  /\ state' = Disconnected(conn[c].key)
  /\ Close(c)
  /\ UNCHANGED <<approved, disk, change, told, histories, bounds>>

\* The peer goes away, or its frames are refused.
SessionEnds(c) == In(c, "live") /\ Leave(c)

\* Mutant: only a peer that counts as connected is closed.
CloseRevokedConnected(c) ==
  In(c, "live") /\ conn[c].key \notin approved /\ state[conn[c].key] = "connected" /\ Leave(c)
\* The tick, a frame or a bus event finds the approval gone.
CloseRevoked(c) == In(c, "live") /\ conn[c].key \notin approved /\ Leave(c)

\* The burrow stops and starts again.
PeersRestart ==
  /\ Happens
  /\ approved' = Seeded(disk)
  /\ state' = [k \in Keys |-> IF k \in Seeded(disk) THEN "disconnected" ELSE "unknown"]
  /\ conn' = [c \in Conns |-> Free]
  /\ change' = NoChange
  /\ lost' = {}
  /\ ignored' = IF Unloadable(disk) THEN ignored \cup (disk \ Pinned) ELSE ignored
  /\ UNCHANGED <<disk, told, inbound>>

-----------------------------------------------------------------------------
Serve(c) == Proved(c) \/ NotProved(c) \/ Declined(c) \/ Welcomed(c) \/ WelcomeFails(c) \/ Enter(c)
Dial(c) == DialFails(c) \/ DialPending(c) \/ DialConnected(c) \/ Synced(c) \/ SyncRefused(c)

PeersNext ==
  \/ \E k \in Keys : BeginApprove(k) \/ BeginRevoke(k)
  \/ Saved \/ SaveFails
  \/ \E c \in Conns, k \in Keys : PeerDials(c, k) \/ DialTick(c, k)
  \/ \E c \in Conns : Serve(c) \/ Dial(c) \/ SessionEnds(c) \/ CloseRevoked(c)
  \/ PeersRestart

PeersSpec == PeersInit /\ [][PeersNext]_peersVars

\* Tasks make progress, the dialer's timer ticks, and a peer that is not
\* silent answers, and comes round in the end if it is called again and again.
\* Nothing waits for an answer with a timeout, on either side.
Answering(c) == conn[c].key \notin Silent
PeerStep(c) == Proved(c) \/ NotProved(c) \/ Dial(c)
OwnStep(c) == Declined(c) \/ Welcomed(c) \/ WelcomeFails(c) \/ Enter(c) \/ CloseRevoked(c)
Fairness ==
  /\ WF_peersVars(Saved)
  /\ \A c \in Conns : WF_peersVars(OwnStep(c) \/ (Answering(c) /\ PeerStep(c)))
  /\ \A k \in Configured \ Silent :
       /\ SF_peersVars(\E c \in Conns : DialTick(c, k))
       /\ SF_peersVars(\E c \in Conns : conn[c].key = k /\ DialConnected(c))
       /\ SF_peersVars(\E c \in Conns : conn[c].key = k /\ Synced(c))

LiveSpec == PeersSpec /\ Fairness

-----------------------------------------------------------------------------
(* Properties.                                                               *)

\* A peer is disconnected or connected exactly when it is approved, whatever
\* the operator, the dialer and the handshakes do at the same time.
RegistryCoherent == \A k \in Keys : k \in approved <=> state[k] \in {"disconnected", "connected"}

\* The registry has a peer connected only while some connection to it is
\* being set up or runs; a welcome that could not be sent is the one
\* exception.
ConnectedUnlessLost ==
  \A k \in Keys : state[k] = "connected" =>
    \/ k \in lost
    \/ \E c \in Conns : conn[c].key = k /\ conn[c].stage \in {"welcoming", "syncing", "entering", "live"}

\* A peer the operator was told is revoked stays so, through restarts,
\* handshakes under way and saves made for other peers.
RevokedStays == \A k \in Keys : told[k] = "revoked" => k \notin approved /\ k \notin disk

\* A revoked peer's sessions end, unless it is approved again.
LiveRevoked(c) == In(c, "live") /\ conn[c].key \notin approved
RevokedEnds == \A c \in Conns : []<> ~ LiveRevoked(c)

\* A listed peer that answers is called again whenever its sessions are gone,
\* unless its welcome was lost, or a silent peer holds the dialer for ever: it
\* calls one peer after the other, and waits for each without a timeout.
DialerHeld == \E c \in Conns : (In(c, "dialing") \/ In(c, "syncing")) /\ ~ Answering(c)
RedialedUnlessHeld ==
  \A k \in Configured \ Silent :
    <>[]DialerHeld \/ []<>(k \in lost \/ \E c \in Conns : conn[c] = ConnAt(k, "live"))

\* A peer the operator was told is approved is so until it is revoked, through
\* restarts too, unless boot ignored the file: it does if two of its keys share
\* an origin, or if there are too many, and then every approval in it is gone.
ApprovedUnlessIgnored ==
  \A k \in Keys : told[k] = "approved" => k \in approved \/ k \in ignored
=============================================================================
