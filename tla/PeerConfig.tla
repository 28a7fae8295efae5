------------------------------ MODULE PeerConfig ------------------------------
(***************************************************************************)
(* The peers of a device and the set operation that configures them        *)
(* (device/uapi.go, the parts of device/device.go and device/peer.go it    *)
(* calls, device/allowedips.go).  A set operation holds ipcMutex and       *)
(* changes the device one line at a time, with no way back: packets are    *)
(* routed, peers run and the device goes down between two of its lines,    *)
(* and an error leaves what the lines before it did.                       *)
(*                                                                         *)
(* The lines of the AmneziaWG settings are in AwgConfig; the finer steps   *)
(* of starting and stopping a peer are in DeviceLifecycle.  Keys that only *)
(* store a value nothing here looks at (preshared_key, endpoint,           *)
(* protocol_version, listen_port, fwmark) change nothing here.             *)
(*                                                                         *)
(* A "mutant:" comment marks a deliberately wrong variant of the           *)
(* definition that follows it; the properties tell the two apart.          *)
(***************************************************************************)
EXTENDS AllowedIPs

CONSTANTS
    MaxPeers,     \* limit of the number of peers
    AllowedIp,    \* prefixes of allowed_ip lines
    Intervals     \* values of persistent_keepalive_interval lines

ASSUME PrefixAssumption == AllowedIp \subseteq [family : Family, ip : Address, cidr : Cidr]
ASSUME BoundAssumption == MaxPeers \in Nat /\ Intervals \subseteq Nat

VARIABLES
    keyMap,       \* device.peers.keyMap: the public keys of the peers
    running,      \* the peers whose routines run
    allowedips,   \* the table
    interval,     \* persistentKeepaliveInterval of each peer
    identity,     \* the public key of the device
    up,           \* the state of the device
    change,       \* the state changeState is still carrying out
    ipc           \* the set operation

state == <<up, change>>
vars == <<keyMap, running, allowedips, interval, identity, state, ipc>>

\* The variables of ipcSetPeer (secs is the interval of the dummy) and, to state
\* properties with, what the lines of the operation have said: the peers it
\* named, the ones whose keepalive it turned on, the ones it sent a keepalive.
Ipc == [pc : {"idle", "device", "peer"}, peer : Peer \cup {Nil}, dummy : BOOLEAN, created : BOOLEAN,
        pkaOn : BOOLEAN, secs : Intervals \cup {0}, named : SUBSET Peer,
        turnedOn : SUBSET Peer, kept : SUBSET Peer, result : {"none", "ok", "error"}]

NoOperation == [pc |-> "idle", peer |-> Nil, dummy |-> FALSE, created |-> FALSE, pkaOn |-> FALSE,
                secs |-> 0, named |-> {}, turnedOn |-> {}, kept |-> {}, result |-> "none"]

Init ==
    /\ keyMap = {}
    /\ running = {}
    /\ allowedips = EmptyTable
    /\ interval = [p \in Peer |-> 0]
    /\ identity = Nil
    /\ up = FALSE /\ change = "none"
    /\ ipc = NoOperation

-----------------------------------------------------------------------------
(* changeState: the state is stored first, and a set operation that is under *)
(* way sees it at once.                                                      *)

Up ==
    /\ change = "none" /\ ~up
    /\ up' = TRUE /\ change' = "up"
    /\ UNCHANGED <<keyMap, running, allowedips, interval, identity, ipc>>

\* upLocked starts every peer when it has got ipcMutex.
UpPeers ==
    /\ change = "up" /\ ipc.pc = "idle"
    /\ running' = running \cup keyMap
    /\ change' = "none"
    /\ UNCHANGED <<keyMap, allowedips, interval, identity, up, ipc>>

\* BindUpdate failed: "bring the device all the way back down".
UpFails ==
    /\ change = "up"
    /\ up' = FALSE /\ change' = "down"
    /\ UNCHANGED <<keyMap, running, allowedips, interval, identity, ipc>>

Down ==
    /\ change = "none" /\ up
    /\ up' = FALSE /\ change' = "down"
    /\ UNCHANGED <<keyMap, running, allowedips, interval, identity, ipc>>

\* downLocked stops every peer, and waits for no set operation.
DownPeers ==
    /\ change = "down"
    /\ running' = running \ keyMap
    /\ change' = "none"
    /\ UNCHANGED <<keyMap, allowedips, interval, identity, up, ipc>>

-----------------------------------------------------------------------------
(* Peers come and go. *)

removePeerLocked(peers) ==
    /\ allowedips' = FoldLeft(RemoveByPeer, allowedips, SetToSeq(peers))
    /\ running' = running \ peers
    /\ keyMap' = keyMap \ peers

RemovePeer(peer) == removePeerLocked({peer} \cap keyMap)

RemoveAllPeers == removePeerLocked(keyMap)

\* NewPeer refuses one more.
Full == Cardinality(keyMap) >= MaxPeers

-----------------------------------------------------------------------------
(* The set operation: device lines. *)

BeginSet ==
    /\ ipc.pc = "idle"
    /\ ipc' = [NoOperation EXCEPT !.pc = "device"]
    /\ UNCHANGED <<keyMap, running, allowedips, interval, identity, state>>

\* The peer that has the public key of the new private key is removed.
SetPrivateKey(key) ==
    /\ identity' = key
    /\ IF key = identity THEN UNCHANGED <<keyMap, running, allowedips>> ELSE RemovePeer(key)

PrivateKeyLine(key) ==
    /\ ipc.pc = "device"
    /\ SetPrivateKey(key)
    /\ UNCHANGED <<ipc, interval, state>>

ReplacePeersLine ==
    /\ ipc.pc = "device"
    /\ RemoveAllPeers
    /\ UNCHANGED <<ipc, interval, identity, state>>

-----------------------------------------------------------------------------
(* The set operation: peer lines. *)

\* handlePostConfig looks only at the peers the lines have not taken away.
Configured == ipc.peer # Nil /\ ~ipc.dummy

\* mutant: only a peer that is new is started
StartsIfNew == Configured /\ ipc.created /\ up

Starts == Configured /\ up

\* What handlePostConfig starts, and whom it sends a keepalive.
Started == IF Starts THEN {ipc.peer} ELSE {}
Kept == IF Starts /\ ipc.pkaOn THEN {ipc.peer} ELSE {}

\* The peer of the lines that follow is looked up, or created; pkaOn stays.
PublicKeyLine(key) ==
    /\ ipc.pc # "idle"
    /\ LET dummy == key = identity
           created == ~dummy /\ key \notin keyMap
           fails == created /\ Full
       IN /\ running' = running \cup Started
          /\ keyMap' = IF created /\ ~fails THEN keyMap \cup {key} ELSE keyMap
          /\ interval' = IF created /\ ~fails THEN [interval EXCEPT ![key] = 0] ELSE interval
          /\ ipc' = IF fails THEN [NoOperation EXCEPT !.result = "error"]
                    ELSE [ipc EXCEPT !.pc = "peer", !.peer = key, !.dummy = dummy, !.secs = 0,
                            !.created = created, !.named = @ \cup {key},
                            !.kept = @ \cup Kept]
    /\ UNCHANGED <<allowedips, identity, state>>

\* A line that is refused ends the operation: the peer it is at is started if the
\* line is a malformed public_key, which comes after handlePostConfig, and not if
\* it is any other.
InvalidLine ==
    /\ ipc.pc # "idle"
    /\ ipc' = [NoOperation EXCEPT !.result = "error"]
    /\ running' \in {running, running \cup Started}
    /\ UNCHANGED <<keyMap, allowedips, interval, identity, state>>

UpdateOnlyLine ==
    /\ ipc.pc = "peer"
    /\ IF ipc.created /\ ~ipc.dummy
       THEN /\ RemovePeer(ipc.peer)
            /\ ipc' = [ipc EXCEPT !.dummy = TRUE, !.secs = 0]
       ELSE /\ UNCHANGED <<ipc, keyMap, running, allowedips>>
    /\ UNCHANGED <<interval, identity, state>>

\* mutant: the lines that follow go to the removed peer
StillCurrent == ipc

\* The lines that follow go to a peer that nobody knows.
ToNobody == [ipc EXCEPT !.dummy = TRUE, !.secs = 0]

RemoveLine ==
    /\ ipc.pc = "peer"
    /\ IF ipc.dummy THEN UNCHANGED <<keyMap, running, allowedips>> ELSE RemovePeer(ipc.peer)
    /\ ipc' = ToNobody
    /\ UNCHANGED <<interval, identity, state>>

PersistentKeepaliveLine(secs) ==
    /\ ipc.pc = "peer"
    /\ LET old == IF ipc.dummy THEN ipc.secs ELSE interval[ipc.peer]
       IN ipc' = [ipc EXCEPT !.pkaOn = old = 0 /\ secs # 0, !.secs = IF ipc.dummy THEN secs ELSE @,
                    !.turnedOn = IF old = 0 /\ secs # 0 /\ ~ipc.dummy THEN @ \cup {ipc.peer} ELSE @]
    /\ interval' = IF ipc.dummy THEN interval ELSE [interval EXCEPT ![ipc.peer] = secs]
    /\ UNCHANGED <<keyMap, running, allowedips, identity, state>>

ReplaceAllowedIpsLine ==
    /\ ipc.pc = "peer"
    /\ allowedips' = IF ipc.dummy THEN allowedips ELSE RemoveByPeer(allowedips, ipc.peer)
    /\ UNCHANGED <<ipc, keyMap, running, interval, identity, state>>

AllowedIpLine(p) ==
    /\ ipc.pc = "peer"
    /\ allowedips' = IF ipc.dummy THEN allowedips
                     ELSE Insert(allowedips, p.family, p.ip, p.cidr, ipc.peer)
    /\ UNCHANGED <<ipc, keyMap, running, interval, identity, state>>

\* allowed_ip=-...
NotAllowedIpLine(p) ==
    /\ ipc.pc = "peer"
    /\ allowedips' = IF ipc.dummy THEN allowedips
                     ELSE RemovePrefix(allowedips, p.family, p.ip, p.cidr, ipc.peer)
    /\ UNCHANGED <<ipc, keyMap, running, interval, identity, state>>

\* The headers are checked first: the last peer is not started if that fails.  It
\* is if the scanner then turns out to have stopped at an error.
EndSet ==
    /\ ipc.pc # "idle"
    /\ \/ /\ ipc' = [NoOperation EXCEPT !.result = "error"]
          /\ running' \in {running, running \cup Started}
       \/ /\ ipc' = [NoOperation EXCEPT !.named = ipc.named, !.turnedOn = ipc.turnedOn,
                       !.kept = ipc.kept \cup Kept, !.result = "ok"]
          /\ running' = running \cup Started
    /\ UNCHANGED <<keyMap, allowedips, interval, identity, state>>

-----------------------------------------------------------------------------

DeviceLine == ReplacePeersLine \/ InvalidLine \/ \E key \in Peer : PrivateKeyLine(key)

PeerLine ==
    \/ UpdateOnlyLine \/ RemoveLine \/ ReplaceAllowedIpsLine
    \/ \E secs \in Intervals : PersistentKeepaliveLine(secs)
    \/ \E p \in AllowedIp : AllowedIpLine(p) \/ NotAllowedIpLine(p)

Next ==
    \/ Up \/ UpPeers \/ UpFails \/ Down \/ DownPeers
    \/ BeginSet \/ EndSet \/ DeviceLine \/ PeerLine
    \/ \E key \in Peer : PublicKeyLine(key)

Spec == Init /\ [][Next]_vars

-----------------------------------------------------------------------------
(* Properties. *)

\* Every variable keeps its type, and NewPeer keeps to the limit on peers.
TypeOK ==
    /\ keyMap \subseteq Peer /\ Cardinality(keyMap) <= MaxPeers
    /\ running \subseteq Peer
    /\ IsTable(allowedips)
    /\ interval \in [Peer -> Intervals \cup {0}]
    /\ identity \in Peer \cup {Nil}
    /\ up \in BOOLEAN /\ change \in {"none", "up", "down"}
    /\ ipc \in Ipc

AllocatedNode == DOMAIN allowedips.node
FieldHolds(at) == IF at.bit = 2 THEN allowedips.root[at.of] ELSE allowedips.node[at.of].child[at.bit]

\* The pointer surgery of insert and remove in allowedips.go keeps the trie in
\* shape: the field a node was reached through points at it, its prefix extends
\* its parent's on the right side, and a node without a peer has two children
\* (otherwise it would have been cut out), so none is left over.
TrieShape ==
    \A n \in AllocatedNode :
        LET e == allowedips.node[n] IN
        /\ FieldHolds(e.parent) = n
        /\ \A b \in Bit : e.child[b] # Nil =>
              /\ e.child[b] \in AllocatedNode
              /\ allowedips.node[e.child[b]].parent = ChildOf(n, b)
              /\ e.child[b].cidr > n.cidr
              /\ e.child[b].bits[n.cidr + 1] = b
              /\ commonBits(e.child[b].bits, n.bits) >= n.cidr
        /\ e.peer = Nil => \A b \in Bit : e.child[b] # Nil

Entries(peer) == {EntriesForPeer(allowedips, peer)[i] : i \in DOMAIN EntriesForPeer(allowedips, peer)}
Matching(family, ip) ==
    {n \in UNION {Entries(p) : p \in Peer} : n.family = family /\ commonBits(n.bits, ip) >= n.cidr}

\* AllowedIPs.Lookup, which routes every packet in both directions, finds the
\* peer whose list has the longest prefix of the address, whatever prefixes
\* were inserted, moved and removed before and in which order.
LongestPrefixWins ==
    \A family \in Family, ip \in Address :
        LET matching == Matching(family, ip)
            longest == CHOOSE n \in matching : \A o \in matching : o.cidr <= n.cidr
        IN Lookup(allowedips, family, ip) =
               IF matching = {} THEN Nil ELSE CHOOSE p \in Peer : longest \in Entries(p)

\* No address is routed to a peer that is not configured, at any line of any
\* operation: handlePeerLine sends the lines of a removed peer to a dummy and
\* removePeerLocked takes its prefixes with it.
RoutesToConfiguredPeers ==
    \A family \in Family, ip \in Address : Lookup(allowedips, family, ip) \in keyMap \cup {Nil}

\* The device is up, and nobody is still bringing it up.
Settled == up /\ change = "none"

\* A device that is up runs every peer an accepted set operation has named and
\* left configured, whatever was half done before by an operation that failed and
\* whichever of its lines were handled before the Up, during it or after it.
AcceptedPeersRun == ipc.result = "ok" /\ Settled => ipc.named \cap keyMap \subseteq running

\* The comment on ipcSetPeer.pkaOn: it "reports whether the peer had the
\* persistent keepalive turn on".  handlePostConfig sends a keepalive only to
\* a peer whose interval this operation has turned on.
KeepaliveWhereTurnedOn == ipc.kept \subseteq ipc.turnedOn

\* The abstract table: the owner of a prefix is the peer whose list has it.
Named == {NodeOf(p.family, p.ip, p.cidr) : p \in AllowedIp}
Owner == [n \in Named |-> IF \E p \in Peer : n \in Entries(p)
                          THEN CHOOSE p \in Peer : n \in Entries(p) ELSE Nil]

Routes == INSTANCE RoutingTable WITH Prefix <- Named, Nobody <- Nil, owner <- Owner,
                                    current <- ipc.peer

\* Every step on the tries and lists of allowedips.go is a step of the table
\* RoutingTable describes: one prefix claimed or given up, or all those of a
\* peer, and never the prefix of somebody else.
ImplementsRoutes == Routes!Spec
===============================================================================
