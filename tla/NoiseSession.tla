---------------------------- MODULE NoiseSession ----------------------------
(***************************************************************************)
(* Session establishment in amneziawg-go: the Noise handshake state of     *)
(* each peer (noise-protocol.go), the three keypair slots and their        *)
(* rotation (keypair.go), and the index table that maps the receiver       *)
(* index of an incoming message to a handshake or a keypair                *)
(* (indextable.go), on devices that exchange datagrams over a network that *)
(* loses, duplicates and reorders them.                                    *)
(*                                                                         *)
(* One step is one critical section of the code, so everything that may    *)
(* happen between two sections of a handler does happen here: another      *)
(* handshake worker (one goroutine per CPU), a timer or the TUN reader     *)
(* that starts a new handshake, the sequential receiver that rotates the   *)
(* keypairs, the zero-key-material timer.                                  *)
(*                                                                         *)
(* Keys are symbolic: a transcript is the pair of ephemerals mixed into    *)
(* it, and a message opens exactly under the transcript it was sealed      *)
(* with.  Time is left out: any timeout may have elapsed before any step.  *)
(*                                                                         *)
(* A "mutant:" comment marks a deliberately wrong variant of the           *)
(* definition that follows it; the properties tell the two apart.          *)
(***************************************************************************)
EXTENDS Naturals, Sequences

CONSTANTS
    Node,       \* devices; each has every other device configured as a peer
    Worker,     \* names of RoutineHandshake goroutines
    Started,    \* device -> the ones NewDevice has started, one for each CPU
    Index,      \* the values randUint32 may return
    ZeroIndex,  \* the index 0, which randUint32 may return and which also
                \* stands for "no index assigned"
    None,       \* nil
    MaxEph,     \* bound: device -> ephemeral keys it generates
    MaxDerived  \* bound: keypairs a peer derives

ASSUME StartedAssumption == Started \in [Node -> SUBSET Worker]
ASSUME BoundsAssumption == MaxEph \in [Node -> Nat] /\ MaxDerived \in Nat

VARIABLES
    hs,      \* peer -> its Handshake
    kps,     \* peer -> its Keypairs
    table,   \* device -> its IndexTable
    wk,      \* device -> handshake worker -> program counter and locals
    rx,      \* peer -> keypair the sequential receiver has in hand
    zeroing, \* peer -> ZeroAndFlushAll is between its two sections
    eph,     \* device -> number of ephemerals generated; also its clock
    net,     \* every datagram sent so far
    derived  \* history: peer -> the keys it derived, in order

vars == <<hs, kps, table, wk, rx, zeroing, eph, net, derived>>

\* A Peer of a device: the first component owns it, the second is remote.
Peer == {p \in Node \X Node : p[1] # p[2]}
Mirror(p) == <<p[2], p[1]>>

-----------------------------------------------------------------------------
(* Data *)

Eph == Node \X Nat
Key == [ei : Eph, er : Eph \cup {None}]
AnyIndex == Index \cup {ZeroIndex}

HandshakeState == {"Zeroed", "InitiationCreated", "InitiationConsumed",
                   "ResponseCreated", "ResponseConsumed"}

Handshake == [state : HandshakeState, localIndex : AnyIndex,
              remoteIndex : AnyIndex, chain : Key \cup {None},
              lastTimestamp : Nat]

ZeroHandshake == [state |-> "Zeroed", localIndex |-> ZeroIndex,
                  remoteIndex |-> ZeroIndex, chain |-> None,
                  lastTimestamp |-> 0]

Keypair == [key : Key, isInitiator : BOOLEAN,
            localIndex : AnyIndex, remoteIndex : AnyIndex]

ASSUME NoneAssumption == None \notin Node \cup Key \cup Keypair

Slot == {"previous", "current", "next"}
NoKeypairs == [s \in Slot |-> None]

\* IndexTableEntry; NoEntry is the zero value Lookup returns.
Entry == [peer : Node \cup {None}, handshake : BOOLEAN,
          keypair : Keypair \cup {None}]
NoEntry == [peer |-> None, handshake |-> FALSE, keypair |-> None]
HandshakeEntry(p) == [peer |-> p[2], handshake |-> TRUE, keypair |-> None]
KeypairEntry(p, kp) == [peer |-> p[2], handshake |-> FALSE, keypair |-> kp]

Initiation(p, sender, e) ==
    [type |-> "initiation", from |-> p[1], to |-> p[2],
     sender |-> sender, receiver |-> ZeroIndex,
     key |-> [ei |-> e, er |-> None]]
Response(p, sender, receiver, key) ==
    [type |-> "response", from |-> p[1], to |-> p[2],
     sender |-> sender, receiver |-> receiver, key |-> key]
Transport(p, receiver, key) ==
    [type |-> "transport", from |-> p[1], to |-> p[2],
     sender |-> ZeroIndex, receiver |-> receiver, key |-> key]

Message == [type : {"initiation", "response", "transport"},
            from : Node, to : Node, sender : AnyIndex, receiver : AnyIndex,
            key : Key]

WorkerPC == {"idle", "consumeInitiation", "createResponse",
             "beginResponder", "consumeResponse", "beginInitiator",
             "keepalive"}
IdleWorker == [pc |-> "idle", peer |-> None, msg |-> None]

-----------------------------------------------------------------------------
(* The index table *)

Delete(t, i) == [j \in Index |-> IF j = i THEN NoEntry ELSE t[j]]

SwapIndexForKeypair(t, i, kp) ==
    [j \in Index |-> IF j = i /\ t[j] # NoEntry
                     THEN [peer |-> t[j].peer, handshake |-> FALSE, keypair |-> kp]
                     ELSE t[j]]

\* NewIndexForHandshake retries until it draws an index nobody uses.
\* mutant: an index in use may be drawn
AnyFreeOrNot(t) == Index
FreeIndex(t) == {i \in Index : t[i] = NoEntry}

Lookup(t, i) == IF i \in Index THEN t[i] ELSE NoEntry

\* mutant: the entry of a dropped keypair stays
LeaveEntry(t, kp) == t
DeleteKeypair(t, kp) == IF kp = None THEN t ELSE Delete(t, kp.localIndex)

-----------------------------------------------------------------------------
Init ==
    /\ hs = [p \in Peer |-> ZeroHandshake]
    /\ kps = [p \in Peer |-> NoKeypairs]
    /\ table = [n \in Node |-> [i \in Index |-> NoEntry]]
    /\ wk = [n \in Node |-> [w \in Worker |-> IdleWorker]]
    /\ rx = [p \in Peer |-> None]
    /\ zeroing = [p \in Peer |-> FALSE]
    /\ eph = [n \in Node |-> 0]
    /\ net = {}
    /\ derived = [p \in Peer |-> <<>>]

Goto(n, w, pc) == wk' = [wk EXCEPT ![n][w].pc = pc]
Done(n, w) == wk' = [wk EXCEPT ![n][w] = IdleWorker]

\* The next ephemeral of device n; its number also serves as the TAI64N
\* timestamp, which grows with every message the device creates.
FreshEph(n) == <<n, eph[n] + 1>>
NewPrivateKey(n) ==
    /\ eph[n] < MaxEph[n]
    /\ eph' = [eph EXCEPT ![n] = @ + 1]

-----------------------------------------------------------------------------
(* CreateMessageInitiation and the datagram SendHandshakeInitiation sends.  *)

WithIndex(h, i, chain, state) ==
    [h EXCEPT !.localIndex = i, !.chain = chain, !.state = state]

CreateMessageInitiation(p) ==
    LET n == p[1]
        t == Delete(table[n], hs[p].localIndex)
        e == FreshEph(n)
    IN  /\ NewPrivateKey(n)
        /\ \E i \in FreeIndex(t) :
              /\ table' = [table EXCEPT ![n] = [t EXCEPT ![i] = HandshakeEntry(p)]]
              /\ hs' = [hs EXCEPT ![p] = WithIndex(@, i, [ei |-> e, er |-> None],
                                                   "InitiationCreated")]
              /\ net' = net \cup {Initiation(p, i, e)}
        /\ UNCHANGED <<kps, rx, zeroing, derived>>

\* A timer, staged packets or an ageing keypair make a routine other than a
\* handshake worker start a handshake once RekeyTimeout has passed.
SendHandshakeInitiation(p) ==
    /\ CreateMessageInitiation(p)
    /\ UNCHANGED wk

-----------------------------------------------------------------------------
(* RoutineHandshake on an initiation.                                       *)

\* The TAI64N timestamp must be newer than the last one accepted.
Replayed(h, m) == m.key.ei[2] <= h.lastTimestamp

\* First part of ConsumeMessageInitiation, under the read lock.
ReceiveInitiation(n, w) ==
    \E m \in net :
        LET p == <<n, m.from>> IN
        /\ wk[n][w].pc = "idle"
        /\ m.type = "initiation" /\ m.to = n
        /\ ~Replayed(hs[p], m)
        /\ wk' = [wk EXCEPT ![n][w] = [pc |-> "consumeInitiation",
                                       peer |-> m.from, msg |-> m]]
        /\ UNCHANGED <<hs, kps, table, rx, zeroing, eph, net, derived>>

\* Second part, under the write lock.
WithInitiation(h, m) ==
    [h EXCEPT !.chain = m.key, !.remoteIndex = m.sender,
              !.lastTimestamp = IF m.key.ei[2] > @ THEN m.key.ei[2] ELSE @,
              !.state = "InitiationConsumed"]

ConsumeMessageInitiation(n, w) ==
    LET m == wk[n][w].msg
        p == <<n, wk[n][w].peer>>
    IN  /\ wk[n][w].pc = "consumeInitiation"
        /\ hs' = [hs EXCEPT ![p] = WithInitiation(@, m)]
        /\ Goto(n, w, "createResponse")
        /\ UNCHANGED <<kps, table, rx, zeroing, eph, net, derived>>

CreateMessageResponse(n, w) ==
    LET p == <<n, wk[n][w].peer>>
        t == Delete(table[n], hs[p].localIndex)
        key == [ei |-> hs[p].chain.ei, er |-> FreshEph(n)]
    IN  /\ wk[n][w].pc = "createResponse"
        /\ hs[p].state = "InitiationConsumed"
        /\ NewPrivateKey(n)
        /\ \E i \in FreeIndex(t) :
              /\ table' = [table EXCEPT ![n] = [t EXCEPT ![i] = HandshakeEntry(p)]]
              /\ hs' = [hs EXCEPT ![p] = WithIndex(@, i, key, "ResponseCreated")]
              /\ wk' = [wk EXCEPT ![n][w] =
                          [pc |-> "beginResponder", peer |-> p[2],
                           msg |-> Response(p, i, hs[p].remoteIndex, key)]]
        /\ UNCHANGED <<kps, rx, zeroing, net, derived>>

\* "handshake initiation must be consumed first"
CreateMessageResponseFails(n, w) ==
    /\ wk[n][w].pc = "createResponse"
    /\ hs[<<n, wk[n][w].peer>>].state # "InitiationConsumed"
    /\ Done(n, w)
    /\ UNCHANGED <<hs, kps, table, rx, zeroing, eph, net, derived>>

-----------------------------------------------------------------------------
(* RoutineHandshake on a response.                                          *)

\* Index lookup and first part of ConsumeMessageResponse: the read lock.
ReceiveResponse(n, w) ==
    \E m \in net :
        LET e == Lookup(table[n], m.receiver)
            p == <<n, e.peer>>
        IN
        /\ wk[n][w].pc = "idle"
        /\ m.type = "response" /\ m.to = n
        /\ e.handshake
        /\ hs[p].state = "InitiationCreated"
        /\ hs[p].chain.ei = m.key.ei
        /\ wk' = [wk EXCEPT ![n][w] = [pc |-> "consumeResponse",
                                       peer |-> e.peer, msg |-> m]]
        /\ UNCHANGED <<hs, kps, table, rx, zeroing, eph, net, derived>>

\* What the response adds to the handshake.
\* mutant: the index of the sender is not stored
WithoutSender(h, m) == [h EXCEPT !.chain = m.key, !.state = "ResponseConsumed"]
WithResponse(h, m) ==
    [h EXCEPT !.chain = m.key, !.remoteIndex = m.sender,
              !.state = "ResponseConsumed"]

\* Second part, under the write lock.
ConsumeMessageResponse(n, w) ==
    LET m == wk[n][w].msg
        p == <<n, wk[n][w].peer>>
    IN  /\ wk[n][w].pc = "consumeResponse"
        /\ hs' = [hs EXCEPT ![p] = WithResponse(@, m)]
        /\ Goto(n, w, "beginInitiator")
        /\ UNCHANGED <<kps, table, rx, zeroing, eph, net, derived>>

-----------------------------------------------------------------------------
(* BeginSymmetricSession, called by either kind of handler: the role is     *)
(* decided by the handshake state it finds, not by its caller.              *)

\* Both ways of rotating the slots when a keypair is derived, and the
\* keypairs each of them drops from the index table.
RotateForInitiator(k, kp) ==
    IF k["next"] # None
    THEN [slots |-> [k EXCEPT !["next"] = None, !["previous"] = k["next"],
                              !["current"] = kp],
          dropped |-> <<k["current"], k["previous"]>>]
    ELSE [slots |-> [k EXCEPT !["previous"] = k["current"],
                              !["current"] = kp],
          dropped |-> <<None, k["previous"]>>]
RotateForResponder(k, kp) ==
    [slots |-> [k EXCEPT !["next"] = kp, !["previous"] = None],
     dropped |-> <<k["next"], k["previous"]>>]

\* The states a keypair can be derived in.
\* mutant: the state is not checked
AnyState(h) == TRUE
Derivable(h) == h.state \in {"ResponseConsumed", "ResponseCreated"}

\* Handshake.Clear, and what BeginSymmetricSession zeroes.
Cleared(h) == [h EXCEPT !.chain = None, !.state = "Zeroed",
                        !.localIndex = ZeroIndex]

DerivedKeypair(h) ==
    [key |-> h.chain, isInitiator |-> h.state = "ResponseConsumed",
     localIndex |-> h.localIndex, remoteIndex |-> h.remoteIndex]
Rotate(k, kp) ==
    IF kp.isInitiator THEN RotateForInitiator(k, kp) ELSE RotateForResponder(k, kp)

\* The index is swapped under the handshake lock and the slots are rotated
\* under the keypairs lock taken after it.  This is one step: the new keypair
\* is reachable through its index in between, but no packet under it exists
\* before its peer has answered or confirmed.
BeginSymmetricSession(p) ==
    LET n == p[1]
        h == hs[p]
        kp == DerivedKeypair(h)
        rot == Rotate(kps[p], kp)
        swapped == SwapIndexForKeypair(table[n], h.localIndex, kp)
    IN  /\ Derivable(h)
        /\ Len(derived[p]) < MaxDerived
        /\ hs' = [hs EXCEPT ![p] = Cleared(@)]
        /\ table' = [table EXCEPT ![n] =
                       DeleteKeypair(DeleteKeypair(swapped, rot.dropped[1]),
                                     rot.dropped[2])]
        /\ kps' = [kps EXCEPT ![p] = rot.slots]
        /\ derived' = [derived EXCEPT ![p] = Append(@, h.chain)]
        /\ UNCHANGED <<rx, zeroing, eph>>

\* SendHandshakeResponse derives the keypair before it sends the response.
BeginResponder(n, w) ==
    /\ wk[n][w].pc = "beginResponder"
    /\ BeginSymmetricSession(<<n, wk[n][w].peer>>)
    /\ net' = net \cup {wk[n][w].msg}
    /\ Done(n, w)

BeginInitiator(n, w) ==
    /\ wk[n][w].pc = "beginInitiator"
    /\ BeginSymmetricSession(<<n, wk[n][w].peer>>)
    /\ Goto(n, w, "keepalive")
    /\ UNCHANGED net

\* "invalid state for keypair derivation": neither handler goes on.
BeginSymmetricSessionFails(n, w) ==
    /\ wk[n][w].pc \in {"beginResponder", "beginInitiator"}
    /\ ~Derivable(hs[<<n, wk[n][w].peer>>])
    /\ Done(n, w)
    /\ UNCHANGED <<hs, kps, table, rx, zeroing, eph, net, derived>>

-----------------------------------------------------------------------------
(* Transport                                                                *)

\* SendStagedPackets with a usable current keypair.
SendTransport(p) ==
    LET kp == kps[p]["current"] IN
    /\ kp # None
    /\ net' = net \cup {Transport(p, kp.remoteIndex, kp.key)}
    /\ UNCHANGED <<hs, kps, table, rx, zeroing, eph, derived>>

SendStagedPackets(p) == SendTransport(p) /\ UNCHANGED wk

\* The keepalive an initiator sends as soon as its keypair exists; if the
\* keypair is gone again SendStagedPackets starts a new handshake.
SendKeepalive(n, w) ==
    LET p == <<n, wk[n][w].peer>> IN
    /\ wk[n][w].pc = "keepalive"
    /\ Done(n, w)
    /\ \/ SendTransport(p)
       \/ /\ kps[p]["current"] = None
          /\ CreateMessageInitiation(p)

\* RekeyTimeout has not passed: the keepalive stays staged.
SendKeepaliveTooSoon(n, w) ==
    /\ wk[n][w].pc = "keepalive"
    /\ kps[<<n, wk[n][w].peer>>]["current"] = None
    /\ Done(n, w)
    /\ UNCHANGED <<hs, kps, table, rx, zeroing, eph, net, derived>>

\* RoutineReceiveIncoming resolves the receiver index and a decryption worker
\* opens the packet; the sequential receiver gets the keypair found then.
ReceiveTransport(p) ==
    \E m \in net :
        LET e == Lookup(table[p[1]], m.receiver) IN
        /\ rx[p] = None
        /\ m.type = "transport" /\ m.to = p[1]
        /\ e.peer = p[2] /\ e.keypair # None
        /\ e.keypair.key = m.key /\ m.from = p[2]
        /\ rx' = [rx EXCEPT ![p] = e.keypair]
        /\ UNCHANGED <<hs, kps, table, wk, zeroing, eph, net, derived>>

\* The sequential receiver: the first packet under the next keypair confirms
\* it and makes it the current one.
ReceivedWithKeypair(p) ==
    LET k == kps[p]
        confirmed == k["next"] = rx[p]
    IN  /\ rx[p] # None
        /\ rx' = [rx EXCEPT ![p] = None]
        /\ kps' = IF confirmed
                  THEN [kps EXCEPT ![p] = [previous |-> k["current"],
                                           current |-> k["next"],
                                           next |-> None]]
                  ELSE kps
        /\ table' = IF confirmed
                    THEN [table EXCEPT ![p[1]] = DeleteKeypair(@, k["previous"])]
                    ELSE table
        /\ UNCHANGED <<hs, wk, zeroing, eph, net, derived>>

-----------------------------------------------------------------------------
(* ZeroAndFlushAll, run by the zeroKeyMaterial timer: first the keypairs    *)
(* lock, then the handshake lock.                                           *)

ZeroKeypairs(p) ==
    LET k == kps[p] IN
    /\ ~zeroing[p]
    /\ zeroing' = [zeroing EXCEPT ![p] = TRUE]
    /\ table' = [table EXCEPT ![p[1]] =
                   DeleteKeypair(DeleteKeypair(DeleteKeypair(@, k["previous"]),
                                               k["current"]), k["next"])]
    /\ kps' = [kps EXCEPT ![p] = NoKeypairs]
    /\ UNCHANGED <<hs, wk, rx, eph, net, derived>>

ZeroHandshakeState(p) ==
    /\ zeroing[p]
    /\ zeroing' = [zeroing EXCEPT ![p] = FALSE]
    /\ table' = [table EXCEPT ![p[1]] = Delete(@, hs[p].localIndex)]
    /\ hs' = [hs EXCEPT ![p] = Cleared(@)]
    /\ UNCHANGED <<kps, wk, rx, eph, net, derived>>

-----------------------------------------------------------------------------
WorkerStep(n, w) ==
    \/ ReceiveInitiation(n, w)
    \/ ConsumeMessageInitiation(n, w)
    \/ CreateMessageResponse(n, w)
    \/ CreateMessageResponseFails(n, w)
    \/ ReceiveResponse(n, w)
    \/ ConsumeMessageResponse(n, w)
    \/ BeginResponder(n, w)
    \/ BeginInitiator(n, w)
    \/ BeginSymmetricSessionFails(n, w)
    \/ SendKeepalive(n, w)
    \/ SendKeepaliveTooSoon(n, w)

PeerStep(p) ==
    \/ SendHandshakeInitiation(p)
    \/ SendStagedPackets(p)
    \/ ReceiveTransport(p)
    \/ ReceivedWithKeypair(p)
    \/ ZeroKeypairs(p)
    \/ ZeroHandshakeState(p)

Next ==
    \/ \E n \in Node : \E w \in Started[n] : WorkerStep(n, w)
    \/ \E p \in Peer : PeerStep(p)

Spec == Init /\ [][Next]_vars
-----------------------------------------------------------------------------
(* Properties *)

TypeOK ==
    /\ hs \in [Peer -> Handshake]
    /\ kps \in [Peer -> [Slot -> Keypair \cup {None}]]
    /\ table \in [Node -> [Index -> Entry]]
    /\ wk \in [Node -> [Worker -> [pc : WorkerPC, peer : Node \cup {None},
                                   msg : Message \cup {None}]]]
    /\ rx \in [Peer -> Keypair \cup {None}]
    /\ zeroing \in [Peer -> BOOLEAN]
    /\ eph \in [Node -> Nat]
    /\ net \subseteq Message
    /\ derived \in [Peer -> Seq(Key)]

\* The indices that do not also stand for "no index assigned".
Assigned == Index \ {ZeroIndex}

\* Every entry of a device's index table under an index other than 0 belongs to
\* a live handshake or to a keypair in one of its peer's slots: no handler, in
\* any interleaving of Delete, NewIndexForHandshake and SwapIndexForKeypair,
\* leaks such an index or leaves one that resolves to a keypair already dropped.
NoStaleEntry ==
    \A n \in Node, i \in Assigned :
        table[n][i] # NoEntry =>
            LET e == table[n][i]
                p == <<n, e.peer>>
            IN  /\ p \in Peer
                /\ \/ e = HandshakeEntry(p) /\ hs[p].localIndex = i
                   \/ \E s \in Slot :
                        /\ kps[p][s] # None
                        /\ e = KeypairEntry(p, kps[p][s])
                        /\ kps[p][s].localIndex = i

\* A live handshake and every keypair in a slot are found under the index they
\* were given, if it is not 0: deleting the index of one handshake or keypair
\* (localIndex is "used to clear hash-table") never takes away that of another.
HandshakeIndexResolves ==
    \A p \in Peer :
        hs[p].localIndex \in Assigned =>
            table[p[1]][hs[p].localIndex] = HandshakeEntry(p)
KeypairIndexResolves ==
    \A p \in Peer, s \in Slot :
        kps[p][s] # None /\ kps[p][s].localIndex \in Assigned =>
            table[p[1]][kps[p][s].localIndex] = KeypairEntry(p, kps[p][s])

\* Both: BeginSymmetricSession hands the index of a handshake over to its
\* keypair, and ZeroAndFlushAll takes both away in two sections.
IndicesResolve == HandshakeIndexResolves /\ KeypairIndexResolves

\* The same of every keypair, whatever its index: NewIndexForHandshake may draw
\* 0, and the handlers delete it as the index of a handshake that has none.
EveryKeypairResolves ==
    \A p \in Peer, s \in Slot :
        kps[p][s] # None /\ kps[p][s].localIndex \in Index =>
            table[p[1]][kps[p][s].localIndex] = KeypairEntry(p, kps[p][s])

KeysIn(d) == {d[j] : j \in 1 .. Len(d)}

\* A responder sends under a keypair (its current slot) only if the initiator
\* derived the same key: BeginSymmetricSession parks the keypair of a
\* responder in next until ReceivedWithKeypair sees it confirmed.
KeyConfirmed ==
    \A p \in Peer :
        LET kp == kps[p]["current"] IN
        kp # None /\ ~kp.isInitiator => kp.key \in KeysIn(derived[Mirror(p)])

\* Two ends that hold the same key hold it in opposite roles, and what the
\* initiator sends under it carries the index the responder receives under.
SessionAgreement ==
    \A p \in Peer : \A s, t \in Slot :
        LET a == kps[p][s]
            b == kps[Mirror(p)][t]
        IN  a # None /\ b # None /\ a.isInitiator /\ a.key = b.key =>
                ~b.isInitiator /\ a.remoteIndex = b.localIndex

\* The other direction: the index a responder sends to is one the initiator
\* receives that session under ("index for sending" in Handshake).
ResponderReachesInitiator ==
    \A p \in Peer : \A s, t \in Slot :
        LET a == kps[p][s]
            b == kps[Mirror(p)][t]
        IN  a # None /\ b # None /\ a.isInitiator /\ a.key = b.key =>
                b.remoteIndex = a.localIndex

\* What the handlers say of a handshake, and two workers do not keep:
\* "Derives a new keypair from the current handshake state"
\* (BeginSymmetricSession): one handshake, one keypair.
OneKeypairPerHandshake ==
    \A p \in Peer : \A i, j \in 1 .. Len(derived[p]) :
        derived[p][i] = derived[p][j] => i = j

\* "protect against replay & flood" (ConsumeMessageInitiation): the initiation
\* that is being answered is the newest one accepted.
ConsumedIsNewest ==
    \A p \in Peer :
        hs[p].state \in {"InitiationConsumed", "ResponseCreated"} =>
            hs[p].chain.ei[2] = hs[p].lastTimestamp
=============================================================================
