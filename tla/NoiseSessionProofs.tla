------------------------- MODULE NoiseSessionProofs -------------------------
(***************************************************************************)
(* Theorems about NoiseSession, for any set of devices, any set of indices *)
(* with or without 0, any number of handshake workers and any bounds.      *)
(***************************************************************************)
EXTENDS NoiseSession, TLAPS

(***************************************************************************)
(* What TypeOK needs to be inductive: a worker that is not idle works for  *)
(* a peer of its device, a handshake that is under way has a transcript,   *)
(* an entry of an index table names a peer of the table's device, and no   *)
(* device sends to itself.                                                 *)
(***************************************************************************)
WorkerOK ==
    \A n \in Node, w \in Worker :
        /\ wk[n][w].pc # "idle" => <<n, wk[n][w].peer>> \in Peer
        /\ wk[n][w].pc \in {"consumeInitiation", "consumeResponse", "beginResponder"}
             => /\ wk[n][w].msg \in Message /\ wk[n][w].msg.from # wk[n][w].msg.to
                /\ wk[n][w].msg.type # "transport"
ChainOK == \A p \in Peer : hs[p].state # "Zeroed" => hs[p].chain \in Key
EntryOK ==
    \A n \in Node, i \in Index :
        table[n][i] # NoEntry => <<n, table[n][i].peer>> \in Peer
NetOK == \A m \in net : m.from # m.to

TypeInv == TypeOK /\ WorkerOK /\ ChainOK /\ EntryOK /\ NetOK

-----------------------------------------------------------------------------
LEMMA NextSteps ==
    ASSUME Next
    PROVE  \/ \E n \in Node, w \in Worker : WorkerStep(n, w)
           \/ \E p \in Peer : PeerStep(p)
BY StartedAssumption DEF Next

-----------------------------------------------------------------------------
(* The operators on index tables and slots *)

PeerTable(n) == {t \in [Index -> Entry] :
                    \A i \in Index : t[i] # NoEntry => <<n, t[i].peer>> \in Peer}

LEMMA PeerPair ==
    ASSUME NEW p \in Peer
    PROVE  p[1] \in Node /\ p[2] \in Node /\ p[1] # p[2] /\ p = <<p[1], p[2]>>
           /\ Mirror(p) \in Peer /\ Mirror(Mirror(p)) = p
BY DEF Peer, Mirror

LEMMA PeerMake ==
    ASSUME NEW n \in Node, NEW k \in Node, n # k
    PROVE  <<n, k>> \in Peer /\ <<n, k>>[1] = n /\ <<n, k>>[2] = k
BY DEF Peer

LEMMA NoEntryType == NoEntry \in Entry
BY DEF NoEntry, Entry

LEMMA KeypairEntryType ==
    ASSUME NEW p \in Peer, NEW kp \in Keypair
    PROVE  KeypairEntry(p, kp) \in Entry /\ HandshakeEntry(p) \in Entry
           /\ KeypairEntry(p, kp).peer = p[2] /\ HandshakeEntry(p).peer = p[2]
BY PeerPair DEF KeypairEntry, HandshakeEntry, Entry

LEMMA DeleteType ==
    ASSUME NEW n \in Node, NEW t \in PeerTable(n), NEW i
    PROVE  Delete(t, i) \in PeerTable(n)
BY NoEntryType DEF Delete, PeerTable

LEMMA DeleteKeypairType ==
    ASSUME NEW n \in Node, NEW t \in PeerTable(n), NEW kp
    PROVE  DeleteKeypair(t, kp) \in PeerTable(n)
BY DeleteType DEF DeleteKeypair

LEMMA SwapType ==
    ASSUME NEW n \in Node, NEW t \in PeerTable(n), NEW i, NEW kp \in Keypair
    PROVE  SwapIndexForKeypair(t, i, kp) \in PeerTable(n)
BY DEF SwapIndexForKeypair, PeerTable, Entry

LEMMA AllocateType ==
    ASSUME NEW p \in Peer, NEW t \in PeerTable(p[1]), NEW i \in Index
    PROVE  [t EXCEPT ![i] = HandshakeEntry(p)] \in PeerTable(p[1])
<1>1. HandshakeEntry(p) \in Entry /\ HandshakeEntry(p).peer = p[2]
  BY PeerPair DEF HandshakeEntry, Entry
<1> QED BY <1>1, PeerPair DEF PeerTable

LEMMA TablesType ==
    (TypeOK /\ EntryOK) <=> /\ TypeOK
                            /\ \A n \in Node : table[n] \in PeerTable(n)
BY DEF TypeOK, EntryOK, PeerTable

-----------------------------------------------------------------------------
(* Type correctness *)

LEMMA TypeInit == Init => TypeInv
<1> SUFFICES ASSUME Init PROVE TypeInv
  OBVIOUS
<1>1. ZeroHandshake \in Handshake
  BY DEF ZeroHandshake, Handshake, HandshakeState, AnyIndex
<1>2. IdleWorker \in [pc : WorkerPC, peer : Node \cup {None}, msg : Message \cup {None}]
  BY DEF IdleWorker, WorkerPC
<1>3. TypeOK
  <2>1. hs \in [Peer -> Handshake]
    BY <1>1 DEF Init
  <2>2. kps \in [Peer -> [Slot -> Keypair \cup {None}]]
    BY DEF Init, NoKeypairs
  <2>3. table \in [Node -> [Index -> Entry]]
    BY NoEntryType DEF Init
  <2>4. wk \in [Node -> [Worker -> [pc : WorkerPC, peer : Node \cup {None},
                                    msg : Message \cup {None}]]]
    BY <1>2 DEF Init
  <2>5. derived \in [Peer -> Seq(Key)]
    BY DEF Init
  <2> QED BY <2>1, <2>2, <2>3, <2>4, <2>5 DEF Init, TypeOK
<1>4. WorkerOK /\ ChainOK
  BY DEF Init, WorkerOK, ChainOK, IdleWorker, ZeroHandshake
<1>5. EntryOK /\ NetOK
  BY DEF Init, EntryOK, NetOK
<1> QED BY <1>3, <1>4, <1>5 DEF TypeInv

\* The locals of a worker, and the ways a step changes them.
Locals == [pc : WorkerPC, peer : Node \cup {None}, msg : Message \cup {None}]
LocalOK(n, l) ==
    /\ l \in Locals
    /\ l.pc # "idle" => <<n, l.peer>> \in Peer
    /\ l.pc \in {"consumeInitiation", "consumeResponse", "beginResponder"}
         => l.msg \in Message /\ l.msg.from # l.msg.to /\ l.msg.type # "transport"

At(l, pc) == [l EXCEPT !.pc = pc]

LEMMA AtType ==
    ASSUME NEW n \in Node, NEW l, LocalOK(n, l), l.pc # "idle",
           NEW pc \in {"createResponse", "beginInitiator", "keepalive"}
    PROVE  LocalOK(n, At(l, pc))
BY DEF LocalOK, Locals, WorkerPC, At

\* TypeInv in two parts: the workers, and everything else.
WorkersOK == wk \in [Node -> [Worker -> Locals]] /\ WorkerOK
StoreOK ==
    /\ hs \in [Peer -> Handshake] /\ ChainOK
    /\ kps \in [Peer -> [Slot -> Keypair \cup {None}]]
    /\ \A n \in Node : table[n] \in PeerTable(n)
    /\ table \in [Node -> [Index -> Entry]]
    /\ rx \in [Peer -> Keypair \cup {None}]
    /\ zeroing \in [Peer -> BOOLEAN]
    /\ eph \in [Node -> Nat]
    /\ net \subseteq Message /\ NetOK
    /\ derived \in [Peer -> Seq(Key)]

LEMMA TypeParts == TypeInv <=> WorkersOK /\ StoreOK
BY TablesType DEF TypeInv, TypeOK, WorkersOK, StoreOK, Locals, EntryOK, PeerTable

LEMMA StoredHandshake == ASSUME StoreOK, NEW p \in Peer PROVE hs[p] \in Handshake
BY DEF StoreOK

LEMMA StoredTable == ASSUME StoreOK, NEW n \in Node PROVE table[n] \in PeerTable(n)
BY DEF StoreOK

LEMMA TypePartsNext == (WorkersOK /\ StoreOK)' => TypeInv'
BY TypeParts, PTL

LEMMA TableUpdate ==
    ASSUME StoreOK, NEW n \in Node, NEW t \in PeerTable(n),
           table' = [table EXCEPT ![n] = t]
    PROVE  /\ table' \in [Node -> [Index -> Entry]]
           /\ \A k \in Node : table'[k] \in PeerTable(k)
BY DEF StoreOK, PeerTable

LEMMA HandshakeUpdate ==
    ASSUME StoreOK, NEW p \in Peer, NEW h \in Handshake,
           h.state # "Zeroed" => h.chain \in Key,
           hs' = [hs EXCEPT ![p] = h]
    PROVE  hs' \in [Peer -> Handshake] /\ ChainOK'
BY DEF StoreOK, ChainOK

LEMMA ClearedType ==
    ASSUME NEW h \in Handshake
    PROVE  /\ Cleared(h) \in Handshake /\ Cleared(h).state = "Zeroed"
           /\ Cleared(h).localIndex = ZeroIndex
           /\ Cleared(h).remoteIndex = h.remoteIndex
BY DEF Cleared, Handshake, HandshakeState, AnyIndex

LEMMA FreshEphType ==
    ASSUME StoreOK, NEW n \in Node
    PROVE  FreshEph(n) \in Eph
BY DEF StoreOK, FreshEph, Eph

LEMMA WithIndexType ==
    ASSUME NEW h \in Handshake, NEW i \in Index, NEW c \in Key, NEW st \in HandshakeState
    PROVE  /\ WithIndex(h, i, c, st) \in Handshake
           /\ WithIndex(h, i, c, st).chain = c
           /\ WithIndex(h, i, c, st).localIndex = i
BY DEF WithIndex, Handshake, AnyIndex

LEMMA CreateInitiationType ==
    ASSUME StoreOK, NEW p \in Peer, CreateMessageInitiation(p)
    PROVE  StoreOK'
<1> DEFINE n == p[1]
           t == Delete(table[n], hs[p].localIndex)
           e == FreshEph(n)
           c == [ei |-> e, er |-> None]
<1>1. n \in Node /\ p[2] \in Node /\ n # p[2]
  BY PeerPair
<1>2. c \in Key
  BY <1>1, FreshEphType DEF Key
<1>3. t \in PeerTable(n)
  BY <1>1, DeleteType DEF StoreOK
<1>4. PICK i \in FreeIndex(t) :
         /\ table' = [table EXCEPT ![n] = [t EXCEPT ![i] = HandshakeEntry(p)]]
         /\ hs' = [hs EXCEPT ![p] = WithIndex(hs[p], i, c, "InitiationCreated")]
         /\ net' = net \cup {Initiation(p, i, e)}
  BY DEF CreateMessageInitiation
<1>5. i \in Index
  BY DEF FreeIndex
<1>6. /\ table' \in [Node -> [Index -> Entry]]
      /\ \A k \in Node : table'[k] \in PeerTable(k)
  <2> HIDE DEF t
  <2>1. [t EXCEPT ![i] = HandshakeEntry(p)] \in PeerTable(n)
    BY <1>3, <1>5, AllocateType
  <2> QED BY <1>1, <1>4, <2>1, TableUpdate
<1>7. hs' \in [Peer -> Handshake] /\ ChainOK'
  <2> HIDE DEF c
  <2>1. hs' = [hs EXCEPT ![p] = WithIndex(hs[p], i, c, "InitiationCreated")]
    BY <1>4
  <2>2. hs[p] \in Handshake /\ "InitiationCreated" \in HandshakeState
    BY DEF StoreOK, HandshakeState
  <2>3. WithIndex(hs[p], i, c, "InitiationCreated") \in Handshake
        /\ WithIndex(hs[p], i, c, "InitiationCreated").chain \in Key
    BY <1>2, <1>5, <2>2, WithIndexType
  <2> QED BY <2>1, <2>3, HandshakeUpdate
<1>8. net' \subseteq Message /\ NetOK'
  <2>1. Initiation(p, i, e) \in Message /\ Initiation(p, i, e).from # Initiation(p, i, e).to
    BY <1>1, <1>2, <1>5 DEF Initiation, Message, AnyIndex
  <2> QED BY <1>4, <2>1 DEF StoreOK, NetOK
<1>9. eph' \in [Node -> Nat]
  BY <1>1 DEF CreateMessageInitiation, NewPrivateKey, StoreOK
<1> QED BY <1>6, <1>7, <1>8, <1>9 DEF StoreOK, CreateMessageInitiation

LEMMA SendTransportType ==
    ASSUME StoreOK, NEW p \in Peer, SendTransport(p)
    PROVE  StoreOK'
<1> DEFINE kp == kps[p]["current"]
           m == Transport(p, kp.remoteIndex, kp.key)
<1>1. kp \in Keypair
  BY DEF SendTransport, StoreOK, Slot
<1>2. m \in Message /\ m.from # m.to
  <2> HIDE DEF kp
  <2>1. kp.remoteIndex \in AnyIndex /\ kp.key \in Key
    BY <1>1 DEF Keypair
  <2> QED BY <2>1, PeerPair DEF Transport, Message, AnyIndex
<1> QED BY <1>2 DEF SendTransport, StoreOK, ChainOK, NetOK

LEMMA DerivedKeypairType ==
    ASSUME StoreOK, NEW p \in Peer, Derivable(hs[p])
    PROVE  DerivedKeypair(hs[p]) \in Keypair /\ DerivedKeypair(hs[p]).key = hs[p].chain
           /\ hs[p].chain \in Key /\ DerivedKeypair(hs[p]).localIndex = hs[p].localIndex
<1>1. hs[p] \in Handshake /\ hs[p].state # "Zeroed"
  BY DEF StoreOK, Derivable
<1>2. hs[p].chain \in Key
  BY <1>1 DEF StoreOK, ChainOK
<1> QED BY <1>1, <1>2 DEF DerivedKeypair, Keypair, Handshake

LEMMA RotationType ==
    ASSUME NEW k \in [Slot -> Keypair \cup {None}], NEW kp \in Keypair
    PROVE  /\ RotateForInitiator(k, kp).slots \in [Slot -> Keypair \cup {None}]
           /\ RotateForResponder(k, kp).slots \in [Slot -> Keypair \cup {None}]
BY DEF RotateForInitiator, RotateForResponder, Slot

LEMMA BeginSession ==
    ASSUME StoreOK, NEW p \in Peer, BeginSymmetricSession(p)
    PROVE  /\ Derivable(hs[p])
           /\ hs' = [hs EXCEPT ![p] = Cleared(hs[p])]
           /\ kps' = [kps EXCEPT ![p] = Rotate(kps[p], DerivedKeypair(hs[p])).slots]
           /\ derived' = [derived EXCEPT ![p] = Append(derived[p], hs[p].chain)]
           /\ table' = [table EXCEPT ![p[1]] =
                          DeleteKeypair(DeleteKeypair(
                            SwapIndexForKeypair(table[p[1]], hs[p].localIndex, DerivedKeypair(hs[p])),
                            Rotate(kps[p], DerivedKeypair(hs[p])).dropped[1]), Rotate(kps[p], DerivedKeypair(hs[p])).dropped[2])]
           /\ UNCHANGED <<rx, zeroing, eph>>
BY Zenon DEF BeginSymmetricSession

LEMMA BeginSessionType ==
    ASSUME StoreOK, NEW p \in Peer, BeginSymmetricSession(p),
           net' \subseteq Message, NetOK'
    PROVE  StoreOK'
<1>1. Derivable(hs[p])
  BY BeginSession
<1>2. DerivedKeypair(hs[p]) \in Keypair /\ hs[p].chain \in Key
  BY <1>1, DerivedKeypairType
<1>3. hs' \in [Peer -> Handshake] /\ ChainOK'
  <2>1. Cleared(hs[p]) \in Handshake /\ Cleared(hs[p]).state = "Zeroed"
    BY ClearedType DEF StoreOK
  <2>2. hs' = [hs EXCEPT ![p] = Cleared(hs[p])]
    BY BeginSession
  <2> QED BY <2>1, <2>2, HandshakeUpdate
<1>4. kps' \in [Peer -> [Slot -> Keypair \cup {None}]]
  <2>1. kps[p] \in [Slot -> Keypair \cup {None}]
    BY DEF StoreOK
  <2>2. Rotate(kps[p], DerivedKeypair(hs[p])).slots \in [Slot -> Keypair \cup {None}]
    BY <1>2, <2>1, RotationType DEF Rotate
  <2>3. kps' = [kps EXCEPT ![p] = Rotate(kps[p], DerivedKeypair(hs[p])).slots]
    BY BeginSession
  <2> QED BY <2>2, <2>3 DEF StoreOK
<1>5. /\ table' \in [Node -> [Index -> Entry]]
      /\ \A k \in Node : table'[k] \in PeerTable(k)
  <2>1. p[1] \in Node /\ table[p[1]] \in PeerTable(p[1])
    BY PeerPair DEF StoreOK
  <2> DEFINE t == SwapIndexForKeypair(table[p[1]], hs[p].localIndex, DerivedKeypair(hs[p]))
             t1 == DeleteKeypair(t, Rotate(kps[p], DerivedKeypair(hs[p])).dropped[1])
             t2 == DeleteKeypair(t1, Rotate(kps[p], DerivedKeypair(hs[p])).dropped[2])
  <2>2. t \in PeerTable(p[1])
    BY <1>2, <2>1, SwapType
  <2>3. t1 \in PeerTable(p[1])
    <3> HIDE DEF t
    <3> QED BY <2>1, <2>2, DeleteKeypairType
  <2> HIDE DEF t1
  <2>4. t2 \in PeerTable(p[1])
    BY <2>1, <2>3, DeleteKeypairType
  <2>5. table' = [table EXCEPT ![p[1]] = t2]
    BY Zenon, BeginSession DEF t1
  <2> HIDE DEF t2
  <2> QED BY <2>1, <2>4, <2>5, TableUpdate
<1>6. derived' \in [Peer -> Seq(Key)]
  <2>1. Append(derived[p], hs[p].chain) \in Seq(Key)
    BY <1>2 DEF StoreOK
  <2>2. derived' = [derived EXCEPT ![p] = Append(derived[p], hs[p].chain)]
    BY BeginSession
  <2> QED BY <2>1, <2>2 DEF StoreOK
<1>7. UNCHANGED <<rx, zeroing, eph>>
  BY BeginSession
<1> QED BY <1>3, <1>4, <1>5, <1>6, <1>7 DEF StoreOK

\* The other sections, handshake side.
LEMMA WithResponseType ==
    ASSUME NEW h \in Handshake, NEW m \in Message
    PROVE  /\ WithResponse(h, m) \in Handshake /\ WithResponse(h, m).chain = m.key
           /\ WithResponse(h, m).localIndex = h.localIndex
BY DEF WithResponse, Handshake, HandshakeState, Message

LEMMA WithInitiationType ==
    ASSUME NEW h \in Handshake, NEW m \in Message
    PROVE  /\ WithInitiation(h, m) \in Handshake /\ WithInitiation(h, m).chain = m.key
           /\ WithInitiation(h, m).localIndex = h.localIndex
<1>1. m.key.ei[2] \in Nat /\ m.key \in Key /\ m.sender \in AnyIndex
  BY DEF Message, Key, Eph
<1> QED BY <1>1 DEF WithInitiation, Handshake, HandshakeState

LEMMA ZeroHandshakeType ==
    ASSUME StoreOK, NEW p \in Peer, ZeroHandshakeState(p)
    PROVE  StoreOK'
<1>1. p[1] \in Node /\ table[p[1]] \in PeerTable(p[1])
  BY PeerPair DEF StoreOK
<1>2. /\ table' \in [Node -> [Index -> Entry]]
      /\ \A k \in Node : table'[k] \in PeerTable(k)
  <2>1. Delete(table[p[1]], hs[p].localIndex) \in PeerTable(p[1])
    BY <1>1, DeleteType
  <2>2. table' = [table EXCEPT ![p[1]] = Delete(table[p[1]], hs[p].localIndex)]
    BY DEF ZeroHandshakeState
  <2> QED BY <1>1, <2>1, <2>2, TableUpdate
<1>3. hs' \in [Peer -> Handshake] /\ ChainOK'
  <2>1. Cleared(hs[p]) \in Handshake /\ Cleared(hs[p]).state = "Zeroed"
    BY ClearedType DEF StoreOK
  <2>2. hs' = [hs EXCEPT ![p] = Cleared(hs[p])]
    BY DEF ZeroHandshakeState
  <2> QED BY <2>1, <2>2, HandshakeUpdate
<1> QED BY <1>2, <1>3 DEF ZeroHandshakeState, StoreOK, NetOK

LEMMA ZeroKeypairsType ==
    ASSUME StoreOK, NEW p \in Peer, ZeroKeypairs(p)
    PROVE  StoreOK'
<1> DEFINE t0 == table[p[1]]
           t1 == DeleteKeypair(t0, kps[p]["previous"])
           t2 == DeleteKeypair(t1, kps[p]["current"])
           t3 == DeleteKeypair(t2, kps[p]["next"])
<1>1. p[1] \in Node /\ t0 \in PeerTable(p[1])
  BY PeerPair DEF StoreOK
<1>2. table' = [table EXCEPT ![p[1]] = t3]
  BY DEF ZeroKeypairs
<1>3. t1 \in PeerTable(p[1])
  BY <1>1, DeleteKeypairType
<1> HIDE DEF t1
<1>4. t2 \in PeerTable(p[1])
  BY <1>1, <1>3, DeleteKeypairType
<1> HIDE DEF t2
<1>5. t3 \in PeerTable(p[1])
  BY <1>1, <1>4, DeleteKeypairType
<1> HIDE DEF t3
<1>6. /\ table' \in [Node -> [Index -> Entry]]
      /\ \A k \in Node : table'[k] \in PeerTable(k)
  BY <1>1, <1>2, <1>5, TableUpdate
<1>7. kps' \in [Peer -> [Slot -> Keypair \cup {None}]]
  BY DEF ZeroKeypairs, StoreOK, NoKeypairs
<1> QED BY <1>6, <1>7 DEF ZeroKeypairs, StoreOK, ChainOK, NetOK

LEMMA ReceivedWithKeypairType ==
    ASSUME StoreOK, NEW p \in Peer, ReceivedWithKeypair(p)
    PROVE  StoreOK'
<1>1. p[1] \in Node /\ table[p[1]] \in PeerTable(p[1])
  BY PeerPair DEF StoreOK
<1>2. kps[p] \in [Slot -> Keypair \cup {None}]
  BY DEF StoreOK
<1>3. kps' \in [Peer -> [Slot -> Keypair \cup {None}]]
  BY <1>2 DEF ReceivedWithKeypair, StoreOK, Slot
<1>4. /\ table' \in [Node -> [Index -> Entry]]
      /\ \A k \in Node : table'[k] \in PeerTable(k)
  <2>1. DeleteKeypair(table[p[1]], kps[p]["previous"]) \in PeerTable(p[1])
    BY <1>1, DeleteKeypairType
  <2>2. CASE table' = table
    BY <2>2 DEF StoreOK
  <2>3. CASE table' = [table EXCEPT ![p[1]] =
                         DeleteKeypair(table[p[1]], kps[p]["previous"])]
    BY <1>1, <2>1, <2>3, TableUpdate
  <2> QED BY <2>2, <2>3 DEF ReceivedWithKeypair
<1> QED BY <1>3, <1>4 DEF ReceivedWithKeypair, StoreOK, ChainOK, NetOK

LEMMA ReceiveTransportType ==
    ASSUME StoreOK, NEW p \in Peer, ReceiveTransport(p)
    PROVE  StoreOK'
<1> PICK m \in net :
      LET e == Lookup(table[p[1]], m.receiver) IN
        /\ e.keypair # None
        /\ rx' = [rx EXCEPT ![p] = e.keypair]
        /\ UNCHANGED <<hs, kps, table, wk, zeroing, eph, net, derived>>
  BY DEF ReceiveTransport
<1>1. Lookup(table[p[1]], m.receiver) \in Entry
  BY PeerPair, NoEntryType DEF Lookup, StoreOK
<1>2. Lookup(table[p[1]], m.receiver).keypair \in Keypair
  BY <1>1 DEF Entry
<1> QED BY <1>2 DEF StoreOK, ChainOK, NetOK

LEMMA UnchangedStore ==
    ASSUME StoreOK, UNCHANGED <<hs, kps, table, rx, zeroing, eph, net, derived>>
    PROVE  StoreOK'
BY DEF StoreOK, ChainOK, NetOK

LEMMA UnchangedWorkers == ASSUME WorkersOK, UNCHANGED wk PROVE WorkersOK'
BY DEF WorkersOK, WorkerOK

LEMMA WorkersLocal ==
    ASSUME WorkersOK, NEW n \in Node, NEW w \in Worker
    PROVE  LocalOK(n, wk[n][w])
BY DEF WorkersOK, WorkerOK, LocalOK

LEMMA WorkersUpdate ==
    ASSUME WorkersOK, NEW n \in Node, NEW w \in Worker, NEW l, LocalOK(n, l),
           wk' = [wk EXCEPT ![n][w] = l]
    PROVE  WorkersOK'
BY Zenon DEF WorkersOK, WorkerOK, LocalOK, Locals

LEMMA DoneWorkers ==
    ASSUME WorkersOK, NEW n \in Node, NEW w \in Worker, Done(n, w)
    PROVE  WorkersOK'
<1>1. LocalOK(n, IdleWorker)
  BY DEF LocalOK, Locals, IdleWorker, WorkerPC
<1> QED BY <1>1, WorkersUpdate DEF Done

LEMMA GotoWorkers ==
    ASSUME WorkersOK, NEW n \in Node, NEW w \in Worker, wk[n][w].pc # "idle",
           NEW pc \in {"createResponse", "beginInitiator", "keepalive"}, Goto(n, w, pc)
    PROVE  WorkersOK'
<1>1. LocalOK(n, At(wk[n][w], pc))
  BY AtType, WorkersLocal
<1>2. wk' = [wk EXCEPT ![n][w] = At(wk[n][w], pc)]
  BY DEF Goto, At
<1> QED BY <1>1, <1>2, WorkersUpdate

LEMMA ReceiveInitiationType ==
    ASSUME WorkersOK, StoreOK, NEW n \in Node, NEW w \in Worker, ReceiveInitiation(n, w)
    PROVE  WorkersOK' /\ StoreOK'
<1> PICK m \in net :
      /\ m.to = n /\ m.type = "initiation"
      /\ wk' = [wk EXCEPT ![n][w] = [pc |-> "consumeInitiation",
                                     peer |-> m.from, msg |-> m]]
      /\ UNCHANGED <<hs, kps, table, rx, zeroing, eph, net, derived>>
  BY DEF ReceiveInitiation
<1> DEFINE l == [pc |-> "consumeInitiation", peer |-> m.from, msg |-> m]
<1>1. m \in Message /\ m.from # m.to /\ m.from \in Node
  BY DEF StoreOK, NetOK, Message
<1>2. LocalOK(n, l)
  BY <1>1, PeerMake DEF LocalOK, Locals, WorkerPC
<1> HIDE DEF l
<1>3. WorkersOK'
  BY <1>2, WorkersUpdate DEF l
<1> QED BY <1>3, UnchangedStore

LEMMA ReceiveResponseType ==
    ASSUME WorkersOK, StoreOK, NEW n \in Node, NEW w \in Worker, ReceiveResponse(n, w)
    PROVE  WorkersOK' /\ StoreOK'
<1> PICK m \in net :
      LET e == Lookup(table[n], m.receiver) IN
      /\ e.handshake /\ m.type = "response"
      /\ wk' = [wk EXCEPT ![n][w] = [pc |-> "consumeResponse",
                                     peer |-> e.peer, msg |-> m]]
      /\ UNCHANGED <<hs, kps, table, rx, zeroing, eph, net, derived>>
  BY DEF ReceiveResponse
<1> DEFINE e == Lookup(table[n], m.receiver)
           l == [pc |-> "consumeResponse", peer |-> e.peer, msg |-> m]
<1>1. m \in Message /\ m.from # m.to
  BY DEF StoreOK, NetOK
<1>2. e # NoEntry /\ m.receiver \in Index
  BY DEF Lookup, NoEntry
<1>3. <<n, e.peer>> \in Peer /\ e.peer \in Node
  <2>1. table[n] \in PeerTable(n)
    BY DEF StoreOK
  <2>2. <<n, e.peer>> \in Peer
    BY <1>2, <2>1 DEF PeerTable, Lookup
  <2> QED BY <2>2 DEF Peer
<1> HIDE DEF e
<1>4. LocalOK(n, l)
  BY <1>1, <1>3 DEF LocalOK, Locals, WorkerPC
<1>5. wk' = [wk EXCEPT ![n][w] = l]
  BY DEF e
<1> HIDE DEF l
<1>6. WorkersOK'
  BY <1>4, <1>5, WorkersUpdate
<1> QED BY <1>6, UnchangedStore

LEMMA ConsumeType ==
    ASSUME WorkersOK, StoreOK, NEW n \in Node, NEW w \in Worker,
           ConsumeMessageInitiation(n, w) \/ ConsumeMessageResponse(n, w)
    PROVE  WorkersOK' /\ StoreOK'
<1> DEFINE m == wk[n][w].msg
           p == <<n, wk[n][w].peer>>
<1>1. /\ p \in Peer /\ m \in Message /\ wk[n][w].pc # "idle"
      /\ \/ Goto(n, w, "createResponse") /\ hs' = [hs EXCEPT ![p] = WithInitiation(hs[p], m)]
         \/ Goto(n, w, "beginInitiator") /\ hs' = [hs EXCEPT ![p] = WithResponse(hs[p], m)]
      /\ UNCHANGED <<kps, table, rx, zeroing, eph, net, derived>>
  BY WorkersLocal DEF ConsumeMessageInitiation, ConsumeMessageResponse, LocalOK
<1>2. WorkersOK'
  BY <1>1, GotoWorkers
<1> HIDE DEF p, m
<1>3. hs' \in [Peer -> Handshake] /\ ChainOK'
  <2>1. hs[p] \in Handshake /\ m.key \in Key
    BY <1>1 DEF StoreOK, Message
  <2>2. WithInitiation(hs[p], m) \in Handshake /\ WithInitiation(hs[p], m).chain \in Key
    BY <1>1, <2>1, WithInitiationType
  <2>3. WithResponse(hs[p], m) \in Handshake /\ WithResponse(hs[p], m).chain \in Key
    BY <1>1, <2>1, WithResponseType
  <2> QED BY <1>1, <2>2, <2>3, HandshakeUpdate
<1> QED BY <1>1, <1>2, <1>3 DEF StoreOK, NetOK

LEMMA CreatesResponse ==
    ASSUME WorkersOK, NEW n \in Node, NEW w \in Worker, CreateMessageResponse(n, w)
    PROVE  /\ <<n, wk[n][w].peer>> \in Peer
           /\ hs[<<n, wk[n][w].peer>>].state = "InitiationConsumed"
<1>1. wk[n][w].pc = "createResponse"
  BY Zenon DEF CreateMessageResponse
<1>2. hs[<<n, wk[n][w].peer>>].state = "InitiationConsumed"
  BY Zenon DEF CreateMessageResponse
<1>3. <<n, wk[n][w].peer>> \in Peer
  BY <1>1, WorkersLocal DEF LocalOK
<1> QED BY <1>2, <1>3

LEMMA CreateResponseType ==
    ASSUME WorkersOK, StoreOK, NEW n \in Node, NEW w \in Worker,
           CreateMessageResponse(n, w)
    PROVE  WorkersOK' /\ StoreOK'
<1> DEFINE p == <<n, wk[n][w].peer>>
           t == Delete(table[n], hs[p].localIndex)
           key == [ei |-> hs[p].chain.ei, er |-> FreshEph(n)]
<1>1. p \in Peer /\ p[1] = n /\ wk[n][w].peer \in Node /\ n # wk[n][w].peer
  BY CreatesResponse DEF Peer
<1>2. key \in Key
  <2>1. hs[p].chain \in Key
    BY <1>1 DEF CreateMessageResponse, StoreOK, ChainOK
  <2>2. FreshEph(n) \in Eph
    BY FreshEphType
  <2> QED BY <2>1, <2>2 DEF Key
<1>3. t \in PeerTable(n)
  <2>1. table[n] \in PeerTable(n)
    BY StoredTable
  <2> QED BY Zenon, <2>1, DeleteType
<1>4. PICK i \in FreeIndex(t) :
         /\ table' = [table EXCEPT ![n] = [t EXCEPT ![i] = HandshakeEntry(p)]]
         /\ hs' = [hs EXCEPT ![p] = WithIndex(hs[p], i, key, "ResponseCreated")]
         /\ wk' = [wk EXCEPT ![n][w] =
                     [pc |-> "beginResponder", peer |-> p[2],
                      msg |-> Response(p, i, hs[p].remoteIndex, key)]]
  BY Zenon DEF CreateMessageResponse
<1>5. i \in Index
  BY DEF FreeIndex
<1>6. hs[p] \in Handshake /\ hs[p].remoteIndex \in AnyIndex
  BY <1>1 DEF StoreOK, Handshake
<1> HIDE DEF t, key
<1>7. /\ table' \in [Node -> [Index -> Entry]]
      /\ \A k \in Node : table'[k] \in PeerTable(k)
  <2>1. [t EXCEPT ![i] = HandshakeEntry(p)] \in PeerTable(n)
    BY <1>1, <1>3, <1>5, AllocateType
  <2> QED BY <1>4, <2>1, TableUpdate
<1>8. hs' \in [Peer -> Handshake] /\ ChainOK'
  <2>1. /\ WithIndex(hs[p], i, key, "ResponseCreated") \in Handshake
        /\ WithIndex(hs[p], i, key, "ResponseCreated").chain \in Key
    BY <1>2, <1>5, <1>6, WithIndexType DEF HandshakeState
  <2> QED BY <1>1, <1>4, <2>1, HandshakeUpdate
<1>9. WorkersOK'
  <2> DEFINE m == Response(p, i, hs[p].remoteIndex, key)
             l == [pc |-> "beginResponder", peer |-> p[2], msg |-> m]
  <2>1. m \in Message /\ m.from # m.to /\ m.type = "response"
    BY <1>1, <1>2, <1>5, <1>6 DEF Response, Message, AnyIndex
  <2> HIDE DEF m
  <2>2. LocalOK(n, l)
    BY <1>1, <2>1 DEF LocalOK, Locals, WorkerPC
  <2>3. wk' = [wk EXCEPT ![n][w] = l]
    BY <1>4 DEF m
  <2> HIDE DEF l
  <2> QED BY <2>2, <2>3, WorkersUpdate
<1>10. eph' \in [Node -> Nat]
  BY DEF CreateMessageResponse, NewPrivateKey, StoreOK
<1> QED BY <1>7, <1>8, <1>9, <1>10 DEF StoreOK, CreateMessageResponse, NetOK

LEMMA TypeStep == TypeInv /\ [Next]_vars => TypeInv'
<1> SUFFICES ASSUME WorkersOK, StoreOK, [Next]_vars PROVE WorkersOK' /\ StoreOK'
  BY TypeParts, TypePartsNext
<1>1. CASE UNCHANGED vars
  BY <1>1, UnchangedStore, UnchangedWorkers DEF vars
<1>2. ASSUME NEW n \in Node, NEW w \in Worker, WorkerStep(n, w)
      PROVE  WorkersOK' /\ StoreOK'
  <2> DEFINE p == <<n, wk[n][w].peer>>
  <2>1. wk[n][w].pc # "idle" => p \in Peer
    BY WorkersLocal DEF LocalOK
  <2>2. CASE ReceiveInitiation(n, w)
    BY <2>2, ReceiveInitiationType
  <2>3. CASE ConsumeMessageInitiation(n, w) \/ ConsumeMessageResponse(n, w)
    BY <2>3, ConsumeType
  <2>4. CASE CreateMessageResponse(n, w)
    BY <2>4, CreateResponseType
  <2>5. CASE CreateMessageResponseFails(n, w)
    BY <2>5, DoneWorkers, UnchangedStore DEF CreateMessageResponseFails
  <2>6. CASE ReceiveResponse(n, w)
    BY <2>6, ReceiveResponseType
  <2>7. CASE BeginResponder(n, w)
    <3>1. WorkersOK'
      BY <2>7, DoneWorkers DEF BeginResponder
    <3>2. net' \subseteq Message /\ NetOK'
      BY <2>7, WorkersLocal DEF BeginResponder, LocalOK, StoreOK, NetOK
    <3>3. p \in Peer /\ BeginSymmetricSession(p)
      BY <2>1, <2>7 DEF BeginResponder
    <3> QED BY <3>1, <3>2, <3>3, BeginSessionType
  <2>8. CASE BeginInitiator(n, w)
    <3>1. WorkersOK'
      BY <2>8, GotoWorkers DEF BeginInitiator
    <3>2. net' \subseteq Message /\ NetOK'
      BY <2>8 DEF BeginInitiator, StoreOK, NetOK
    <3>3. p \in Peer /\ BeginSymmetricSession(p)
      BY <2>1, <2>8 DEF BeginInitiator
    <3> QED BY <3>1, <3>2, <3>3, BeginSessionType
  <2>9. CASE BeginSymmetricSessionFails(n, w)
    BY <2>9, DoneWorkers, UnchangedStore DEF BeginSymmetricSessionFails
  <2>10. CASE SendKeepalive(n, w)
    <3>1. WorkersOK' /\ p \in Peer
      BY <2>1, <2>10, DoneWorkers DEF SendKeepalive
    <3>2. SendTransport(p) \/ CreateMessageInitiation(p)
      BY <2>10 DEF SendKeepalive
    <3> HIDE DEF p
    <3> QED BY <3>1, <3>2, SendTransportType, CreateInitiationType
  <2>11. CASE SendKeepaliveTooSoon(n, w)
    BY <2>11, DoneWorkers, UnchangedStore DEF SendKeepaliveTooSoon
  <2> QED BY <1>2, <2>2, <2>3, <2>4, <2>5, <2>6, <2>7, <2>8, <2>9, <2>10, <2>11
          DEF WorkerStep
<1>3. ASSUME NEW p \in Peer, PeerStep(p)
      PROVE  WorkersOK' /\ StoreOK'
  <2>1. UNCHANGED wk
    BY <1>3 DEF PeerStep, SendHandshakeInitiation, SendStagedPackets, ReceiveTransport,
                ReceivedWithKeypair, ZeroKeypairs, ZeroHandshakeState
  <2>2. StoreOK'
    BY <1>3, CreateInitiationType, SendTransportType, ReceiveTransportType,
       ReceivedWithKeypairType, ZeroKeypairsType, ZeroHandshakeType
       DEF PeerStep, SendHandshakeInitiation, SendStagedPackets
  <2> QED BY <2>1, <2>2, UnchangedWorkers
<1> QED BY <1>1, <1>2, <1>3, NextSteps

LEMMA TypeAlways == Spec => []TypeInv
BY TypeInit, TypeStep, PTL DEF Spec

\* NoiseSession keeps its types: every index, key and message a handler stores
\* is one that the noise-protocol.go structures can hold, and in particular
\* BeginSymmetricSession never derives from a transcript that was cleared.
THEOREM TypeCorrect == Spec => []TypeOK
<1>1. TypeInv => TypeOK
  BY DEF TypeInv
<1> QED BY <1>1, TypeAlways, PTL

-----------------------------------------------------------------------------
(***************************************************************************)
(* Key confirmation.  A keypair reaches a slot only after its owner        *)
(* derived it, so a transport message shows that its sender derived the    *)
(* key; the sequential receiver therefore only ever holds keypairs whose   *)
(* key the other end derived, and these are the only ones that leave next. *)
(***************************************************************************)
TransportDerived ==
    \A m \in net : m.type = "transport" => m.key \in KeysIn(derived[<<m.from, m.to>>])
SlotsDerived ==
    \A p \in Peer, s \in Slot : kps[p][s] # None => kps[p][s].key \in KeysIn(derived[p])
RxDerived == \A p \in Peer : rx[p] # None => rx[p].key \in KeysIn(derived[Mirror(p)])

ConfirmInv == TransportDerived /\ SlotsDerived /\ RxDerived /\ KeyConfirmed

LEMMA ConfirmInit == Init => ConfirmInv
BY DEF Init, ConfirmInv, TransportDerived, SlotsDerived, RxDerived, KeyConfirmed, NoKeypairs, Slot

LEMMA RotationSlots ==
    ASSUME NEW k \in [Slot -> Keypair \cup {None}], NEW kp \in Keypair
    PROVE  /\ \A s \in Slot : \/ Rotate(k, kp).slots[s] \in {kp, None}
                             \/ \E t \in Slot : Rotate(k, kp).slots[s] = k[t]
           /\ Rotate(k, kp).slots["current"] = IF kp.isInitiator THEN kp ELSE k["current"]
BY DEF Rotate, RotateForInitiator, RotateForResponder, Slot

LEMMA DerivedGrows ==
    ASSUME StoreOK, NEW p \in Peer, BeginSymmetricSession(p)
    PROVE  /\ \A q \in Peer : KeysIn(derived[q]) \subseteq KeysIn(derived'[q])
           /\ hs[p].chain \in KeysIn(derived'[p])
<1>1. derived' = [derived EXCEPT ![p] = Append(derived[p], hs[p].chain)]
  BY BeginSession
<1>2. derived[p] \in Seq(Key) /\ hs[p].chain \in Key /\ derived \in [Peer -> Seq(Key)]
  BY BeginSession, DerivedKeypairType DEF StoreOK
<1>3. Len(derived'[p]) = Len(derived[p]) + 1 /\ Len(derived[p]) \in Nat
      /\ derived'[p][Len(derived[p]) + 1] = hs[p].chain
      /\ \A j \in 1 .. Len(derived[p]) : derived'[p][j] = derived[p][j]
  BY <1>1, <1>2
<1>4. \A q \in Peer : q # p => derived'[q] = derived[q]
  BY <1>1, <1>2
<1>5. hs[p].chain \in KeysIn(derived'[p])
  BY <1>3 DEF KeysIn
<1>6. ASSUME NEW q \in Peer PROVE KeysIn(derived[q]) \subseteq KeysIn(derived'[q])
  BY <1>3, <1>4 DEF KeysIn
<1> QED BY <1>5, <1>6

LEMMA ConfirmUnchanged ==
    ASSUME ConfirmInv, UNCHANGED <<kps, rx, derived>>,
           \A m \in net' : m.type = "transport" => m \in net
    PROVE  ConfirmInv'
BY DEF ConfirmInv, TransportDerived, SlotsDerived, RxDerived, KeyConfirmed

LEMMA ConfirmSend ==
    ASSUME ConfirmInv, StoreOK, NEW p \in Peer, SendTransport(p)
    PROVE  ConfirmInv'
<1> DEFINE kp == kps[p]["current"]
           m == Transport(p, kp.remoteIndex, kp.key)
<1>1. kp.key \in KeysIn(derived[p])
  BY DEF SendTransport, ConfirmInv, SlotsDerived, Slot
<1>2. m.key \in KeysIn(derived[<<m.from, m.to>>])
  BY <1>1, PeerPair DEF Transport
<1>3. TransportDerived'
  BY <1>2 DEF SendTransport, ConfirmInv, TransportDerived
<1> QED BY <1>3 DEF SendTransport, ConfirmInv, SlotsDerived, RxDerived, KeyConfirmed

LEMMA ConfirmBegin ==
    ASSUME ConfirmInv, StoreOK, NEW p \in Peer, BeginSymmetricSession(p),
           \A m \in net' : m.type = "transport" => m \in net
    PROVE  ConfirmInv'
<1> DEFINE kp == DerivedKeypair(hs[p])
<1>1. kp \in Keypair /\ kp.key = hs[p].chain
  BY BeginSession, DerivedKeypairType
<1>2. /\ \A q \in Peer : KeysIn(derived[q]) \subseteq KeysIn(derived'[q])
      /\ hs[p].chain \in KeysIn(derived'[p])
  BY DerivedGrows
<1>3. kps' = [kps EXCEPT ![p] = Rotate(kps[p], kp).slots] /\ UNCHANGED rx
  BY BeginSession
<1>4. kps[p] \in [Slot -> Keypair \cup {None}] /\ kps \in [Peer -> [Slot -> Keypair \cup {None}]]
  BY DEF StoreOK
<1> HIDE DEF kp
<1>5. \A s \in Slot : \/ kps'[p][s] \in {kp, None}
                     \/ \E t \in Slot : kps'[p][s] = kps[p][t]
  BY <1>1, <1>3, <1>4, RotationSlots
<1>6. kps'[p]["current"] = IF kp.isInitiator THEN kp ELSE kps[p]["current"]
  BY <1>1, <1>3, <1>4, RotationSlots
<1>7. \A q \in Peer : q # p => kps'[q] = kps[q]
  BY <1>3, <1>4
<1>8. TransportDerived'
  <2> SUFFICES ASSUME NEW m \in net', m.type = "transport"
               PROVE  m.key \in KeysIn(derived'[<<m.from, m.to>>])
    BY DEF TransportDerived
  <2>1. m \in net /\ <<m.from, m.to>> \in Peer
    BY PeerMake DEF StoreOK, NetOK, Message
  <2> QED BY <1>2, <2>1 DEF ConfirmInv, TransportDerived
<1>9. SlotsDerived'
  BY <1>1, <1>2, <1>5, <1>7 DEF ConfirmInv, SlotsDerived
<1>10. RxDerived'
  BY <1>2, <1>3, PeerPair DEF ConfirmInv, RxDerived
<1>11. KeyConfirmed'
  <2> SUFFICES ASSUME NEW q \in Peer, kps'[q]["current"] # None,
                      ~kps'[q]["current"].isInitiator
               PROVE  kps'[q]["current"].key \in KeysIn(derived'[Mirror(q)])
    BY DEF KeyConfirmed
  <2>1. kps'[q]["current"] = kps[q]["current"]
    BY <1>6, <1>7
  <2> QED BY <1>2, <2>1, PeerPair DEF ConfirmInv, KeyConfirmed
<1> QED BY <1>8, <1>9, <1>10, <1>11 DEF ConfirmInv

LEMMA ConfirmReceive ==
    ASSUME ConfirmInv, StoreOK, NEW p \in Peer, ReceiveTransport(p)
    PROVE  ConfirmInv'
<1> PICK m \in net :
      LET e == Lookup(table[p[1]], m.receiver) IN
        /\ m.type = "transport" /\ m.to = p[1] /\ m.from = p[2]
        /\ e.keypair.key = m.key
        /\ rx' = [rx EXCEPT ![p] = e.keypair]
        /\ UNCHANGED <<hs, kps, table, wk, zeroing, eph, net, derived>>
  BY DEF ReceiveTransport
<1>1. m.key \in KeysIn(derived[Mirror(p)])
  BY DEF ConfirmInv, TransportDerived, Mirror
<1>2. RxDerived'
  BY <1>1 DEF ConfirmInv, RxDerived, StoreOK
<1> QED BY <1>2 DEF ConfirmInv, TransportDerived, SlotsDerived, KeyConfirmed

LEMMA ConfirmRotate ==
    ASSUME ConfirmInv, StoreOK, NEW p \in Peer, ReceivedWithKeypair(p)
    PROVE  ConfirmInv'
<1>1. kps[p] \in [Slot -> Keypair \cup {None}] /\ kps \in [Peer -> [Slot -> Keypair \cup {None}]]
  BY DEF StoreOK
<1>2. UNCHANGED <<net, derived>> /\ rx' = [rx EXCEPT ![p] = None]
  BY DEF ReceivedWithKeypair
<1>3. RxDerived' /\ TransportDerived'
  BY <1>2 DEF ConfirmInv, RxDerived, TransportDerived, StoreOK
<1>4. CASE kps' = kps
  BY <1>2, <1>3, <1>4 DEF ConfirmInv, SlotsDerived, KeyConfirmed
<1>5. CASE kps' # kps
  <2>1. /\ kps[p]["next"] = rx[p] /\ rx[p] # None
        /\ kps' = [kps EXCEPT ![p] = [previous |-> kps[p]["current"],
                                      current |-> kps[p]["next"], next |-> None]]
    BY <1>5 DEF ReceivedWithKeypair
  <2>2. /\ kps'[p]["previous"] = kps[p]["current"]
        /\ kps'[p]["current"] = kps[p]["next"]
        /\ kps'[p]["next"] = None
        /\ \A q \in Peer : q # p => kps'[q] = kps[q]
    BY <1>1, <2>1
  <2>3. SlotsDerived'
    BY <1>2, <2>2 DEF ConfirmInv, SlotsDerived, Slot
  <2>4. KeyConfirmed'
    BY <1>2, <2>1, <2>2 DEF ConfirmInv, RxDerived, KeyConfirmed
  <2> QED BY <1>3, <2>3, <2>4 DEF ConfirmInv
<1> QED BY <1>4, <1>5

LEMMA ConfirmZero ==
    ASSUME ConfirmInv, StoreOK, NEW p \in Peer, ZeroKeypairs(p)
    PROVE  ConfirmInv'
<1>1. UNCHANGED <<net, derived, rx>> /\ kps' = [kps EXCEPT ![p] = NoKeypairs]
  BY DEF ZeroKeypairs
<1>2. /\ \A s \in Slot : kps'[p][s] = None
      /\ \A q \in Peer : q # p => kps'[q] = kps[q]
  BY <1>1 DEF NoKeypairs, StoreOK
<1>3. SlotsDerived' /\ KeyConfirmed'
  BY <1>1, <1>2 DEF ConfirmInv, SlotsDerived, KeyConfirmed, Slot
<1> QED BY <1>1, <1>3 DEF ConfirmInv, TransportDerived, RxDerived

LEMMA InitiationIsNotTransport ==
    ASSUME NEW p \in Peer, CreateMessageInitiation(p)
    PROVE  /\ \A m \in net' : m.type = "transport" => m \in net
           /\ UNCHANGED <<kps, rx, zeroing, derived>>
BY DEF CreateMessageInitiation, Initiation

LEMMA ConfirmStep == TypeInv /\ ConfirmInv /\ [Next]_vars => ConfirmInv'
<1> SUFFICES ASSUME WorkersOK, StoreOK, ConfirmInv, [Next]_vars PROVE ConfirmInv'
  BY TypeParts
<1>1. CASE UNCHANGED vars
  <2>1. UNCHANGED <<kps, rx, derived>> /\ net' = net
    BY <1>1 DEF vars
  <2> QED BY <2>1, ConfirmUnchanged
<1>2. ASSUME NEW n \in Node, NEW w \in Worker, WorkerStep(n, w)
      PROVE  ConfirmInv'
  <2> DEFINE p == <<n, wk[n][w].peer>>
  <2>1. wk[n][w].pc # "idle" => p \in Peer
    BY WorkersLocal DEF LocalOK
  <2>2. CASE BeginResponder(n, w)
    <3>1. p \in Peer /\ BeginSymmetricSession(p)
      BY <2>1, <2>2 DEF BeginResponder
    <3>2. \A m \in net' : m.type = "transport" => m \in net
      BY <2>2, WorkersLocal DEF BeginResponder, LocalOK
    <3> QED BY <3>1, <3>2, ConfirmBegin
  <2>3. CASE BeginInitiator(n, w)
    <3>1. p \in Peer /\ BeginSymmetricSession(p) /\ net' = net
      BY <2>1, <2>3 DEF BeginInitiator
    <3> QED BY <3>1, ConfirmBegin
  <2>4. CASE SendKeepalive(n, w)
    <3>1. p \in Peer /\ (SendTransport(p) \/ CreateMessageInitiation(p))
      BY <2>1, <2>4 DEF SendKeepalive
    <3> HIDE DEF p
    <3> QED BY <3>1, ConfirmSend, ConfirmUnchanged, InitiationIsNotTransport
  <2>5. CASE UNCHANGED <<kps, rx, derived, net>>
    BY <2>5, ConfirmUnchanged
  <2> QED BY Zenon, <1>2, <2>2, <2>3, <2>4, <2>5
          DEF WorkerStep, ReceiveInitiation, ConsumeMessageInitiation, CreateMessageResponse,
              CreateMessageResponseFails, ReceiveResponse, ConsumeMessageResponse,
              BeginSymmetricSessionFails, SendKeepaliveTooSoon
<1>3. ASSUME NEW p \in Peer, PeerStep(p)
      PROVE  ConfirmInv'
  <2>1. CASE SendHandshakeInitiation(p)
    BY <2>1, ConfirmUnchanged, InitiationIsNotTransport DEF SendHandshakeInitiation
  <2>2. CASE SendStagedPackets(p)
    BY <2>2, ConfirmSend DEF SendStagedPackets
  <2>3. CASE ReceiveTransport(p)
    BY <2>3, ConfirmReceive
  <2>4. CASE ReceivedWithKeypair(p)
    BY <2>4, ConfirmRotate
  <2>5. CASE ZeroKeypairs(p)
    BY <2>5, ConfirmZero
  <2>6. CASE ZeroHandshakeState(p)
    BY <2>6, ConfirmUnchanged DEF ZeroHandshakeState
  <2> QED BY <1>3, <2>1, <2>2, <2>3, <2>4, <2>5, <2>6 DEF PeerStep
<1> QED BY <1>1, <1>2, <1>3, NextSteps

\* A responder never sends under a keypair the initiator has not derived, with
\* any number of handshake workers, whatever the network loses, repeats or
\* reorders: RotateForResponder parks it in next and only ReceivedWithKeypair,
\* with a packet under that very keypair in hand, promotes it.
THEOREM Confirmation == Spec => []KeyConfirmed
<1>1. Spec => []ConfirmInv
  BY ConfirmInit, ConfirmStep, TypeAlways, PTL DEF Spec
<1>2. ConfirmInv => KeyConfirmed
  BY DEF ConfirmInv
<1> QED BY <1>1, <1>2, PTL

-----------------------------------------------------------------------------
(***************************************************************************)
(* Agreement on a session.  The responder chooses its index together with  *)
(* its ephemeral, so a key determines it: whatever names the index of the  *)
(* responder of a key (a response, a worker at it, a handshake, a keypair) *)
(* names the same one.  Who the initiator is can be read from the key, by  *)
(* the owner of the first ephemeral.                                       *)
(***************************************************************************)
MessageSays(m, k, i) == m.type = "response" /\ m.key = k /\ m.sender = i
WorkerSays(l, k, i) ==
    l.pc \in {"beginResponder", "consumeResponse"} /\ l.msg.key = k /\ l.msg.sender = i
HandshakeSays(h, k, i) ==
    /\ h.chain = k
    /\ \/ h.state = "ResponseCreated" /\ h.localIndex = i
       \/ h.state = "ResponseConsumed" /\ h.remoteIndex = i
KeypairSays(kp, k, i) ==
    /\ kp # None /\ kp.key = k
    /\ i = IF kp.isInitiator THEN kp.remoteIndex ELSE kp.localIndex

NetSays(k, i) == \E m \in net : MessageSays(m, k, i)
WorkersSay(k, i) == \E n \in Node, w \in Worker : WorkerSays(wk[n][w], k, i)
HandshakesSay(k, i) == \E p \in Peer : HandshakeSays(hs[p], k, i)
KeypairsSay(k, i) == \E p \in Peer, s \in Slot : KeypairSays(kps[p][s], k, i)
Says(k, i) == NetSays(k, i) \/ WorkersSay(k, i) \/ HandshakesSay(k, i) \/ KeypairsSay(k, i)

AgreeInv ==
    /\ \A k \in Key : \A i, j \in AnyIndex : Says(k, i) /\ Says(k, j) => i = j
    /\ \A k \in Key, i \in AnyIndex : Says(k, i) => k.er \in Eph /\ k.er[2] <= eph[k.er[1]]

RoleInv ==
    /\ \A p \in Peer : hs[p].state \in {"InitiationCreated", "ResponseConsumed"} =>
         hs[p].chain.ei[1] = p[1]
    /\ \A n \in Node, w \in Worker : wk[n][w].pc = "consumeResponse" => wk[n][w].msg.key.ei[1] = n
    /\ \A p \in Peer, s \in Slot : kps[p][s] # None /\ kps[p][s].isInitiator =>
         kps[p][s].key.ei[1] = p[1]

LEMMA AgreementFollows ==
    ASSUME StoreOK, AgreeInv, RoleInv
    PROVE  SessionAgreement
<1> SUFFICES ASSUME NEW p \in Peer, NEW s \in Slot, NEW t \in Slot,
                    kps[p][s] # None, kps[Mirror(p)][t] # None, kps[p][s].isInitiator,
                    kps[p][s].key = kps[Mirror(p)][t].key
             PROVE  /\ ~kps[Mirror(p)][t].isInitiator
                    /\ kps[p][s].remoteIndex = kps[Mirror(p)][t].localIndex
  BY DEF SessionAgreement
<1> DEFINE a == kps[p][s]
           b == kps[Mirror(p)][t]
<1>1. Mirror(p) \in Peer /\ Mirror(p)[1] = p[2] /\ p[1] # p[2]
  BY PeerPair DEF Mirror
<1>2. a \in Keypair /\ b \in Keypair
  BY <1>1 DEF StoreOK
<1>3. a.key.ei[1] = p[1] /\ ~b.isInitiator
  BY <1>1 DEF RoleInv
<1>4. KeypairSays(a, a.key, a.remoteIndex) /\ KeypairSays(b, a.key, b.localIndex)
  BY <1>3 DEF KeypairSays
<1>5. Says(a.key, a.remoteIndex) /\ Says(a.key, b.localIndex)
  BY <1>1, <1>4 DEF Says, KeypairsSay
<1>6. a.key \in Key /\ a.remoteIndex \in AnyIndex /\ b.localIndex \in AnyIndex
  BY <1>2 DEF Keypair
<1> QED BY <1>3, <1>5, <1>6 DEF AgreeInv

LEMMA AgreeInit == Init => AgreeInv /\ RoleInv
<1> SUFFICES ASSUME Init PROVE AgreeInv /\ RoleInv
  OBVIOUS
<1>1. \A k, i : ~Says(k, i)
  BY DEF Init, Says, NetSays, WorkersSay, HandshakesSay, KeypairsSay, WorkerSays, HandshakeSays,
         KeypairSays, IdleWorker, ZeroHandshake, NoKeypairs
<1>2. RoleInv
  BY DEF Init, RoleInv, IdleWorker, ZeroHandshake, NoKeypairs
<1> QED BY <1>1, <1>2 DEF AgreeInv

\* What a step does to each place that names an index.
LEMMA NetAdds ==
    ASSUME NEW k, NEW i, \A m \in net' : m \in net \/ (MessageSays(m, k, i) => Says(k, i))
    PROVE  NetSays(k, i)' => Says(k, i)
BY DEF NetSays, Says

LEMMA WorkerAdds ==
    ASSUME WorkersOK, NEW n \in Node, NEW w \in Worker, NEW l, wk' = [wk EXCEPT ![n][w] = l],
           NEW k, NEW i, WorkerSays(l, k, i) => Says(k, i)
    PROVE  WorkersSay(k, i)' => Says(k, i)
<1>1. \A a \in Node, b \in Worker : wk'[a][b] = wk[a][b] \/ wk'[a][b] = l
  BY DEF WorkersOK
<1> QED BY <1>1 DEF WorkersSay, Says

LEMMA HandshakeAdds ==
    ASSUME StoreOK, NEW p \in Peer, NEW h, hs' = [hs EXCEPT ![p] = h],
           NEW k, NEW i, HandshakeSays(h, k, i) => Says(k, i)
    PROVE  HandshakesSay(k, i)' => Says(k, i)
<1>1. \A q \in Peer : hs'[q] = hs[q] \/ hs'[q] = h
  BY DEF StoreOK
<1> QED BY <1>1 DEF HandshakesSay, Says

LEMMA KeypairAdds ==
    ASSUME StoreOK, NEW p \in Peer, NEW x, kps' = [kps EXCEPT ![p] = x],
           NEW k, NEW i, \A s \in Slot : KeypairSays(x[s], k, i) => Says(k, i)
    PROVE  KeypairsSay(k, i)' => Says(k, i)
<1>1. \A q \in Peer : kps'[q] = kps[q] \/ kps'[q] = x
  BY DEF StoreOK
<1> QED BY <1>1 DEF KeypairsSay, Says

LEMMA NothingAdded ==
    ASSUME NEW k, NEW i
    PROVE  /\ UNCHANGED net => (NetSays(k, i)' => Says(k, i))
           /\ UNCHANGED wk => (WorkersSay(k, i)' => Says(k, i))
           /\ UNCHANGED hs => (HandshakesSay(k, i)' => Says(k, i))
           /\ UNCHANGED kps => (KeypairsSay(k, i)' => Says(k, i))
BY DEF Says, NetSays, WorkersSay, HandshakesSay, KeypairsSay

\* A step that names no new index.
Kept == \A k \in Key, i \in AnyIndex : Says(k, i)' => Says(k, i)

LEMMA KeptAgrees ==
    ASSUME StoreOK, AgreeInv, Kept,
           eph' = eph \/ \E n \in Node : eph' = [eph EXCEPT ![n] = @ + 1]
    PROVE  AgreeInv'
<1>1. \A n \in Node : eph[n] \in Nat /\ eph'[n] \in Nat /\ eph[n] <= eph'[n]
  BY DEF StoreOK
<1>2. \A k \in Key, i \in AnyIndex : Says(k, i)' => k.er \in Eph /\ k.er[2] <= eph'[k.er[1]]
  <2> SUFFICES ASSUME NEW k \in Key, NEW i \in AnyIndex, Says(k, i)'
               PROVE  k.er \in Eph /\ k.er[2] <= eph'[k.er[1]]
    OBVIOUS
  <2>1. k.er \in Eph /\ k.er[2] <= eph[k.er[1]]
    BY DEF AgreeInv, Kept
  <2>2. k.er[1] \in Node /\ k.er[2] \in Nat
    BY <2>1 DEF Eph
  <2> QED BY <1>1, <2>1, <2>2
<1>3. \A k \in Key : \A i, j \in AnyIndex : Says(k, i)' /\ Says(k, j)' => i = j
  BY DEF AgreeInv, Kept
<1> QED BY <1>2, <1>3 DEF AgreeInv

\* The responder chooses an index together with a new ephemeral.
LEMMA ChosenAgrees ==
    ASSUME StoreOK, AgreeInv, NEW n \in Node, NEW key \in Key, key.er = FreshEph(n),
           NEW x \in AnyIndex, eph' = [eph EXCEPT ![n] = @ + 1],
           \A k \in Key, i \in AnyIndex : Says(k, i)' => Says(k, i) \/ (k = key /\ i = x)
    PROVE  AgreeInv'
<1>1. \A a \in Node : eph[a] \in Nat /\ eph'[a] \in Nat /\ eph[a] <= eph'[a]
  BY DEF StoreOK
<1>2. key.er = <<n, eph[n] + 1>> /\ eph'[n] = eph[n] + 1 /\ key.er \in Eph
  BY <1>1 DEF FreshEph, StoreOK, Eph
<1>3. \A i \in AnyIndex : ~Says(key, i)
  BY <1>1, <1>2 DEF AgreeInv
<1>4. \A k \in Key, i \in AnyIndex : Says(k, i)' => k.er \in Eph /\ k.er[2] <= eph'[k.er[1]]
  <2> SUFFICES ASSUME NEW k \in Key, NEW i \in AnyIndex, Says(k, i)'
               PROVE  k.er \in Eph /\ k.er[2] <= eph'[k.er[1]]
    OBVIOUS
  <2>1. CASE Says(k, i)
    <3>1. k.er \in Eph /\ k.er[2] <= eph[k.er[1]]
      BY <2>1 DEF AgreeInv
    <3>2. k.er[1] \in Node /\ k.er[2] \in Nat
      BY <3>1 DEF Eph
    <3> QED BY <1>1, <3>1, <3>2
  <2>2. CASE k = key
    BY <1>1, <1>2, <2>2
  <2> QED BY <2>1, <2>2
<1>5. \A k \in Key : \A i, j \in AnyIndex : Says(k, i)' /\ Says(k, j)' => i = j
  BY <1>3 DEF AgreeInv
<1> QED BY <1>4, <1>5 DEF AgreeInv

LEMMA KeptParts ==
    ASSUME NEW k, NEW i, NetSays(k, i)' => Says(k, i), WorkersSay(k, i)' => Says(k, i),
           HandshakesSay(k, i)' => Says(k, i), KeypairsSay(k, i)' => Says(k, i)
    PROVE  Says(k, i)' => Says(k, i)
BY DEF Says

\* A worker that gives up what it had, or goes on without it.
LEMMA WorkerDrops ==
    ASSUME WorkersOK, NEW n \in Node, NEW w \in Worker, NEW k, NEW i,
           \/ Done(n, w)
           \/ \E pc \in {"createResponse", "beginInitiator", "keepalive"} : Goto(n, w, pc)
    PROVE  WorkersSay(k, i)' => Says(k, i)
<1>1. CASE Done(n, w)
  <2>1. ~WorkerSays(IdleWorker, k, i)
    BY DEF WorkerSays, IdleWorker
  <2> QED BY <1>1, <2>1, WorkerAdds DEF Done
<1>2. CASE \E pc \in {"createResponse", "beginInitiator", "keepalive"} : Goto(n, w, pc)
  <2>1. PICK pc \in {"createResponse", "beginInitiator", "keepalive"} : Goto(n, w, pc)
    BY <1>2
  <2> DEFINE l == At(wk[n][w], pc)
  <2>2. wk' = [wk EXCEPT ![n][w] = l]
    BY <2>1 DEF Goto, At
  <2>3. l.pc = pc
    BY WorkersLocal DEF At, LocalOK, Locals
  <2>4. ~WorkerSays(l, k, i)
    BY <2>3 DEF WorkerSays
  <2> HIDE DEF l
  <2> QED BY <2>2, <2>4, WorkerAdds
<1> QED BY <1>1, <1>2

LEMMA InitiationKept ==
    ASSUME StoreOK, NEW p \in Peer, CreateMessageInitiation(p), NEW k, NEW i
    PROVE  /\ NetSays(k, i)' => Says(k, i)
           /\ HandshakesSay(k, i)' => Says(k, i)
           /\ KeypairsSay(k, i)' => Says(k, i)
<1>1. PICK x \in Index :
        /\ hs' = [hs EXCEPT ![p] = WithIndex(hs[p], x, [ei |-> FreshEph(p[1]), er |-> None],
                                             "InitiationCreated")]
        /\ net' = net \cup {Initiation(p, x, FreshEph(p[1]))}
  BY DEF CreateMessageInitiation, FreeIndex
<1>2. ~MessageSays(Initiation(p, x, FreshEph(p[1])), k, i)
  BY DEF MessageSays, Initiation
<1>3. NetSays(k, i)' => Says(k, i)
  BY <1>1, <1>2, NetAdds
<1> DEFINE h == WithIndex(hs[p], x, [ei |-> FreshEph(p[1]), er |-> None], "InitiationCreated")
<1>4. h.state = "InitiationCreated"
  BY DEF WithIndex, StoreOK, Handshake
<1>5. ~HandshakeSays(h, k, i)
  BY <1>4 DEF HandshakeSays
<1>6. hs' = [hs EXCEPT ![p] = h]
  BY <1>1
<1> HIDE DEF h
<1>7. HandshakesSay(k, i)' => Says(k, i)
  BY <1>5, <1>6, HandshakeAdds
<1> QED BY <1>3, <1>7, NothingAdded DEF CreateMessageInitiation

LEMMA TransportKept ==
    ASSUME NEW p \in Peer, SendTransport(p), NEW k, NEW i
    PROVE  /\ NetSays(k, i)' => Says(k, i)
           /\ HandshakesSay(k, i)' => Says(k, i)
           /\ KeypairsSay(k, i)' => Says(k, i)
<1> DEFINE m == Transport(p, kps[p]["current"].remoteIndex, kps[p]["current"].key)
<1>1. ~MessageSays(m, k, i)
  BY DEF MessageSays, Transport
<1>2. NetSays(k, i)' => Says(k, i)
  BY <1>1, NetAdds DEF SendTransport
<1> QED BY <1>2, NothingAdded DEF SendTransport

\* BeginSymmetricSession moves what the handshake says to the keypair.
LEMMA BeginKept ==
    ASSUME StoreOK, NEW p \in Peer, BeginSymmetricSession(p), NEW k, NEW i
    PROVE  /\ HandshakesSay(k, i)' => Says(k, i)
           /\ KeypairsSay(k, i)' => Says(k, i)
<1> DEFINE h == Cleared(hs[p])
           kp == DerivedKeypair(hs[p])
           x == Rotate(kps[p], kp).slots
<1>1. hs' = [hs EXCEPT ![p] = h] /\ kps' = [kps EXCEPT ![p] = x] /\ Derivable(hs[p])
  BY BeginSession
<1>2. kp \in Keypair /\ kps[p] \in [Slot -> Keypair \cup {None}]
  BY <1>1, DerivedKeypairType DEF StoreOK
<1>3. h.state = "Zeroed"
  BY ClearedType DEF StoreOK
<1>4. ~HandshakeSays(h, k, i)
  BY <1>3 DEF HandshakeSays
<1>5. KeypairSays(kp, k, i) => HandshakeSays(hs[p], k, i)
  BY <1>1 DEF KeypairSays, HandshakeSays, DerivedKeypair, Derivable
<1> HIDE DEF h, kp
<1>6. HandshakesSay(k, i)' => Says(k, i)
  BY <1>1, <1>4, HandshakeAdds
<1>7. ASSUME NEW s \in Slot, KeypairSays(x[s], k, i) PROVE Says(k, i)
  <2>1. x[s] \in {kp, None} \/ \E t \in Slot : x[s] = kps[p][t]
    BY <1>2, RotationSlots
  <2>2. CASE x[s] \in {kp, None}
    BY <1>5, <1>7, <2>2 DEF KeypairSays, Says, HandshakesSay
  <2>3. CASE \E t \in Slot : x[s] = kps[p][t]
    BY <1>7, <2>3 DEF Says, KeypairsSay
  <2> QED BY <2>1, <2>2, <2>3
<1> HIDE DEF x
<1>8. KeypairsSay(k, i)' => Says(k, i)
  BY <1>1, <1>7, KeypairAdds
<1> QED BY <1>6, <1>8

LEMMA ReceivedKept ==
    ASSUME StoreOK, NEW p \in Peer, ReceivedWithKeypair(p), NEW k, NEW i
    PROVE  KeypairsSay(k, i)' => Says(k, i)
<1>1. CASE kps' = kps
  BY <1>1, NothingAdded
<1>2. CASE kps' # kps
  <2> DEFINE x == [previous |-> kps[p]["current"], current |-> kps[p]["next"], next |-> None]
  <2>1. kps' = [kps EXCEPT ![p] = x]
    BY <1>2 DEF ReceivedWithKeypair
  <2>2. \A s \in Slot : x[s] = None \/ \E t \in Slot : x[s] = kps[p][t]
    BY DEF Slot
  <2>3. \A s \in Slot : KeypairSays(x[s], k, i) => Says(k, i)
    BY <2>2 DEF KeypairSays, Says, KeypairsSay
  <2> HIDE DEF x
  <2> QED BY <2>1, <2>3, KeypairAdds
<1> QED BY <1>1, <1>2

LEMMA ZeroKept ==
    ASSUME StoreOK, NEW p \in Peer, NEW k, NEW i
    PROVE  /\ ZeroKeypairs(p) => (KeypairsSay(k, i)' => Says(k, i))
           /\ ZeroHandshakeState(p) => (HandshakesSay(k, i)' => Says(k, i))
<1>1. ASSUME ZeroKeypairs(p) PROVE KeypairsSay(k, i)' => Says(k, i)
  <2>1. \A s \in Slot : ~KeypairSays(NoKeypairs[s], k, i)
    BY DEF KeypairSays, NoKeypairs
  <2> QED BY <1>1, <2>1, KeypairAdds DEF ZeroKeypairs
<1>2. ASSUME ZeroHandshakeState(p) PROVE HandshakesSay(k, i)' => Says(k, i)
  <2>1. Cleared(hs[p]).state = "Zeroed"
    BY ClearedType DEF StoreOK
  <2>2. ~HandshakeSays(Cleared(hs[p]), k, i)
    BY <2>1 DEF HandshakeSays
  <2> QED BY <1>2, <2>2, HandshakeAdds DEF ZeroHandshakeState
<1> QED BY <1>1, <1>2

LEMMA PassedOn ==
    ASSUME WorkersOK, StoreOK, NEW n \in Node, NEW w \in Worker, NEW k, NEW i,
           ReceiveInitiation(n, w) \/ ReceiveResponse(n, w)
    PROVE  Says(k, i)' => Says(k, i)
<1>1. CASE ReceiveInitiation(n, w)
  <2>1. PICK m \in net :
          wk' = [wk EXCEPT ![n][w] = [pc |-> "consumeInitiation", peer |-> m.from, msg |-> m]]
    BY <1>1 DEF ReceiveInitiation
  <2> DEFINE l == [pc |-> "consumeInitiation", peer |-> m.from, msg |-> m]
  <2>2. ~WorkerSays(l, k, i)
    BY DEF WorkerSays
  <2>3. wk' = [wk EXCEPT ![n][w] = l]
    BY <2>1
  <2> HIDE DEF l
  <2>4. WorkersSay(k, i)' => Says(k, i)
    BY <2>2, <2>3, WorkerAdds
  <2>5. UNCHANGED <<hs, kps, net>>
    BY <1>1 DEF ReceiveInitiation
  <2> QED BY <2>4, <2>5, NothingAdded, KeptParts
<1>2. CASE ReceiveResponse(n, w)
  <2>1. PICK m \in net :
          /\ m.type = "response"
          /\ wk' = [wk EXCEPT ![n][w] = [pc |-> "consumeResponse",
                                         peer |-> Lookup(table[n], m.receiver).peer, msg |-> m]]
    BY <1>2 DEF ReceiveResponse
  <2> DEFINE l == [pc |-> "consumeResponse",
                   peer |-> Lookup(table[n], m.receiver).peer, msg |-> m]
  <2>2. l.msg = m
    OBVIOUS
  <2>3. wk' = [wk EXCEPT ![n][w] = l]
    BY <2>1
  <2> HIDE DEF l
  <2>4. WorkerSays(l, k, i) => Says(k, i)
    BY <2>1, <2>2 DEF WorkerSays, MessageSays, Says, NetSays
  <2>5. WorkersSay(k, i)' => Says(k, i)
    BY <2>3, <2>4, WorkerAdds
  <2>6. UNCHANGED <<hs, kps, net>>
    BY <1>2 DEF ReceiveResponse
  <2> QED BY <2>5, <2>6, NothingAdded, KeptParts
<1> QED BY <1>1, <1>2

LEMMA ConsumeKept ==
    ASSUME WorkersOK, StoreOK, NEW n \in Node, NEW w \in Worker, NEW k, NEW i,
           ConsumeMessageInitiation(n, w) \/ ConsumeMessageResponse(n, w)
    PROVE  Says(k, i)' => Says(k, i)
<1> DEFINE m == wk[n][w].msg
           p == <<n, wk[n][w].peer>>
<1>0. /\ p \in Peer
      /\ \/ hs' = [hs EXCEPT ![p] = WithInitiation(hs[p], m)]
         \/ /\ hs' = [hs EXCEPT ![p] = WithResponse(hs[p], m)]
            /\ wk[n][w].pc = "consumeResponse"
  BY WorkersLocal DEF ConsumeMessageInitiation, ConsumeMessageResponse, LocalOK
<1>1. PICK h :
        /\ p \in Peer /\ hs' = [hs EXCEPT ![p] = h]
        /\ \/ h = WithInitiation(hs[p], m)
           \/ h = WithResponse(hs[p], m) /\ wk[n][w].pc = "consumeResponse"
  <2> HIDE DEF p, m
  <2> QED BY <1>0
<1>2. hs[p] \in Handshake
  BY <1>1 DEF StoreOK
<1>3. HandshakeSays(h, k, i) => WorkerSays(wk[n][w], k, i)
  BY <1>1, <1>2 DEF HandshakeSays, WorkerSays, WithInitiation, WithResponse, Handshake
<1>4. HandshakesSay(k, i)' => Says(k, i)
  BY <1>1, <1>3, HandshakeAdds DEF Says, WorkersSay
<1>5. WorkersSay(k, i)' => Says(k, i)
  BY WorkerDrops DEF ConsumeMessageInitiation, ConsumeMessageResponse
<1>6. UNCHANGED <<kps, net>>
  BY DEF ConsumeMessageInitiation, ConsumeMessageResponse
<1> QED BY <1>4, <1>5, <1>6, NothingAdded, KeptParts

LEMMA ResponderKept ==
    ASSUME WorkersOK, StoreOK, NEW n \in Node, NEW w \in Worker, NEW k, NEW i,
           BeginResponder(n, w) \/ BeginInitiator(n, w)
    PROVE  Says(k, i)' => Says(k, i)
<1> DEFINE p == <<n, wk[n][w].peer>>
<1>1. p \in Peer /\ BeginSymmetricSession(p)
  BY WorkersLocal DEF BeginResponder, BeginInitiator, LocalOK
<1>2. MessageSays(wk[n][w].msg, k, i) /\ wk[n][w].pc = "beginResponder" => Says(k, i)
  BY DEF MessageSays, WorkerSays, Says, WorkersSay
<1>3. NetSays(k, i)' => Says(k, i)
  BY <1>2, NetAdds DEF BeginResponder, BeginInitiator
<1>4. WorkersSay(k, i)' => Says(k, i)
  BY WorkerDrops DEF BeginResponder, BeginInitiator
<1>5. (HandshakesSay(k, i)' => Says(k, i)) /\ (KeypairsSay(k, i)' => Says(k, i))
  BY <1>1, BeginKept
<1> QED BY <1>3, <1>4, <1>5, KeptParts

LEMMA KeepaliveKept ==
    ASSUME WorkersOK, StoreOK, NEW n \in Node, NEW w \in Worker, NEW k, NEW i,
           SendKeepalive(n, w)
    PROVE  Says(k, i)' => Says(k, i)
<1> DEFINE p == <<n, wk[n][w].peer>>
<1>1. p \in Peer /\ (SendTransport(p) \/ CreateMessageInitiation(p)) /\ Done(n, w)
  BY WorkersLocal DEF SendKeepalive, LocalOK
<1> HIDE DEF p
<1>2. /\ NetSays(k, i)' => Says(k, i)
      /\ HandshakesSay(k, i)' => Says(k, i)
      /\ KeypairsSay(k, i)' => Says(k, i)
  BY <1>1, TransportKept, InitiationKept
<1> QED BY <1>1, <1>2, WorkerDrops, KeptParts

LEMMA PeerKept ==
    ASSUME StoreOK, NEW p \in Peer, PeerStep(p), NEW k, NEW i
    PROVE  Says(k, i)' => Says(k, i)
<1>1. UNCHANGED wk
  BY DEF PeerStep, SendHandshakeInitiation, SendStagedPackets, ReceiveTransport,
         ReceivedWithKeypair, ZeroKeypairs, ZeroHandshakeState
<1>2. CASE SendHandshakeInitiation(p) \/ SendStagedPackets(p)
  BY <1>1, <1>2, InitiationKept, TransportKept, NothingAdded, KeptParts
     DEF SendHandshakeInitiation, SendStagedPackets
<1>3. CASE ReceiveTransport(p)
  BY <1>1, <1>3, NothingAdded, KeptParts DEF ReceiveTransport
<1>4. CASE ReceivedWithKeypair(p)
  <2>1. UNCHANGED <<hs, net>>
    BY <1>4 DEF ReceivedWithKeypair
  <2> QED BY <1>1, <1>4, <2>1, ReceivedKept, NothingAdded, KeptParts
<1>5. CASE ZeroKeypairs(p)
  BY <1>1, <1>5, ZeroKept, NothingAdded, KeptParts DEF ZeroKeypairs
<1>6. CASE ZeroHandshakeState(p)
  BY <1>1, <1>6, ZeroKept, NothingAdded, KeptParts DEF ZeroHandshakeState
<1> QED BY <1>2, <1>3, <1>4, <1>5, <1>6 DEF PeerStep

LEMMA CreateResponseAgrees ==
    ASSUME WorkersOK, StoreOK, AgreeInv, NEW n \in Node, NEW w \in Worker,
           CreateMessageResponse(n, w)
    PROVE  AgreeInv'
<1> DEFINE p == <<n, wk[n][w].peer>>
           key == [ei |-> hs[p].chain.ei, er |-> FreshEph(n)]
<1>1. p \in Peer /\ hs[p].state = "InitiationConsumed"
  BY CreatesResponse
<1>2. key \in Key /\ key.er = FreshEph(n)
  <2>1. hs[p].chain \in Key
    BY <1>1 DEF StoreOK, ChainOK
  <2> QED BY <2>1, FreshEphType DEF Key
<1> HIDE DEF key
<1>3. hs[p] \in Handshake
  BY Zenon, <1>1, StoredHandshake
<1>4. PICK x \in Index :
        /\ hs' = [hs EXCEPT ![p] = WithIndex(hs[p], x, key, "ResponseCreated")]
        /\ wk' = [wk EXCEPT ![n][w] = [pc |-> "beginResponder", peer |-> p[2],
                                       msg |-> Response(p, x, hs[p].remoteIndex, key)]]
  BY DEF CreateMessageResponse, FreeIndex, key
<1> DEFINE h == WithIndex(hs[p], x, key, "ResponseCreated")
           l == [pc |-> "beginResponder", peer |-> p[2],
                 msg |-> Response(p, x, hs[p].remoteIndex, key)]
<1>5. \A k, i : (HandshakeSays(h, k, i) \/ WorkerSays(l, k, i)) => k = key /\ i = x
  <2>1. h.chain = key /\ h.localIndex = x /\ h.state = "ResponseCreated"
    BY <1>3 DEF WithIndex, Handshake
  <2>2. l.msg.key = key /\ l.msg.sender = x
    BY DEF Response
  <2> HIDE DEF h, l
  <2> QED BY <2>1, <2>2 DEF HandshakeSays, WorkerSays
<1>6. hs' = [hs EXCEPT ![p] = h] /\ wk' = [wk EXCEPT ![n][w] = l]
  BY <1>4
<1> HIDE DEF h, l, p
<1>7. UNCHANGED <<kps, net>> /\ eph' = [eph EXCEPT ![n] = @ + 1] /\ x \in AnyIndex
  BY DEF CreateMessageResponse, NewPrivateKey, AnyIndex
<1>8. \A q \in Peer : hs'[q] = hs[q] \/ hs'[q] = h
  BY <1>1, <1>6 DEF StoreOK
<1>9. \A a \in Node, b \in Worker : wk'[a][b] = wk[a][b] \/ wk'[a][b] = l
  BY <1>6 DEF WorkersOK
<1>10. ASSUME NEW k \in Key, NEW i \in AnyIndex, Says(k, i)'
       PROVE  Says(k, i) \/ (k = key /\ i = x)
  <2>1. CASE NetSays(k, i)' \/ KeypairsSay(k, i)'
    BY <1>7, <2>1, NothingAdded
  <2>2. CASE WorkersSay(k, i)'
    BY <1>5, <1>9, <2>2 DEF WorkersSay, Says
  <2>3. CASE HandshakesSay(k, i)'
    BY <1>5, <1>8, <2>3 DEF HandshakesSay, Says
  <2> QED BY <1>10, <2>1, <2>2, <2>3 DEF Says
<1> QED BY <1>2, <1>7, <1>10, ChosenAgrees

LEMMA AgreeStep == TypeInv /\ AgreeInv /\ [Next]_vars => AgreeInv'
<1> SUFFICES ASSUME WorkersOK, StoreOK, AgreeInv, [Next]_vars PROVE AgreeInv'
  BY TypeParts
<1>1. ASSUME \A k \in Key, i \in AnyIndex : Says(k, i)' => Says(k, i),
             eph' = eph \/ \E n \in Node : eph' = [eph EXCEPT ![n] = @ + 1]
      PROVE  AgreeInv'
  BY <1>1, KeptAgrees DEF Kept
<1>2. CASE UNCHANGED vars
  BY <1>1, <1>2, NothingAdded, KeptParts DEF vars
<1>3. ASSUME NEW n \in Node, NEW w \in Worker, WorkerStep(n, w)
      PROVE  AgreeInv'
  <2>1. CASE CreateMessageResponse(n, w)
    BY <2>1, CreateResponseAgrees
  <2>2. CASE ReceiveInitiation(n, w) \/ ReceiveResponse(n, w)
    <3>1. UNCHANGED eph
      BY Zenon, <2>2 DEF ReceiveInitiation, ReceiveResponse
    <3> QED BY <1>1, <2>2, <3>1, PassedOn
  <2>3. CASE ConsumeMessageInitiation(n, w) \/ ConsumeMessageResponse(n, w)
    <3>1. UNCHANGED eph
      BY <2>3 DEF ConsumeMessageInitiation, ConsumeMessageResponse
    <3> QED BY <1>1, <2>3, <3>1, ConsumeKept
  <2>4. CASE BeginResponder(n, w) \/ BeginInitiator(n, w)
    <3>1. UNCHANGED eph
      BY Zenon, <2>4 DEF BeginResponder, BeginInitiator, BeginSymmetricSession
    <3> QED BY <1>1, <2>4, <3>1, ResponderKept
  <2>5. CASE SendKeepalive(n, w)
    <3>1. eph' = eph \/ \E a \in Node : eph' = [eph EXCEPT ![a] = @ + 1]
      BY Zenon, <2>5 DEF SendKeepalive, SendTransport, CreateMessageInitiation, NewPrivateKey
    <3> QED BY <1>1, <2>5, <3>1, KeepaliveKept
  <2>6. CASE Done(n, w) /\ UNCHANGED <<hs, kps, eph, net>>
    BY <1>1, <2>6, WorkerDrops, NothingAdded, KeptParts
  <2> QED BY <1>3, <2>1, <2>2, <2>3, <2>4, <2>5, <2>6
          DEF WorkerStep, CreateMessageResponseFails, BeginSymmetricSessionFails,
              SendKeepaliveTooSoon
<1>4. ASSUME NEW p \in Peer, PeerStep(p)
      PROVE  AgreeInv'
  <2>1. eph' = eph \/ \E a \in Node : eph' = [eph EXCEPT ![a] = @ + 1]
    BY <1>4, PeerPair DEF PeerStep, SendHandshakeInitiation, SendStagedPackets, ReceiveTransport,
       ReceivedWithKeypair, ZeroKeypairs, ZeroHandshakeState, SendTransport,
       CreateMessageInitiation, NewPrivateKey
  <2> QED BY <1>1, <1>4, <2>1, PeerKept
<1> QED BY <1>2, <1>3, <1>4, NextSteps

\* Who began a handshake.
RoleOfHandshake(p, h) ==
    h.state \in {"InitiationCreated", "ResponseConsumed"} => h.chain.ei[1] = p[1]
RoleOfKeypair(p, kp) == kp # None /\ kp.isInitiator => kp.key.ei[1] = p[1]
RoleOfWorker(n, l) == l.pc = "consumeResponse" => l.msg.key.ei[1] = n

HandshakeRoles == \A p \in Peer : RoleOfHandshake(p, hs[p])
WorkerRoles == \A n \in Node, w \in Worker : RoleOfWorker(n, wk[n][w])
KeypairRoles == \A p \in Peer, s \in Slot : RoleOfKeypair(p, kps[p][s])

LEMMA RoleParts == RoleInv <=> HandshakeRoles /\ WorkerRoles /\ KeypairRoles
BY DEF RoleInv, HandshakeRoles, WorkerRoles, KeypairRoles, RoleOfHandshake, RoleOfKeypair,
       RoleOfWorker

LEMMA RolePartsNext == (HandshakeRoles /\ WorkerRoles /\ KeypairRoles)' => RoleInv'
BY RoleParts, PTL

LEMMA HandshakeRole ==
    ASSUME StoreOK, HandshakeRoles, NEW p \in Peer, NEW h, RoleOfHandshake(p, h),
           hs' = [hs EXCEPT ![p] = h]
    PROVE  HandshakeRoles'
BY DEF StoreOK, HandshakeRoles

LEMMA WorkerRole ==
    ASSUME WorkersOK, WorkerRoles, NEW n \in Node, NEW w \in Worker, NEW l, RoleOfWorker(n, l),
           wk' = [wk EXCEPT ![n][w] = l]
    PROVE  WorkerRoles'
BY DEF WorkersOK, WorkerRoles

LEMMA KeypairRole ==
    ASSUME StoreOK, KeypairRoles, NEW p \in Peer, NEW x,
           \A s \in Slot : RoleOfKeypair(p, x[s]), kps' = [kps EXCEPT ![p] = x]
    PROVE  KeypairRoles'
BY DEF StoreOK, KeypairRoles

LEMMA SameRoles ==
    /\ HandshakeRoles /\ UNCHANGED hs => HandshakeRoles'
    /\ WorkerRoles /\ UNCHANGED wk => WorkerRoles'
    /\ KeypairRoles /\ UNCHANGED kps => KeypairRoles'
BY DEF HandshakeRoles, WorkerRoles, KeypairRoles

LEMMA WorkerGivesUp ==
    ASSUME WorkersOK, WorkerRoles, NEW n \in Node, NEW w \in Worker,
           \/ Done(n, w)
           \/ \E pc \in {"createResponse", "beginInitiator", "keepalive"} : Goto(n, w, pc)
    PROVE  WorkerRoles'
<1>1. CASE Done(n, w)
  <2>1. RoleOfWorker(n, IdleWorker)
    BY DEF RoleOfWorker, IdleWorker
  <2> QED BY <1>1, <2>1, WorkerRole DEF Done
<1>2. CASE \E pc \in {"createResponse", "beginInitiator", "keepalive"} : Goto(n, w, pc)
  <2>1. PICK pc \in {"createResponse", "beginInitiator", "keepalive"} : Goto(n, w, pc)
    BY <1>2
  <2> DEFINE l == At(wk[n][w], pc)
  <2>2. wk' = [wk EXCEPT ![n][w] = l]
    BY <2>1 DEF Goto, At
  <2>3. l.pc = pc
    BY WorkersLocal DEF At, LocalOK, Locals
  <2>4. RoleOfWorker(n, l)
    BY <2>3 DEF RoleOfWorker
  <2> HIDE DEF l
  <2> QED BY <2>2, <2>4, WorkerRole
<1> QED BY <1>1, <1>2

LEMMA InitiationRoles ==
    ASSUME StoreOK, HandshakeRoles, KeypairRoles, NEW p \in Peer, CreateMessageInitiation(p)
    PROVE  HandshakeRoles' /\ KeypairRoles'
<1>1. PICK x \in Index :
        hs' = [hs EXCEPT ![p] = WithIndex(hs[p], x, [ei |-> FreshEph(p[1]), er |-> None],
                                          "InitiationCreated")]
  BY DEF CreateMessageInitiation, FreeIndex
<1> DEFINE h == WithIndex(hs[p], x, [ei |-> FreshEph(p[1]), er |-> None], "InitiationCreated")
<1>2. h.chain.ei[1] = p[1]
  BY DEF WithIndex, StoreOK, Handshake, FreshEph
<1>3. RoleOfHandshake(p, h)
  BY <1>2 DEF RoleOfHandshake
<1>4. hs' = [hs EXCEPT ![p] = h]
  BY <1>1
<1> HIDE DEF h
<1> QED BY <1>3, <1>4, HandshakeRole, SameRoles DEF CreateMessageInitiation

LEMMA BeginRoles ==
    ASSUME StoreOK, HandshakeRoles, KeypairRoles, NEW p \in Peer, BeginSymmetricSession(p)
    PROVE  HandshakeRoles' /\ KeypairRoles'
<1> DEFINE h == Cleared(hs[p])
           kp == DerivedKeypair(hs[p])
           x == Rotate(kps[p], kp).slots
<1>1. hs' = [hs EXCEPT ![p] = h] /\ kps' = [kps EXCEPT ![p] = x] /\ Derivable(hs[p])
  BY BeginSession
<1>2. kp \in Keypair /\ kps[p] \in [Slot -> Keypair \cup {None}]
  BY <1>1, DerivedKeypairType DEF StoreOK
<1>3. h.state = "Zeroed"
  BY ClearedType DEF StoreOK
<1>4. RoleOfHandshake(p, h)
  BY <1>3 DEF RoleOfHandshake
<1>5. RoleOfKeypair(p, kp)
  BY DEF RoleOfKeypair, RoleOfHandshake, DerivedKeypair, HandshakeRoles
<1> HIDE DEF h, kp
<1>6. HandshakeRoles'
  BY <1>1, <1>4, HandshakeRole
<1>7. ASSUME NEW s \in Slot PROVE RoleOfKeypair(p, x[s])
  <2>1. x[s] \in {kp, None} \/ \E t \in Slot : x[s] = kps[p][t]
    BY <1>2, RotationSlots
  <2> HIDE DEF x
  <2> QED BY <1>5, <2>1 DEF RoleOfKeypair, KeypairRoles
<1> HIDE DEF x
<1>8. KeypairRoles'
  BY <1>1, <1>7, KeypairRole
<1> QED BY <1>6, <1>8

LEMMA ReceiveRoles ==
    ASSUME WorkersOK, StoreOK, WorkerRoles, HandshakeRoles, NEW n \in Node, NEW w \in Worker,
           ReceiveInitiation(n, w) \/ ReceiveResponse(n, w)
    PROVE  WorkerRoles'
<1>1. CASE ReceiveInitiation(n, w)
  <2>1. PICK m \in net :
          wk' = [wk EXCEPT ![n][w] = [pc |-> "consumeInitiation", peer |-> m.from, msg |-> m]]
    BY <1>1 DEF ReceiveInitiation
  <2> DEFINE l == [pc |-> "consumeInitiation", peer |-> m.from, msg |-> m]
  <2>2. RoleOfWorker(n, l)
    BY DEF RoleOfWorker
  <2> HIDE DEF l
  <2> QED BY <2>1, <2>2, WorkerRole DEF l
<1>2. CASE ReceiveResponse(n, w)
  <2>1. PICK m \in net :
          LET e == Lookup(table[n], m.receiver)
              p == <<n, e.peer>>
          IN  /\ e.handshake
              /\ hs[p].state = "InitiationCreated" /\ hs[p].chain.ei = m.key.ei
              /\ wk' = [wk EXCEPT ![n][w] = [pc |-> "consumeResponse", peer |-> e.peer, msg |-> m]]
    BY <1>2 DEF ReceiveResponse
  <2> DEFINE e == Lookup(table[n], m.receiver)
             p == <<n, e.peer>>
             l == [pc |-> "consumeResponse", peer |-> e.peer, msg |-> m]
  <2>2. p \in Peer
    <3>1. e # NoEntry /\ m.receiver \in Index /\ e = table[n][m.receiver]
      BY <2>1 DEF Lookup, NoEntry
    <3>2. table[n] \in PeerTable(n)
      BY DEF StoreOK
    <3> QED BY <3>1, <3>2 DEF PeerTable
  <2>3. m.key.ei[1] = n
    BY <2>1, <2>2 DEF HandshakeRoles, RoleOfHandshake
  <2>4. RoleOfWorker(n, l)
    BY <2>3 DEF RoleOfWorker
  <2>5. wk' = [wk EXCEPT ![n][w] = l]
    BY <2>1
  <2> HIDE DEF l
  <2> QED BY <2>4, <2>5, WorkerRole
<1> QED BY <1>1, <1>2

LEMMA ConsumeRoles ==
    ASSUME WorkersOK, StoreOK, WorkerRoles, HandshakeRoles, NEW n \in Node, NEW w \in Worker,
           ConsumeMessageInitiation(n, w) \/ ConsumeMessageResponse(n, w)
    PROVE  HandshakeRoles'
<1> DEFINE m == wk[n][w].msg
           p == <<n, wk[n][w].peer>>
<1>1. /\ p \in Peer /\ p[1] = n
      /\ \/ hs' = [hs EXCEPT ![p] = WithInitiation(hs[p], m)]
         \/ /\ hs' = [hs EXCEPT ![p] = WithResponse(hs[p], m)]
            /\ m.key.ei[1] = n
  BY WorkersLocal DEF ConsumeMessageInitiation, ConsumeMessageResponse, LocalOK, WorkerRoles,
                      RoleOfWorker
<1> HIDE DEF p, m
<1>2. hs[p] \in Handshake
  BY <1>1 DEF StoreOK
<1>3. RoleOfHandshake(p, WithInitiation(hs[p], m))
  BY <1>2 DEF RoleOfHandshake, WithInitiation, Handshake
<1>4. m.key.ei[1] = n => RoleOfHandshake(p, WithResponse(hs[p], m))
  BY <1>1, <1>2 DEF RoleOfHandshake, WithResponse, Handshake
<1> QED BY <1>1, <1>3, <1>4, HandshakeRole

LEMMA CreateResponseRoles ==
    ASSUME WorkersOK, StoreOK, WorkerRoles, HandshakeRoles, NEW n \in Node, NEW w \in Worker,
           CreateMessageResponse(n, w)
    PROVE  WorkerRoles' /\ HandshakeRoles'
<1> DEFINE p == <<n, wk[n][w].peer>>
           key == [ei |-> hs[p].chain.ei, er |-> FreshEph(n)]
<1>1. p \in Peer
  BY CreatesResponse
<1>2. PICK x \in Index :
        /\ hs' = [hs EXCEPT ![p] = WithIndex(hs[p], x, key, "ResponseCreated")]
        /\ wk' = [wk EXCEPT ![n][w] = [pc |-> "beginResponder", peer |-> p[2],
                                       msg |-> Response(p, x, hs[p].remoteIndex, key)]]
  BY Zenon DEF CreateMessageResponse, FreeIndex
<1> DEFINE h == WithIndex(hs[p], x, key, "ResponseCreated")
           l == [pc |-> "beginResponder", peer |-> p[2],
                 msg |-> Response(p, x, hs[p].remoteIndex, key)]
<1>3. h.state = "ResponseCreated"
  BY <1>1 DEF WithIndex, StoreOK, Handshake
<1>4. RoleOfHandshake(p, h) /\ RoleOfWorker(n, l)
  BY Zenon, <1>3 DEF RoleOfHandshake, RoleOfWorker
<1>5. hs' = [hs EXCEPT ![p] = h] /\ wk' = [wk EXCEPT ![n][w] = l]
  BY <1>2
<1> HIDE DEF h, l, p
<1> QED BY <1>1, <1>4, <1>5, HandshakeRole, WorkerRole

LEMMA ReceivedRoles ==
    ASSUME StoreOK, KeypairRoles, NEW p \in Peer, ReceivedWithKeypair(p)
    PROVE  KeypairRoles'
<1>1. CASE kps' = kps
  BY <1>1, SameRoles
<1>2. CASE kps' # kps
  <2> DEFINE x == [previous |-> kps[p]["current"], current |-> kps[p]["next"], next |-> None]
  <2>1. kps' = [kps EXCEPT ![p] = x]
    BY <1>2 DEF ReceivedWithKeypair
  <2>2. \A s \in Slot : x[s] = None \/ \E t \in Slot : x[s] = kps[p][t]
    BY DEF Slot
  <2>3. \A s \in Slot : RoleOfKeypair(p, x[s])
    BY <2>2 DEF RoleOfKeypair, KeypairRoles
  <2> HIDE DEF x
  <2> QED BY <2>1, <2>3, KeypairRole
<1> QED BY <1>1, <1>2

LEMMA ZeroRoles ==
    ASSUME StoreOK, KeypairRoles, HandshakeRoles, NEW p \in Peer
    PROVE  /\ ZeroKeypairs(p) => KeypairRoles'
           /\ ZeroHandshakeState(p) => HandshakeRoles'
<1>1. ASSUME ZeroKeypairs(p) PROVE KeypairRoles'
  <2>1. \A s \in Slot : RoleOfKeypair(p, NoKeypairs[s])
    BY DEF RoleOfKeypair, NoKeypairs
  <2> QED BY <1>1, <2>1, KeypairRole DEF ZeroKeypairs
<1>2. ASSUME ZeroHandshakeState(p) PROVE HandshakeRoles'
  <2>1. Cleared(hs[p]).state = "Zeroed"
    BY ClearedType DEF StoreOK
  <2>2. RoleOfHandshake(p, Cleared(hs[p]))
    BY <2>1 DEF RoleOfHandshake
  <2> QED BY <1>2, <2>2, HandshakeRole DEF ZeroHandshakeState
<1> QED BY <1>1, <1>2

LEMMA RoleStep == TypeInv /\ RoleInv /\ [Next]_vars => RoleInv'
<1> SUFFICES ASSUME WorkersOK, StoreOK, HandshakeRoles, WorkerRoles, KeypairRoles, [Next]_vars
             PROVE  HandshakeRoles' /\ WorkerRoles' /\ KeypairRoles'
  BY TypeParts, RoleParts, RolePartsNext
<1>1. CASE UNCHANGED vars
  BY <1>1, SameRoles DEF vars
<1>2. ASSUME NEW n \in Node, NEW w \in Worker, WorkerStep(n, w)
      PROVE  HandshakeRoles' /\ WorkerRoles' /\ KeypairRoles'
  <2> DEFINE p == <<n, wk[n][w].peer>>
  <2>1. wk[n][w].pc # "idle" => p \in Peer
    BY WorkersLocal DEF LocalOK
  <2>2. CASE ReceiveInitiation(n, w) \/ ReceiveResponse(n, w)
    <3>1. UNCHANGED <<hs, kps>>
      BY <2>2 DEF ReceiveInitiation, ReceiveResponse
    <3> QED BY <2>2, <3>1, ReceiveRoles, SameRoles
  <2>3. CASE ConsumeMessageInitiation(n, w) \/ ConsumeMessageResponse(n, w)
    <3>1. /\ UNCHANGED kps
          /\ Goto(n, w, "createResponse") \/ Goto(n, w, "beginInitiator")
      BY <2>3 DEF ConsumeMessageInitiation, ConsumeMessageResponse
    <3> QED BY <2>3, <3>1, ConsumeRoles, WorkerGivesUp, SameRoles
  <2>4. CASE CreateMessageResponse(n, w)
    <3>1. UNCHANGED kps
      BY <2>4 DEF CreateMessageResponse
    <3> QED BY <2>4, <3>1, CreateResponseRoles, SameRoles
  <2>5. CASE BeginResponder(n, w) \/ BeginInitiator(n, w)
    <3>1. /\ p \in Peer /\ BeginSymmetricSession(p)
          /\ Done(n, w) \/ Goto(n, w, "keepalive")
      BY <2>1, <2>5 DEF BeginResponder, BeginInitiator
    <3> HIDE DEF p
    <3> QED BY <3>1, BeginRoles, WorkerGivesUp
  <2>6. CASE SendKeepalive(n, w)
    <3>1. p \in Peer /\ Done(n, w) /\ (SendTransport(p) \/ CreateMessageInitiation(p))
      BY <2>1, <2>6 DEF SendKeepalive
    <3> HIDE DEF p
    <3>2. SendTransport(p) => UNCHANGED <<hs, kps>>
      BY DEF SendTransport
    <3> QED BY <3>1, <3>2, InitiationRoles, WorkerGivesUp, SameRoles
  <2>7. CASE Done(n, w) /\ UNCHANGED <<hs, kps>>
    BY <2>7, WorkerGivesUp, SameRoles
  <2> QED BY <1>2, <2>2, <2>3, <2>4, <2>5, <2>6, <2>7
          DEF WorkerStep, CreateMessageResponseFails, BeginSymmetricSessionFails,
              SendKeepaliveTooSoon
<1>3. ASSUME NEW p \in Peer, PeerStep(p)
      PROVE  HandshakeRoles' /\ WorkerRoles' /\ KeypairRoles'
  <2>1. WorkerRoles'
    <3>1. UNCHANGED wk
      BY <1>3 DEF PeerStep, SendHandshakeInitiation, SendStagedPackets, ReceiveTransport,
                  ReceivedWithKeypair, ZeroKeypairs, ZeroHandshakeState
    <3> QED BY <3>1, SameRoles
  <2>2. CASE SendHandshakeInitiation(p)
    BY <2>1, <2>2, InitiationRoles DEF SendHandshakeInitiation
  <2>3. CASE SendStagedPackets(p) \/ ReceiveTransport(p)
    BY <2>1, <2>3, SameRoles DEF SendStagedPackets, SendTransport, ReceiveTransport
  <2>4. CASE ReceivedWithKeypair(p)
    <3>1. UNCHANGED hs
      BY <2>4 DEF ReceivedWithKeypair
    <3> QED BY <2>1, <2>4, <3>1, ReceivedRoles, SameRoles
  <2>5. CASE ZeroKeypairs(p)
    BY <2>1, <2>5, ZeroRoles, SameRoles DEF ZeroKeypairs
  <2>6. CASE ZeroHandshakeState(p)
    BY <2>1, <2>6, ZeroRoles, SameRoles DEF ZeroHandshakeState
  <2> QED BY <1>3, <2>2, <2>3, <2>4, <2>5, <2>6 DEF PeerStep
<1> QED BY <1>1, <1>2, <1>3, NextSteps

\* Two ends that hold the same key hold it in opposite roles, and the initiator
\* sends to the index the responder receives under, on any number of devices
\* with any number of handshake workers and whatever the network does: the
\* remoteIndex that ConsumeMessageResponse stores and BeginSymmetricSession
\* hands to the keypair is the one CreateMessageResponse drew together with
\* the ephemeral of that very key, also when an initiation overwrites the
\* handshake between the two sections.
THEOREM EndsAgree == Spec => []SessionAgreement
<1>1. Spec => [](TypeInv /\ AgreeInv /\ RoleInv)
  BY AgreeInit, AgreeStep, RoleStep, TypeAlways, PTL DEF Spec
<1>2. TypeInv /\ AgreeInv /\ RoleInv => SessionAgreement
  BY TypeParts, AgreementFollows
<1> QED BY <1>1, <1>2, PTL

-----------------------------------------------------------------------------
(***************************************************************************)
(* The index table of NoiseSession stays exact, for any set of devices,    *)
(* workers and indices, at every index but the value 0 that also stands    *)
(* for "no index": what the handlers do to the entry at 0, which they may  *)
(* draw and which they delete for other handshakes, does not spread.       *)
(*                                                                         *)
(* The invariant is stated per peer: t is the table of its device, li the  *)
(* localIndex of its handshake and k its keypair slots.  Besides the three *)
(* checked properties it says that no two slots share an index: dropping   *)
(* one of two such keypairs would take the entry of the other.             *)
(***************************************************************************)

USE DEF Assigned

Slots == [Slot -> Keypair \cup {None}]

Exact(p, t, li, k) ==
    /\ li \in Assigned => t[li] = HandshakeEntry(p)
    /\ \A s \in Slot :
          k[s] # None /\ k[s].localIndex \in Assigned
            => t[k[s].localIndex] = KeypairEntry(p, k[s])
    /\ \A s, u \in Slot :
          s # u /\ k[s] # None /\ k[u] # None /\ k[s].localIndex \in Assigned
            => k[s].localIndex # k[u].localIndex
    /\ \A i \in Assigned :
          t[i] # NoEntry /\ t[i].peer = p[2] =>
             \/ li = i /\ t[i] = HandshakeEntry(p)
             \/ \E s \in Slot : /\ k[s] # None /\ k[s].localIndex = i
                                /\ t[i] = KeypairEntry(p, k[s])

\* What p does to a table leaves the entries of the device's other peers alone.
OthersKept(p, t, u) ==
    \A i \in Assigned :
        /\ t[i] # NoEntry /\ t[i].peer # p[2] => u[i] = t[i]
        /\ u[i] # NoEntry /\ u[i].peer # p[2] => u[i] = t[i]

IndexInv == \A p \in Peer : Exact(p, table[p[1]], hs[p].localIndex, kps[p])

-----------------------------------------------------------------------------
(* Effects on one peer *)

LEMMA EntryFacts ==
    ASSUME NEW p \in Peer, NEW kp \in Keypair
    PROVE  /\ HandshakeEntry(p) # NoEntry /\ HandshakeEntry(p).peer = p[2]
           /\ KeypairEntry(p, kp) # NoEntry /\ KeypairEntry(p, kp).peer = p[2]
           /\ HandshakeEntry(p) # KeypairEntry(p, kp)
BY PeerPair, NoneAssumption DEF HandshakeEntry, KeypairEntry, NoEntry

LEMMA HandshakeEntryFacts ==
    ASSUME NEW p \in Peer
    PROVE  HandshakeEntry(p) # NoEntry /\ HandshakeEntry(p).peer = p[2]
BY DEF HandshakeEntry, NoEntry

LEMMA DeleteAt ==
    ASSUME NEW t, NEW i, NEW j \in Index
    PROVE  Delete(t, i)[j] = IF j = i THEN NoEntry ELSE t[j]
BY DEF Delete

\* Deleting the handshake's index.
LEMMA DropHandshake ==
    ASSUME NEW p \in Peer, NEW t, NEW li \in AnyIndex,
           NEW k \in Slots, Exact(p, t, li, k)
    PROVE  /\ Exact(p, Delete(t, li), ZeroIndex, k)
           /\ OthersKept(p, t, Delete(t, li))
<1> DEFINE u == Delete(t, li)
<1>1. \A j \in Assigned : u[j] = IF j = li THEN NoEntry ELSE t[j]
  BY DeleteAt
<1> HIDE DEF u
<1>2. li \in Assigned => t[li] = HandshakeEntry(p)
  BY DEF Exact
<1>3. \A s \in Slot : k[s] # None /\ k[s].localIndex \in Assigned => k[s].localIndex # li
  <2> SUFFICES ASSUME NEW s \in Slot, k[s] # None, k[s].localIndex \in Assigned,
                      k[s].localIndex = li
               PROVE  FALSE
    OBVIOUS
  <2>1. t[li] = KeypairEntry(p, k[s]) /\ k[s] \in Keypair
    BY DEF Exact, Slots
  <2> QED BY <1>2, <2>1, EntryFacts
<1>4. Exact(p, u, ZeroIndex, k)
  BY <1>1, <1>3 DEF Exact
<1>5. OthersKept(p, t, u)
  BY <1>1, <1>2, HandshakeEntryFacts DEF OthersKept
<1> QED BY <1>4, <1>5 DEF u

\* Taking a free index for a new handshake message.
LEMMA Allocate ==
    ASSUME NEW p \in Peer, NEW t \in [Index -> Entry],
           NEW k \in Slots, Exact(p, t, ZeroIndex, k), NEW i \in Index, t[i] = NoEntry
    PROVE  /\ Exact(p, [t EXCEPT ![i] = HandshakeEntry(p)], i, k)
           /\ OthersKept(p, t, [t EXCEPT ![i] = HandshakeEntry(p)])
<1> DEFINE u == [t EXCEPT ![i] = HandshakeEntry(p)]
<1>1. \A j \in Assigned : u[j] = IF j = i THEN HandshakeEntry(p) ELSE t[j]
  OBVIOUS
<1> HIDE DEF u
<1>2. \A s \in Slot : k[s] # None /\ k[s].localIndex \in Assigned => k[s].localIndex # i
  <2> SUFFICES ASSUME NEW s \in Slot, k[s] # None, k[s].localIndex \in Assigned,
                      k[s].localIndex = i
               PROVE  FALSE
    OBVIOUS
  <2>1. t[i] = KeypairEntry(p, k[s]) /\ k[s] \in Keypair
    BY DEF Exact, Slots
  <2> QED BY <2>1, EntryFacts
<1>3. Exact(p, u, i, k)
  BY <1>1, <1>2 DEF Exact
<1>4. OthersKept(p, t, u)
  BY <1>1, HandshakeEntryFacts DEF OthersKept
<1> QED BY <1>3, <1>4 DEF u

\* Dropping the keypair of slot s.
LEMMA DropKeypair ==
    ASSUME NEW p \in Peer, NEW t, NEW li \in AnyIndex,
           NEW k \in Slots, Exact(p, t, li, k), NEW s \in Slot
    PROVE  /\ Exact(p, DeleteKeypair(t, k[s]), li, [k EXCEPT ![s] = None])
           /\ OthersKept(p, t, DeleteKeypair(t, k[s]))
           /\ [k EXCEPT ![s] = None] \in Slots
<1> DEFINE u == DeleteKeypair(t, k[s])
           l == [k EXCEPT ![s] = None]
<1>1. l \in Slots /\ l[s] = None /\ \A v \in Slot : v # s => l[v] = k[v]
  BY DEF Slots
<1>2. CASE k[s] = None
  <2>1. u = t
    BY <1>2 DEF DeleteKeypair
  <2> HIDE DEF u, l
  <2>2. \A v \in Slot : l[v] = k[v]
    BY <1>1, <1>2
  <2> QED BY <1>1, <2>1, <2>2 DEF Exact, OthersKept, u, l
<1>3. CASE k[s] # None
  <2>1. k[s] \in Keypair
    BY <1>3 DEF Slots
  <2>2. \A j \in Assigned : u[j] = IF j = k[s].localIndex THEN NoEntry ELSE t[j]
    BY <1>3, DeleteAt DEF DeleteKeypair
  <2>3. k[s].localIndex \in Assigned => t[k[s].localIndex] = KeypairEntry(p, k[s])
    BY <1>3 DEF Exact
  <2> HIDE DEF u, l
  <2>4. li \in Assigned => li # k[s].localIndex
    BY <2>1, <2>3, EntryFacts DEF Exact, AnyIndex
  <2>5. \A v \in Slot : l[v] # None /\ l[v].localIndex \in Assigned
           => l[v] = k[v] /\ v # s /\ l[v].localIndex # k[s].localIndex
    BY <1>1, <1>3 DEF Exact
  <2>6. Exact(p, u, li, l)
    <3>1. li \in Assigned => u[li] = HandshakeEntry(p)
      BY <2>2, <2>4 DEF Exact, AnyIndex
    <3>2. \A v \in Slot : l[v] # None /\ l[v].localIndex \in Assigned
             => u[l[v].localIndex] = KeypairEntry(p, l[v])
      BY <2>2, <2>5 DEF Exact
    <3>3. \A v, w \in Slot : v # w /\ l[v] # None /\ l[w] # None /\ l[v].localIndex \in Assigned
             => l[v].localIndex # l[w].localIndex
      BY <1>1 DEF Exact
    <3>4. ASSUME NEW i \in Assigned, u[i] # NoEntry, u[i].peer = p[2]
          PROVE  \/ li = i /\ u[i] = HandshakeEntry(p)
                 \/ \E v \in Slot : /\ l[v] # None /\ l[v].localIndex = i
                                    /\ u[i] = KeypairEntry(p, l[v])
      BY <1>1, <2>2, <3>4 DEF Exact
    <3> QED BY <3>1, <3>2, <3>3, <3>4 DEF Exact
  <2>7. OthersKept(p, t, u)
    BY <2>1, <2>2, <2>3, EntryFacts DEF OthersKept
  <2> QED BY <1>1, <2>6, <2>7 DEF u, l
<1> QED BY <1>2, <1>3

\* Handing the handshake's index over to the new keypair, in an empty slot.
LEMMA Swap ==
    ASSUME NEW p \in Peer, NEW t \in [Index -> Entry],
           NEW li \in AnyIndex, NEW k \in Slots, Exact(p, t, li, k),
           NEW s \in Slot, k[s] = None, NEW kp \in Keypair, kp.localIndex = li
    PROVE  /\ Exact(p, SwapIndexForKeypair(t, li, kp), ZeroIndex, [k EXCEPT ![s] = kp])
           /\ OthersKept(p, t, SwapIndexForKeypair(t, li, kp))
<1> DEFINE u == SwapIndexForKeypair(t, li, kp)
           l == [k EXCEPT ![s] = kp]
<1>1. l[s] = kp /\ \A v \in Slot : v # s => l[v] = k[v]
  BY DEF Slots
<1>2. li \in Assigned => t[li] = HandshakeEntry(p)
  BY DEF Exact
<1>3. \A j \in Assigned : u[j] = IF j = li THEN KeypairEntry(p, kp) ELSE t[j]
  <2>1. \A j \in Assigned : j = li =>
           t[j] # NoEntry /\ t[j].peer = p[2]
    BY <1>2, HandshakeEntryFacts
  <2> QED BY <2>1 DEF SwapIndexForKeypair, KeypairEntry
<1> HIDE DEF u, l
<1>4. \A v \in Slot : k[v] # None /\ k[v].localIndex \in Assigned => k[v].localIndex # li
  <2> SUFFICES ASSUME NEW v \in Slot, k[v] # None, k[v].localIndex \in Assigned,
                      k[v].localIndex = li
               PROVE  FALSE
    OBVIOUS
  <2>1. t[li] = KeypairEntry(p, k[v]) /\ k[v] \in Keypair
    BY DEF Exact, Slots
  <2> QED BY <1>2, <2>1, EntryFacts
<1>5. Exact(p, u, ZeroIndex, l)
  <2>1. \A v \in Slot : l[v] # None /\ l[v].localIndex \in Assigned
           => u[l[v].localIndex] = KeypairEntry(p, l[v])
    BY <1>1, <1>3, <1>4 DEF Exact
  <2>2. \A v, w \in Slot : v # w /\ l[v] # None /\ l[w] # None /\ l[v].localIndex \in Assigned
             => l[v].localIndex # l[w].localIndex
    BY <1>1, <1>4 DEF Exact
  <2>3. ASSUME NEW i \in Assigned, u[i] # NoEntry, u[i].peer = p[2]
        PROVE  \E v \in Slot : /\ l[v] # None /\ l[v].localIndex = i
                               /\ u[i] = KeypairEntry(p, l[v])
    <3>1. CASE i = li
      BY <1>1, <1>3, <3>1, NoneAssumption
    <3>2. CASE i # li
      <4>1. PICK v \in Slot : /\ k[v] # None /\ k[v].localIndex = i
                              /\ t[i] = KeypairEntry(p, k[v])
        BY <1>3, <2>3, <3>2 DEF Exact
      <4>2. v # s /\ l[v] = k[v]
        BY <1>1, <4>1
      <4> QED BY <1>3, <3>2, <4>1, <4>2
    <3> QED BY <3>1, <3>2
  <2> QED BY <2>1, <2>2, <2>3 DEF Exact
<1>6. OthersKept(p, t, u)
  BY <1>2, <1>3, HandshakeEntryFacts, EntryFacts DEF OthersKept
<1> QED BY <1>5, <1>6 DEF u, l

LEMMA KeptTransitive ==
    ASSUME NEW p, NEW t, NEW u, NEW v, OthersKept(p, t, u), OthersKept(p, u, v)
    PROVE  OthersKept(p, t, v)
BY DEF OthersKept

LEMMA DeleteFunction ==
    ASSUME NEW t \in [Index -> Entry], NEW i, NEW kp
    PROVE  Delete(t, i) \in [Index -> Entry] /\ DeleteKeypair(t, kp) \in [Index -> Entry]
BY NoEntryType DEF Delete, DeleteKeypair

\* The order of swapping and deleting does not matter.
LEMMA SwapDeleteCommute ==
    ASSUME NEW t \in [Index -> Entry], NEW li, NEW kp, NEW d
    PROVE  DeleteKeypair(SwapIndexForKeypair(t, li, kp), d)
             = SwapIndexForKeypair(DeleteKeypair(t, d), li, kp)
BY DEF SwapIndexForKeypair, DeleteKeypair, Delete

\* Moving the keypairs of two slots up by one when the first is empty.
LEMMA ShiftSlots ==
    ASSUME NEW p \in Peer, NEW t, NEW li, NEW k \in Slots, NEW l \in Slots,
           Exact(p, t, li, k),
           \/ /\ k["previous"] = None /\ l["next"] = None
              /\ l["previous"] = k["current"] /\ l["current"] = k["next"]
           \/ /\ k["previous"] = None /\ k["current"] = None
              /\ l["previous"] = k["next"] /\ l["current"] = None /\ l["next"] = None
           \/ \A s \in Slot : l[s] = k[s]
    PROVE  Exact(p, t, li, l)
<1> USE DEF Slot
<1>1. \A s \in Slot : l[s] # None => \E u \in Slot : l[s] = k[u]
  OBVIOUS
<1>2. \A s \in Slot : k[s] # None => \E u \in Slot : k[s] = l[u]
  OBVIOUS
<1>3. \A s, u \in Slot :
         s # u /\ l[s] # None /\ l[u] # None /\ l[s].localIndex \in Assigned
            => l[s].localIndex # l[u].localIndex
  BY DEF Exact
<1>4. \A s \in Slot :
          l[s] # None /\ l[s].localIndex \in Assigned
            => t[l[s].localIndex] = KeypairEntry(p, l[s])
  BY <1>1 DEF Exact
<1>5. ASSUME NEW i \in Assigned, t[i] # NoEntry, t[i].peer = p[2]
      PROVE  \/ li = i /\ t[i] = HandshakeEntry(p)
             \/ \E s \in Slot : /\ l[s] # None /\ l[s].localIndex = i
                                /\ t[i] = KeypairEntry(p, l[s])
  BY <1>2, <1>5 DEF Exact
<1>6. li \in Assigned => t[li] = HandshakeEntry(p)
  BY DEF Exact
<1> QED BY <1>3, <1>4, <1>5, <1>6 DEF Exact

LEMMA SwapInto ==
    ASSUME NEW p \in Peer, NEW t, NEW u \in [Index -> Entry],
           NEW li \in AnyIndex, NEW l \in Slots, Exact(p, u, li, l), OthersKept(p, t, u),
           NEW s \in Slot, l[s] = None, NEW kp \in Keypair, kp.localIndex = li,
           NEW r \in Slots, \A v \in Slot : r[v] = IF v = s THEN kp ELSE l[v]
    PROVE  /\ Exact(p, SwapIndexForKeypair(u, li, kp), ZeroIndex, r)
           /\ OthersKept(p, t, SwapIndexForKeypair(u, li, kp))
<1> DEFINE m == [l EXCEPT ![s] = kp]
           x == SwapIndexForKeypair(u, li, kp)
<1>1. Exact(p, x, ZeroIndex, m) /\ OthersKept(p, u, x)
  BY Swap
<1>2. m \in Slots /\ \A v \in Slot : r[v] = m[v]
  BY DEF Slots
<1> HIDE DEF m, x
<1>3. Exact(p, x, ZeroIndex, r)
  BY <1>1, <1>2, ShiftSlots
<1>4. OthersKept(p, t, x)
  BY <1>1, KeptTransitive
<1> QED BY <1>3, <1>4 DEF x

\* BeginSymmetricSession on one peer: delete, then hand over the index.
LEMMA RotateExact ==
    ASSUME NEW p \in Peer, NEW t \in [Index -> Entry],
           NEW li \in AnyIndex, NEW k \in Slots, Exact(p, t, li, k),
           NEW kp \in Keypair, kp.localIndex = li,
           NEW u, u = DeleteKeypair(DeleteKeypair(SwapIndexForKeypair(t, li, kp),
                                                  Rotate(k, kp).dropped[1]),
                                    Rotate(k, kp).dropped[2])
    PROVE  /\ Exact(p, u, ZeroIndex, Rotate(k, kp).slots)
           /\ OthersKept(p, t, u)
<1> DEFINE d1 == Rotate(k, kp).dropped[1]
           d2 == Rotate(k, kp).dropped[2]
           t1 == DeleteKeypair(t, d1)
           t2 == DeleteKeypair(t1, d2)
<1>1. t1 \in [Index -> Entry]
  BY DeleteFunction
<1>2. t2 \in [Index -> Entry]
  <2> HIDE DEF t1
  <2> QED BY <1>1, DeleteFunction
<1>3. u = SwapIndexForKeypair(t2, li, kp)
  <2> HIDE DEF d1, d2
  <2>1. u = DeleteKeypair(DeleteKeypair(SwapIndexForKeypair(t, li, kp), d1), d2)
    BY DEF d1, d2
  <2>2. DeleteKeypair(SwapIndexForKeypair(t, li, kp), d1) = SwapIndexForKeypair(t1, li, kp)
    BY SwapDeleteCommute
  <2> HIDE DEF t1
  <2>3. DeleteKeypair(SwapIndexForKeypair(t1, li, kp), d2) = SwapIndexForKeypair(t2, li, kp)
    BY <1>1, SwapDeleteCommute
  <2> QED BY <2>1, <2>2, <2>3
<1>4. k["previous"] \in Keypair \cup {None} /\ k["current"] \in Keypair \cup {None}
      /\ k["next"] \in Keypair \cup {None}
  BY DEF Slots, Slot
<1>5. Rotate(k, kp).slots \in Slots
  BY RotationType DEF Rotate, Slots
<1>6. CASE kp.isInitiator /\ k["next"] # None
  <2> DEFINE k1 == [k EXCEPT !["current"] = None]
             k2 == [k1 EXCEPT !["previous"] = None]
             l == [v \in Slot |-> IF v = "previous" THEN k["next"] ELSE None]
  <2>1. d1 = k["current"] /\ d2 = k["previous"] /\ k1["previous"] = k["previous"]
    BY <1>6 DEF Rotate, RotateForInitiator, Slots, Slot
  <2>2. Exact(p, t1, li, k1) /\ OthersKept(p, t, t1) /\ k1 \in Slots
    BY <2>1, DropKeypair DEF Slot
  <2>3. Exact(p, t2, li, k2) /\ OthersKept(p, t1, t2) /\ k2 \in Slots
    <3> HIDE DEF t1, k1
    <3> QED BY <2>1, <2>2, DropKeypair DEF Slot
  <2>4. k2["previous"] = None /\ k2["current"] = None /\ k2["next"] = k["next"]
    BY DEF Slots, Slot
  <2>5. l \in Slots /\ l["previous"] = k["next"] /\ l["current"] = None /\ l["next"] = None
    BY <1>4 DEF Slots, Slot
  <2> HIDE DEF t2, k2, l
  <2>6. Exact(p, t2, li, l) /\ OthersKept(p, t, t2)
    BY <2>2, <2>3, <2>4, <2>5, ShiftSlots, KeptTransitive
  <2>7. \A v \in Slot : Rotate(k, kp).slots[v] = IF v = "current" THEN kp ELSE l[v]
    BY <1>6, <2>5 DEF Rotate, RotateForInitiator, Slots, Slot
  <2> QED BY <1>2, <1>3, <1>5, <2>5, <2>6, <2>7, SwapInto DEF Slot
<1>7. CASE kp.isInitiator /\ k["next"] = None
  <2> DEFINE k2 == [k EXCEPT !["previous"] = None]
             l == [v \in Slot |-> IF v = "previous" THEN k["current"] ELSE None]
  <2>1. d1 = None /\ d2 = k["previous"]
    BY <1>7 DEF Rotate, RotateForInitiator
  <2>2. t1 = t
    BY <2>1 DEF DeleteKeypair
  <2>3. Exact(p, t2, li, k2) /\ OthersKept(p, t, t2) /\ k2 \in Slots
    BY <2>1, <2>2, DropKeypair DEF Slot
  <2>4. k2["previous"] = None /\ k2["current"] = k["current"] /\ k2["next"] = None
    BY <1>7 DEF Slots, Slot
  <2>5. l \in Slots /\ l["previous"] = k["current"] /\ l["current"] = None /\ l["next"] = None
    BY <1>4 DEF Slots, Slot
  <2> HIDE DEF t2, k2, l
  <2>6. Exact(p, t2, li, l)
    BY <2>3, <2>4, <2>5, ShiftSlots
  <2>7. \A v \in Slot : Rotate(k, kp).slots[v] = IF v = "current" THEN kp ELSE l[v]
    BY <1>7, <2>5 DEF Rotate, RotateForInitiator, Slots, Slot
  <2> QED BY <1>2, <1>3, <1>5, <2>3, <2>5, <2>6, <2>7, SwapInto DEF Slot
<1>8. CASE ~kp.isInitiator
  <2> DEFINE k1 == [k EXCEPT !["next"] = None]
             k2 == [k1 EXCEPT !["previous"] = None]
  <2>1. d1 = k["next"] /\ d2 = k["previous"] /\ k1["previous"] = k["previous"]
    BY <1>8 DEF Rotate, RotateForResponder, Slots, Slot
  <2>2. Exact(p, t1, li, k1) /\ OthersKept(p, t, t1) /\ k1 \in Slots
    BY <2>1, DropKeypair DEF Slot
  <2>3. Exact(p, t2, li, k2) /\ OthersKept(p, t1, t2) /\ k2 \in Slots
    <3> HIDE DEF t1, k1
    <3> QED BY <2>1, <2>2, DropKeypair DEF Slot
  <2>4. k2["previous"] = None /\ k2["current"] = k["current"] /\ k2["next"] = None
    BY DEF Slots, Slot
  <2> HIDE DEF t2, k2
  <2>5. OthersKept(p, t, t2)
    BY <2>2, <2>3, KeptTransitive
  <2>6. \A v \in Slot : Rotate(k, kp).slots[v] = IF v = "next" THEN kp ELSE k2[v]
    BY <1>8, <2>4 DEF Rotate, RotateForResponder, Slots, Slot
  <2> QED BY <1>2, <1>3, <1>5, <2>3, <2>4, <2>5, <2>6, SwapInto DEF Slot
<1> QED BY <1>6, <1>7, <1>8

-----------------------------------------------------------------------------
(* Steps *)

\* A step of peer p keeps the invariant of every peer if it keeps its own and
\* leaves the others' entries alone.
LEMMA IndexFrame ==
    ASSUME StoreOK, IndexInv, NEW p \in Peer, NEW u,
           table' = [table EXCEPT ![p[1]] = u],
           \A q \in Peer : q # p =>
              hs'[q].localIndex = hs[q].localIndex /\ kps'[q] = kps[q],
           Exact(p, u, hs'[p].localIndex, kps'[p]),
           OthersKept(p, table[p[1]], u)
    PROVE  IndexInv'
<1> SUFFICES ASSUME NEW q \in Peer
             PROVE  Exact(q, table'[q[1]], hs'[q].localIndex, kps'[q])
  BY DEF IndexInv, Exact
<1>1. table'[p[1]] = u /\ \A n \in Node : n # p[1] => table'[n] = table[n]
  BY PeerPair DEF StoreOK
<1>2. CASE q = p
  BY <1>1, <1>2
<1>3. CASE q # p
  <2>1. Exact(q, table[q[1]], hs[q].localIndex, kps[q])
    BY DEF IndexInv
  <2>2. CASE q[1] # p[1]
    BY <1>1, <1>3, <2>1, <2>2, PeerPair
  <2>3. CASE q[1] = p[1]
    <3> DEFINE t == table[p[1]]
               li == hs[q].localIndex
               k == kps[q]
    <3>1. q[2] # p[2]
      BY <1>3, <2>3, PeerPair
    <3>2. li \in AnyIndex /\ k \in Slots
      BY DEF StoreOK, Handshake, Slots
    <3>3. Exact(q, t, li, k)
      BY <2>1, <2>3
    <3> HIDE DEF t, li, k
    <3>4. \A i \in Assigned :
             /\ t[i] # NoEntry /\ t[i].peer = q[2] => u[i] = t[i]
             /\ u[i] # NoEntry /\ u[i].peer = q[2] => u[i] = t[i]
      BY <3>1 DEF OthersKept, t
    <3>5. li \in Assigned => u[li] = HandshakeEntry(q)
      <4>1. li \in Assigned => li \in Assigned /\ t[li] = HandshakeEntry(q)
        BY <3>2, <3>3 DEF Exact, AnyIndex
      <4>2. li \in Assigned => t[li] # NoEntry /\ t[li].peer = q[2]
        BY <4>1, HandshakeEntryFacts
      <4> QED BY <3>4, <4>1, <4>2
    <3>6. \A s \in Slot :
            k[s] # None /\ k[s].localIndex \in Assigned
              => u[k[s].localIndex] = KeypairEntry(q, k[s])
      <4> SUFFICES ASSUME NEW s \in Slot, k[s] # None, k[s].localIndex \in Assigned
                   PROVE  u[k[s].localIndex] = KeypairEntry(q, k[s])
        OBVIOUS
      <4>1. t[k[s].localIndex] = KeypairEntry(q, k[s]) /\ k[s] \in Keypair
        BY <3>2, <3>3 DEF Exact, Slots
      <4>2. t[k[s].localIndex] # NoEntry /\ t[k[s].localIndex].peer = q[2]
        BY <4>1, EntryFacts
      <4> QED BY <3>4, <4>1, <4>2
    <3>7. Exact(q, u, li, k)
      BY <3>3, <3>4, <3>5, <3>6 DEF Exact
    <3> QED BY <1>1, <1>3, <2>3, <3>7 DEF li, k
  <2> QED BY <2>2, <2>3
<1> QED BY <1>2, <1>3

LEMMA IndexUnchanged ==
    ASSUME StoreOK, IndexInv, UNCHANGED <<kps, table>>,
           \A q \in Peer : hs'[q].localIndex = hs[q].localIndex
    PROVE  IndexInv'
BY DEF IndexInv, Exact

\* CreateMessageInitiation and CreateMessageResponse: the old index is deleted
\* and a free one taken.
LEMMA IndexCreate ==
    ASSUME StoreOK, IndexInv, NEW p \in Peer, UNCHANGED kps,
           NEW i \in FreeIndex(Delete(table[p[1]], hs[p].localIndex)),
           NEW c \in Key, NEW st \in HandshakeState,
           table' = [table EXCEPT ![p[1]] =
                       [Delete(table[p[1]], hs[p].localIndex) EXCEPT ![i] = HandshakeEntry(p)]],
           hs' = [hs EXCEPT ![p] = WithIndex(hs[p], i, c, st)]
    PROVE  IndexInv'
<1> DEFINE t == table[p[1]]
           li == hs[p].localIndex
           u == Delete(t, li)
           v == [u EXCEPT ![i] = HandshakeEntry(p)]
<1>1. /\ Exact(p, t, li, kps[p]) /\ li \in AnyIndex /\ kps[p] \in Slots
      /\ t \in [Index -> Entry]
  BY PeerPair DEF IndexInv, StoreOK, Handshake, Slots
<1>2. i \in Index /\ u[i] = NoEntry
  BY DEF FreeIndex
<1> HIDE DEF t, li
<1>3. Exact(p, u, ZeroIndex, kps[p]) /\ OthersKept(p, t, u)
  BY <1>1, DropHandshake
<1>4. u \in [Index -> Entry]
  BY <1>1, DeleteFunction
<1> HIDE DEF u
<1>5. Exact(p, v, i, kps[p]) /\ OthersKept(p, u, v)
  BY <1>1, <1>2, <1>3, <1>4, Allocate
<1> HIDE DEF v
<1>6. OthersKept(p, t, v)
  BY <1>3, <1>5, KeptTransitive
<1>7. /\ hs'[p].localIndex = i
      /\ \A q \in Peer : q # p => hs'[q].localIndex = hs[q].localIndex
  BY <1>2, WithIndexType DEF StoreOK
<1>8. table' = [table EXCEPT ![p[1]] = v]
  BY DEF v, u, t, li
<1> QED BY <1>5, <1>6, <1>7, <1>8, IndexFrame DEF t

LEMMA IndexInitiation ==
    ASSUME StoreOK, IndexInv, NEW p \in Peer,
           CreateMessageInitiation(p)
    PROVE  IndexInv'
<1> DEFINE c == [ei |-> FreshEph(p[1]), er |-> None]
<1>1. c \in Key
  BY PeerPair, FreshEphType DEF Key
<1>2. "InitiationCreated" \in HandshakeState
  BY DEF HandshakeState
<1> HIDE DEF c
<1>3. PICK i \in FreeIndex(Delete(table[p[1]], hs[p].localIndex)) :
         /\ table' = [table EXCEPT ![p[1]] =
               [Delete(table[p[1]], hs[p].localIndex) EXCEPT ![i] = HandshakeEntry(p)]]
         /\ hs' = [hs EXCEPT ![p] = WithIndex(hs[p], i, c, "InitiationCreated")]
  BY DEF CreateMessageInitiation, c
<1>4. UNCHANGED kps
  BY DEF CreateMessageInitiation
<1> QED BY <1>1, <1>2, <1>3, <1>4, IndexCreate

LEMMA IndexResponse ==
    ASSUME WorkersOK, StoreOK, IndexInv,
           NEW n \in Node, NEW w \in Worker, CreateMessageResponse(n, w)
    PROVE  IndexInv'
<1> DEFINE p == <<n, wk[n][w].peer>>
           c == [ei |-> hs[p].chain.ei, er |-> FreshEph(n)]
<1>1. p \in Peer /\ p[1] = n
  BY WorkersLocal DEF CreateMessageResponse, LocalOK
<1>2. c \in Key
  <2>1. hs[p].chain \in Key
    BY <1>1 DEF CreateMessageResponse, StoreOK, ChainOK
  <2> QED BY <2>1, FreshEphType DEF Key
<1>3. "ResponseCreated" \in HandshakeState
  BY DEF HandshakeState
<1> HIDE DEF c
<1>4. PICK i \in FreeIndex(Delete(table[n], hs[p].localIndex)) :
         /\ table' = [table EXCEPT ![n] =
               [Delete(table[n], hs[p].localIndex) EXCEPT ![i] = HandshakeEntry(p)]]
         /\ hs' = [hs EXCEPT ![p] = WithIndex(hs[p], i, c, "ResponseCreated")]
  BY DEF CreateMessageResponse, c
<1>5. UNCHANGED kps
  BY DEF CreateMessageResponse
<1> HIDE DEF p
<1> QED BY <1>1, <1>2, <1>3, <1>4, <1>5, IndexCreate

LEMMA IndexBegin ==
    ASSUME StoreOK, IndexInv, NEW p \in Peer,
           BeginSymmetricSession(p)
    PROVE  IndexInv'
<1> DEFINE t == table[p[1]]
           li == hs[p].localIndex
           kp == DerivedKeypair(hs[p])
           rot == Rotate(kps[p], kp)
           u == DeleteKeypair(DeleteKeypair(SwapIndexForKeypair(t, li, kp), rot.dropped[1]),
                              rot.dropped[2])
<1>1. /\ Exact(p, t, li, kps[p]) /\ li \in AnyIndex /\ kps[p] \in Slots
      /\ t \in [Index -> Entry]
  BY PeerPair DEF IndexInv, StoreOK, Handshake, Slots
<1>2. kp \in Keypair /\ kp.localIndex = li
  BY BeginSession, DerivedKeypairType
<1>3. /\ hs' = [hs EXCEPT ![p] = Cleared(hs[p])]
      /\ kps' = [kps EXCEPT ![p] = rot.slots]
      /\ table' = [table EXCEPT ![p[1]] = u]
  BY BeginSession
<1>4. /\ hs'[p].localIndex = ZeroIndex /\ kps'[p] = rot.slots
      /\ \A q \in Peer : q # p => hs'[q].localIndex = hs[q].localIndex /\ kps'[q] = kps[q]
  BY <1>3, ClearedType DEF StoreOK
<1>5. Exact(p, u, ZeroIndex, rot.slots) /\ OthersKept(p, t, u)
  <2> HIDE DEF t, li, kp
  <2> QED BY <1>1, <1>2, RotateExact
<1> HIDE DEF u, rot
<1> QED BY <1>3, <1>4, <1>5, IndexFrame

LEMMA IndexZeroHandshake ==
    ASSUME StoreOK, IndexInv, NEW p \in Peer, ZeroHandshakeState(p)
    PROVE  IndexInv'
<1> DEFINE t == table[p[1]]
           li == hs[p].localIndex
           u == Delete(t, li)
<1>1. Exact(p, t, li, kps[p]) /\ li \in AnyIndex /\ kps[p] \in Slots
  BY PeerPair DEF IndexInv, StoreOK, Handshake, Slots
<1>2. Exact(p, u, ZeroIndex, kps[p]) /\ OthersKept(p, t, u)
  BY <1>1, DropHandshake
<1>3. table' = [table EXCEPT ![p[1]] = u] /\ UNCHANGED kps
      /\ hs' = [hs EXCEPT ![p] = Cleared(hs[p])]
  BY DEF ZeroHandshakeState
<1>4. /\ hs'[p].localIndex = ZeroIndex
      /\ \A q \in Peer : q # p => hs'[q].localIndex = hs[q].localIndex
  BY <1>3, ClearedType DEF StoreOK
<1> HIDE DEF u
<1> QED BY <1>2, <1>3, <1>4, IndexFrame

LEMMA IndexZeroKeypairs ==
    ASSUME StoreOK, IndexInv, NEW p \in Peer, ZeroKeypairs(p)
    PROVE  IndexInv'
<1> DEFINE t == table[p[1]]
           li == hs[p].localIndex
           k == kps[p]
           k1 == [k EXCEPT !["previous"] = None]
           k2 == [k1 EXCEPT !["current"] = None]
           k3 == [k2 EXCEPT !["next"] = None]
           t1 == DeleteKeypair(t, k["previous"])
           t2 == DeleteKeypair(t1, k["current"])
           t3 == DeleteKeypair(t2, k["next"])
<1>1. Exact(p, t, li, k) /\ li \in AnyIndex /\ k \in Slots
  BY PeerPair DEF IndexInv, StoreOK, Handshake, Slots
<1>2. table' = [table EXCEPT ![p[1]] = t3] /\ kps' = [kps EXCEPT ![p] = NoKeypairs]
      /\ UNCHANGED hs
  BY DEF ZeroKeypairs
<1>3. kps'[p] = NoKeypairs /\ \A q \in Peer : q # p => kps'[q] = kps[q]
  BY <1>2 DEF StoreOK
<1> HIDE DEF t, li, k
<1>4. /\ k1["previous"] = None /\ k1["current"] = k["current"] /\ k1["next"] = k["next"]
      /\ k2["previous"] = None /\ k2["current"] = None /\ k2["next"] = k["next"]
      /\ k3["previous"] = None /\ k3["current"] = None /\ k3["next"] = None
  BY <1>1 DEF Slots, Slot
<1>5. Exact(p, t1, li, k1) /\ OthersKept(p, t, t1) /\ k1 \in Slots
  BY <1>1, DropKeypair DEF Slot
<1> HIDE DEF k1, t1
<1>6. Exact(p, t2, li, k2) /\ OthersKept(p, t1, t2) /\ k2 \in Slots
  BY <1>1, <1>4, <1>5, DropKeypair DEF Slot
<1> HIDE DEF k2, t2
<1>7. Exact(p, t3, li, k3) /\ OthersKept(p, t2, t3) /\ k3 \in Slots
  BY <1>1, <1>4, <1>6, DropKeypair DEF Slot
<1> HIDE DEF k3, t3
<1>8. NoKeypairs \in Slots /\ \A s \in Slot : NoKeypairs[s] = k3[s]
  BY <1>4 DEF NoKeypairs, Slots, Slot
<1>9. Exact(p, t3, li, NoKeypairs)
  BY <1>7, <1>8, ShiftSlots
<1>10. OthersKept(p, t, t3)
  BY <1>5, <1>6, <1>7, KeptTransitive
<1> QED BY <1>2, <1>3, <1>9, <1>10, IndexFrame DEF t, li

LEMMA IndexRotate ==
    ASSUME StoreOK, IndexInv, NEW p \in Peer, ReceivedWithKeypair(p)
    PROVE  IndexInv'
<1> DEFINE t == table[p[1]]
           li == hs[p].localIndex
           k == kps[p]
           k1 == [k EXCEPT !["previous"] = None]
           l == [previous |-> k["current"], current |-> k["next"], next |-> None]
           t1 == DeleteKeypair(t, k["previous"])
<1>1. Exact(p, t, li, k) /\ li \in AnyIndex /\ k \in Slots
  BY PeerPair DEF IndexInv, StoreOK, Handshake, Slots
<1>2. UNCHANGED hs
  BY DEF ReceivedWithKeypair
<1>3. CASE k["next"] # rx[p]
  BY <1>2, <1>3, IndexUnchanged DEF ReceivedWithKeypair
<1>4. CASE k["next"] = rx[p]
  <2>1. table' = [table EXCEPT ![p[1]] = t1] /\ kps' = [kps EXCEPT ![p] = l]
    BY <1>4 DEF ReceivedWithKeypair
  <2>2. kps'[p] = l /\ \A q \in Peer : q # p => kps'[q] = kps[q]
    BY <2>1 DEF StoreOK
  <2> HIDE DEF t, li, k
  <2>3. k1["previous"] = None /\ k1["current"] = k["current"] /\ k1["next"] = k["next"]
    BY <1>1 DEF Slots, Slot
  <2>4. Exact(p, t1, li, k1) /\ OthersKept(p, t, t1) /\ k1 \in Slots
    BY <1>1, DropKeypair DEF Slot
  <2>5. /\ l \in Slots /\ l["next"] = None
        /\ l["previous"] = k["current"] /\ l["current"] = k["next"]
    BY <1>1 DEF Slots, Slot
  <2> HIDE DEF k1, l, t1
  <2>6. Exact(p, t1, li, l)
    BY <2>3, <2>4, <2>5, ShiftSlots
  <2> QED BY <1>2, <2>1, <2>2, <2>4, <2>6, IndexFrame DEF t, li
<1> QED BY <1>3, <1>4

-----------------------------------------------------------------------------
LEMMA IndexInit == Init => IndexInv
BY PeerPair DEF Init, IndexInv, Exact, ZeroHandshake, NoKeypairs, Slot

LEMMA IndexStep ==
    TypeInv /\ IndexInv /\ [Next]_vars => IndexInv'
<1> SUFFICES ASSUME WorkersOK, StoreOK, IndexInv, [Next]_vars PROVE IndexInv'
  BY TypeParts
<1>1. CASE UNCHANGED vars
  BY <1>1, IndexUnchanged DEF vars
<1>2. ASSUME NEW n \in Node, NEW w \in Worker, WorkerStep(n, w)
      PROVE  IndexInv'
  <2> DEFINE p == <<n, wk[n][w].peer>>
             m == wk[n][w].msg
  <2>1. LocalOK(n, wk[n][w])
    BY WorkersLocal
  <2>2. wk[n][w].pc # "idle" => p \in Peer
    BY <2>1 DEF LocalOK
  <2>3. CASE BeginResponder(n, w) \/ BeginInitiator(n, w)
    <3>1. p \in Peer /\ BeginSymmetricSession(p)
      BY <2>2, <2>3 DEF BeginResponder, BeginInitiator
    <3> HIDE DEF p
    <3> QED BY <3>1, IndexBegin
  <2>4. CASE CreateMessageResponse(n, w)
    BY <2>4, IndexResponse
  <2>5. CASE SendKeepalive(n, w)
    <3>1. p \in Peer /\ (SendTransport(p) \/ CreateMessageInitiation(p))
      BY <2>2, <2>5 DEF SendKeepalive
    <3> HIDE DEF p
    <3> QED BY <3>1, IndexInitiation, IndexUnchanged DEF SendTransport
  <2>6. CASE ConsumeMessageInitiation(n, w)
    <3>1. p \in Peer /\ m \in Message /\ UNCHANGED <<kps, table>>
          /\ hs' = [hs EXCEPT ![p] = WithInitiation(hs[p], m)]
      BY <2>1, <2>2, <2>6 DEF ConsumeMessageInitiation, LocalOK
    <3> HIDE DEF p, m
    <3>2. \A q \in Peer : hs'[q].localIndex = hs[q].localIndex
      BY <3>1, WithInitiationType DEF StoreOK
    <3> QED BY <3>1, <3>2, IndexUnchanged
  <2>7. CASE ConsumeMessageResponse(n, w)
    <3>1. p \in Peer /\ m \in Message /\ UNCHANGED <<kps, table>>
          /\ hs' = [hs EXCEPT ![p] = WithResponse(hs[p], m)]
      BY <2>1, <2>2, <2>7 DEF ConsumeMessageResponse, LocalOK
    <3> HIDE DEF p, m
    <3>2. \A q \in Peer : hs'[q].localIndex = hs[q].localIndex
      BY <3>1, WithResponseType DEF StoreOK
    <3> QED BY <3>1, <3>2, IndexUnchanged
  <2>8. CASE UNCHANGED <<hs, kps, table>>
    BY <2>8, IndexUnchanged
  <2> QED BY <1>2, <2>3, <2>4, <2>5, <2>6, <2>7, <2>8
          DEF WorkerStep, ReceiveInitiation, CreateMessageResponseFails, ReceiveResponse,
              BeginSymmetricSessionFails, SendKeepaliveTooSoon
<1>3. ASSUME NEW p \in Peer, PeerStep(p)
      PROVE  IndexInv'
  <2>1. CASE UNCHANGED <<hs, kps, table>>
    BY <2>1, IndexUnchanged
  <2> QED BY <1>3, <2>1, IndexInitiation, IndexRotate, IndexZeroKeypairs, IndexZeroHandshake
          DEF PeerStep, SendHandshakeInitiation, SendStagedPackets, SendTransport, ReceiveTransport
<1> QED BY <1>1, <1>2, <1>3, NextSteps

LEMMA IndexInvImplies ==
    TypeInv /\ IndexInv
             => NoStaleEntry /\ IndicesResolve
<1> SUFFICES ASSUME TypeInv, IndexInv
             PROVE  NoStaleEntry /\ IndicesResolve
  OBVIOUS
<1>1. HandshakeIndexResolves
  BY DEF IndexInv, Exact, HandshakeIndexResolves
<1>2. KeypairIndexResolves
  BY DEF IndexInv, Exact, KeypairIndexResolves
<1>3. NoStaleEntry
  <2> SUFFICES ASSUME NEW n \in Node, NEW i \in Assigned, table[n][i] # NoEntry
               PROVE  LET e == table[n][i]
                          p == <<n, e.peer>>
                      IN  /\ p \in Peer
                          /\ \/ e = HandshakeEntry(p) /\ hs[p].localIndex = i
                             \/ \E s \in Slot :
                                  /\ kps[p][s] # None
                                  /\ e = KeypairEntry(p, kps[p][s])
                                  /\ kps[p][s].localIndex = i
    BY DEF NoStaleEntry
  <2> DEFINE p == <<n, table[n][i].peer>>
  <2>1. p \in Peer
    BY DEF TypeInv, EntryOK
  <2>2. p[1] = n /\ p[2] = table[n][i].peer
    OBVIOUS
  <2> HIDE DEF p
  <2>3. Exact(p, table[n], hs[p].localIndex, kps[p])
    BY <2>1, <2>2 DEF IndexInv
  <2>4. \/ hs[p].localIndex = i /\ table[n][i] = HandshakeEntry(p)
        \/ \E s \in Slot : /\ kps[p][s] # None /\ kps[p][s].localIndex = i
                           /\ table[n][i] = KeypairEntry(p, kps[p][s])
    BY <2>2, <2>3 DEF Exact
  <2> QED BY <2>1, <2>4 DEF p
<1> QED BY <1>1, <1>2, <1>3 DEF IndicesResolve

\* Every interleaving of handshake workers, timers and the sequential receiver
\* keeps the index table exact at every index but 0: no entry outlives its
\* handshake or keypair, and no Delete takes the entry of another.
THEOREM IndexTableExact == Spec => [](NoStaleEntry /\ IndicesResolve)
<1>1. Spec => []IndexInv
  BY IndexInit, IndexStep, TypeAlways, PTL DEF Spec
<1> QED BY <1>1, IndexInvImplies, TypeAlways, PTL
=============================================================================
