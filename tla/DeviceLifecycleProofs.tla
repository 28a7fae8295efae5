------------------------ MODULE DeviceLifecycleProofs ------------------------
(***************************************************************************)
(* The five safety properties of DeviceLifecycle, for any number of        *)
(* callers, peers, workers, operations and packets.                        *)
(*                                                                         *)
(* The invariant has one part for the mutexes (which program counters own  *)
(* which), one for what a caller knows at each of its steps about the      *)
(* state, the receive routine, the key map and the peers, because of the   *)
(* mutexes it owns, and one for the references to the queues.              *)
(***************************************************************************)
EXTENDS DeviceLifecycle, FiniteSetTheorems, TLAPS

-----------------------------------------------------------------------------
(* Calls and the mutexes they own *)

Op == {"none", "Up", "Down", "Close", "Add", "Remove", "ListenPort", "BindUpdate"}

Bind == {"bindLock", "bindOpen", "bindStart"}
Raise == {"upPeers", "upStart", "upKeepalive"}
Lower == {"bindClose", "bindCloseWait", "downPeers", "downStop"}
Change == {"lockPeers", "awaitPeers", "removeStop"}
Post == {"postConfig", "postStart", "postStartLocked", "postSend"}

Pc == {"idle", "lockState", "closeLockIpc", "upLockIpc", "closeWait", "lockIpc"}
        \cup Bind \cup Raise \cup Lower \cup Change \cup Post

\* Where each operation passes.
Path(op, pc) ==
    /\ op = "none" => pc = "idle"
    /\ op = "Up" => pc \in {"lockState", "upLockIpc"} \cup Bind \cup Raise \cup Lower
    /\ op = "Down" => pc \in {"lockState"} \cup Lower
    /\ op = "Close" => pc \in {"lockState", "closeLockIpc", "closeWait"} \cup Lower \cup Change
    /\ op = "Add" => pc \in {"lockIpc", "lockPeers", "awaitPeers"} \cup Post
    /\ op = "Remove" => pc \in {"lockIpc"} \cup Change
    /\ op = "ListenPort" => pc \in {"lockIpc"} \cup Bind
    /\ op = "BindUpdate" => pc \in Bind

Call == {k \in [op : Op, arg : Peer \cup {None}, pc : Pc, todo : SUBSET Peer] :
            /\ Path(k.op, k.pc)
            /\ IF k.op \in {"Add", "Remove"} THEN k.arg \in Peer ELSE k.arg = None}

HoldsState(k) ==
    \/ k.pc \in Lower \cup Raise \cup {"closeLockIpc", "upLockIpc", "closeWait"}
    \/ k.op = "Up" /\ k.pc \in Bind
    \/ k.op = "Close" /\ k.pc \in Change
HoldsIpc(k) ==
    \/ k.pc \in Raise \cup Change \cup Post \cup {"closeWait"}
    \/ k.op = "Close" /\ k.pc \in Lower
    \/ k.op = "ListenPort" /\ k.pc \in Bind
HoldsNet(k) == k.pc \in {"bindOpen", "bindStart", "bindCloseWait"}
WritesPeers(k) == k.pc \in {"awaitPeers", "removeStop"}
ReadsPeers(k) == k.pc \in {"upStart", "upKeepalive", "downStop"}

Mutexes == [state : Caller \cup {None}, ipc : Caller \cup {None}, net : Caller \cup {None}]
PeersLock == [w : Caller \cup {None}, r : SUBSET Caller]

LockTypes ==
    /\ mu \in Mutexes
    /\ peers \in PeersLock
    /\ caller \in [Caller -> Call]

Owns(c, k, m, ps) ==
    /\ m.state = c <=> HoldsState(k)
    /\ m.ipc = c <=> HoldsIpc(k)
    /\ m.net = c <=> HoldsNet(k)
    /\ ps.w = c <=> WritesPeers(k)
    /\ c \in ps.r <=> ReadsPeers(k)

LockInv ==
    /\ LockTypes
    /\ \A c \in Caller : Owns(c, caller[c], mu, peers)
    /\ \A c \in Caller : caller[c].pc = "removeStop" => peers.r = {}

-----------------------------------------------------------------------------
(* What holds where *)

DevTypes ==
    /\ state \in {"down", "up", "closed"} /\ keyMap \subseteq Peer /\ closed \in BOOLEAN
    /\ io \in IO

\* The state that a caller which owns its mutex has set.
StateOK(k, st, cl) ==
    /\ k.op = "Up" /\ k.pc \in Bind \cup Raise \cup {"upLockIpc"} => st = "up"
    /\ k.op \in {"Up", "Down"} /\ k.pc \in Lower => st = "down"
    /\ k.op = "Close" /\ k.pc \notin {"lockState", "closeLockIpc"} => st = "closed"
    /\ cl => k.pc \in {"idle", "lockState", "lockIpc", "closeLockIpc", "bindLock", "bindOpen"}

StateInv ==
    /\ closed => state = "closed"
    /\ \A c \in Caller : StateOK(caller[c], state, closed)

\* Close has waited for the receive routine.
NoMoreReceive(k) == k.op = "Close" /\ k.pc \in {"downPeers", "downStop", "closeWait"} \cup Change

ReceiveInv ==
    /\ \A c \in Caller : caller[c].pc = "bindStart" => io.recv = "off"
    /\ state # "up" /\ io.recv # "off" => mu.net # None \/ \E c \in Caller : At(c, "bindClose")
    /\ state # "up" /\ (\E c \in Caller : At(c, "bindStart")) => \E c \in Caller : At(c, "bindClose")
    /\ closed \/ (\E c \in Caller : NoMoreReceive(caller[c])) =>
         io.recv = "off" /\ \A c \in Caller : ~At(c, "bindStart")
    /\ closed => io.reader = "off"

Stopped(p) == ~peer[p].running /\ peer[p].stopAt = "no"
StoppedPeers == {p \in Peer : Stopped(p)}

\* Peer p with the variables r, while callers are at cs.
PeerOK(p, r, cs) ==
    /\ r \in PeerState
    /\ ~r.running /\ r.stopAt = "no" => r.sender = "off" /\ r.receiver = "off"
    /\ r.stopAt # "no" => ~r.running /\ r.mu \in Caller
    /\ r.mu \in Caller => /\ r.stopAt # "no"
                          /\ p \in cs[r.mu].todo /\ cs[r.mu].pc \in {"downStop", "removeStop"}

PeerInv ==
    /\ peer = [p \in Peer |-> peer[p]]
    /\ \A p \in Peer : PeerOK(p, peer[p], caller)
    /\ Peer \ keyMap \subseteq StoppedPeers

\* What a caller relies on: the key map does not change behind its back, and
\* no peer that it has stopped is started.
KeyOK(k, km, stopped) ==
    /\ k.op = "Add" /\ k.pc \in {"lockPeers", "awaitPeers"} => k.arg \notin km
    /\ k.pc \in Post => k.arg \in km
    /\ k.pc \in {"upStart", "upKeepalive"} => k.todo \subseteq km
    /\ k.pc = "removeStop" /\ k.op = "Remove" => k.arg \in k.todo \cup stopped
    /\ k.pc = "removeStop" /\ k.op = "Close" => Peer \subseteq k.todo \cup stopped

KeyInv == \A c \in Caller : KeyOK(caller[c], keyMap, StoppedPeers)

ReleasedInv == Released => keyMap = {} /\ \A p \in Peer : Stopped(p)

WorkerInv ==
    /\ worker \in [Worker -> [pc : {"off", "idle", "lookup", "handle", "arm", "send"},
                              peer : Peer \cup {None}]]
    /\ \A w \in Worker : worker[w].pc \in {"handle", "arm", "send"} => worker[w].peer \in Peer

QueueInv ==
    /\ refs \in [Queue -> Int] /\ open \in [Queue -> BOOLEAN]
    /\ RefsExact
    /\ \A q \in Queue : ~open[q] => refs[q] = 0

Inv ==
    /\ LockInv /\ DevTypes /\ StateInv /\ ReceiveInv /\ PeerInv /\ KeyInv /\ ReleasedInv
    /\ WorkerInv /\ QueueInv

-----------------------------------------------------------------------------
(* Parts that a step leaves alone *)

LEMMA LockKept ==
    ASSUME LockInv, UNCHANGED <<caller, mu, peers>>
    PROVE  LockInv'
BY DEF LockInv, LockTypes

LEMMA StateKept ==
    ASSUME StateInv, UNCHANGED <<caller, state, closed>>
    PROVE  StateInv'
BY DEF StateInv

LEMMA ReceiveKept ==
    ASSUME ReceiveInv, UNCHANGED <<caller, mu, state, closed>>,
           io'.recv # "off" => io.recv # "off", io'.reader # "off" => io.reader # "off"
    PROVE  ReceiveInv'
BY DEF ReceiveInv, At

LEMMA KeyKept ==
    ASSUME KeyInv, ReleasedInv, UNCHANGED <<caller, keyMap, closed>>,
           StoppedPeers' = StoppedPeers
    PROVE  KeyInv' /\ ReleasedInv'
<1>1. KeyInv'
  BY DEF KeyInv
<1>2. Released' = Released
  BY DEF Released, At
<1>3. ReleasedInv'
  BY <1>2 DEF ReleasedInv, StoppedPeers
<1> QED BY <1>1, <1>3

\* The references that are counted do not change.
LEMMA QueueKept ==
    ASSUME QueueInv, UNCHANGED <<refs, open>>, Released' = Released,
           io'.recv # "off" <=> io.recv # "off", io'.reader # "off" <=> io.reader # "off",
           \A w \in Worker : worker'[w].pc # "off" <=> worker[w].pc # "off",
           StoppedPeers' = StoppedPeers, PeerInv, PeerInv'
    PROVE  QueueInv'
<1>1. {w \in Worker : worker'[w].pc # "off"} = {w \in Worker : worker[w].pc # "off"}
  OBVIOUS
<1>2. \A p \in Peer : /\ (peer[p].running \/ peer[p].stopAt # "no") <=> p \notin StoppedPeers
                      /\ (peer'[p].running \/ peer'[p].stopAt # "no") <=> p \notin StoppedPeers'
  BY DEF StoppedPeers, Stopped, PeerInv, PeerOK, PeerState
<1>3. {p \in Peer : peer'[p].running \/ peer'[p].stopAt # "no"}
        = {p \in Peer : peer[p].running \/ peer[p].stopAt # "no"}
  BY <1>2
<1>4. RefsExact'
  BY <1>1, <1>3 DEF QueueInv, RefsExact, Count
<1> QED BY <1>4 DEF QueueInv

\* A goroutine of peer p, or somebody else, changes nothing of it that Start
\* and Stop look at, and starts no routine.
SameRun(r, s) ==
    /\ s \in PeerState /\ s.running = r.running /\ s.mu = r.mu
    /\ s.stopAt = "no" <=> r.stopAt = "no"
    /\ s.sender # "off" => r.sender # "off"
    /\ s.receiver # "off" => r.receiver # "off"

LEMMA PeerKept ==
    ASSUME PeerInv, UNCHANGED <<caller, keyMap>>, NEW p \in Peer, NEW s, SameRun(peer[p], s),
           peer' = [peer EXCEPT ![p] = s]
    PROVE  PeerInv' /\ StoppedPeers' = StoppedPeers
<1>1. \A q \in Peer : peer'[q] = IF q = p THEN s ELSE peer[q]
  BY DEF PeerInv
<1>2. StoppedPeers' = StoppedPeers
  BY <1>1 DEF StoppedPeers, Stopped, SameRun
<1>3. \A q \in Peer : PeerOK(q, peer'[q], caller')
  BY <1>1 DEF PeerInv, PeerOK, SameRun
<1>4. peer' = [q \in Peer |-> peer'[q]]
  BY DEF PeerInv
<1> QED BY <1>2, <1>3, <1>4 DEF PeerInv

LEMMA PeersUnchanged ==
    ASSUME PeerInv, UNCHANGED <<caller, keyMap, peer>>
    PROVE  PeerInv' /\ StoppedPeers' = StoppedPeers
BY DEF PeerInv, StoppedPeers, Stopped

\* A goroutine that works for a peer.
LEMMA PeerStepInv ==
    ASSUME Inv, NEW p \in Peer, NEW s, SameRun(peer[p], s), peer' = [peer EXCEPT ![p] = s],
           UNCHANGED <<dev, caller, queues>>, io' \in IO, WorkerInv',
           io'.recv # "off" <=> io.recv # "off", io'.reader # "off" <=> io.reader # "off",
           \A w \in Worker : worker'[w].pc # "off" <=> worker[w].pc # "off"
    PROVE  Inv'
<1> USE DEF Inv, dev, queues
<1>1. PeerInv' /\ StoppedPeers' = StoppedPeers
  BY PeerKept
<1>2. LockInv' /\ StateInv' /\ ReceiveInv' /\ KeyInv' /\ ReleasedInv'
  BY <1>1, LockKept, StateKept, ReceiveKept, KeyKept
<1>3. DevTypes' /\ Released' = Released
  BY DEF DevTypes, Released, At
<1>4. QueueInv'
  BY <1>1, <1>3, QueueKept
<1> QED BY <1>1, <1>2, <1>3, <1>4

\* The goroutines of a peer and its timers, which look at nothing else.
LEMMA PeerOnlyInv ==
    ASSUME Inv, NEW p \in Peer, NEW s, SameRun(peer[p], s), peer' = [peer EXCEPT ![p] = s],
           UNCHANGED <<dev, caller, io, worker, queues>>
    PROVE  Inv'
<1>1. io' \in IO /\ WorkerInv'
  BY DEF Inv, DevTypes, WorkerInv
<1> QED BY <1>1, PeerStepInv

-----------------------------------------------------------------------------
(* Steps of a caller between two mutexes *)

\* Nothing changes for the others.
OthersKept(c, m, n, ps, qs) ==
    \A d \in Caller \ {c} :
        /\ n.state = d <=> m.state = d
        /\ n.ipc = d <=> m.ipc = d
        /\ n.net = d <=> m.net = d
        /\ qs.w = d <=> ps.w = d
        /\ d \in qs.r <=> d \in ps.r

LEMMA LockStep ==
    ASSUME LockInv, NEW c \in Caller, NEW k \in Call, caller' = [caller EXCEPT ![c] = k],
           mu' \in Mutexes,
           peers' \in PeersLock,
           Owns(c, k, mu', peers'), OthersKept(c, mu, mu', peers, peers'),
           k.pc = "removeStop" => peers'.r = {},
           ReadsPeers(k) /\ ~ReadsPeers(caller[c]) => peers.w = None
    PROVE  LockInv'
<1>1. caller' \in [Caller -> Call] /\ \A d \in Caller : caller'[d] = IF d = c THEN k ELSE caller[d]
  BY DEF LockInv, LockTypes
<1>2. \A d \in Caller : Owns(d, caller'[d], mu', peers')
  BY <1>1 DEF LockInv, Owns, OthersKept
<1>3. ASSUME NEW d \in Caller, caller'[d].pc = "removeStop" PROVE peers'.r = {}
  <2>1. CASE d = c
    BY <1>1, <1>3, <2>1
  <2>2. CASE d # c
    <3>1. caller[d].pc = "removeStop" /\ peers.r = {} /\ peers.w = d
      BY <1>1, <1>3, <2>2 DEF LockInv, Owns, WritesPeers
    <3>2. ~ReadsPeers(caller[c]) /\ ~ReadsPeers(k)
      BY <3>1, SetsAssumption DEF LockInv, Owns
    <3>3. \A e \in Caller : e \notin peers'.r
      BY <1>2, <3>1, <3>2 DEF OthersKept, Owns
    <3> QED BY <3>3 DEF PeersLock
  <2> QED BY <2>1, <2>2
<1> QED BY <1>1, <1>2, <1>3 DEF LockInv, LockTypes

LEMMA Others ==
    ASSUME LockInv, NEW c \in Caller, NEW k \in Call, caller' = [caller EXCEPT ![c] = k]
    PROVE  \A d \in Caller : caller'[d] = IF d = c THEN k ELSE caller[d]
BY DEF LockInv, LockTypes

LEMMA StateStep ==
    ASSUME LockInv, StateInv, NEW c \in Caller, NEW k \in Call, caller' = [caller EXCEPT ![c] = k],
           UNCHANGED <<state, closed>>, StateOK(k, state, closed)
    PROVE  StateInv'
BY Others DEF StateInv

\* The owner of the state mutex sets the state.
LEMMA StateChange ==
    ASSUME LockInv, StateInv, NEW c \in Caller, NEW k \in Call, caller' = [caller EXCEPT ![c] = k],
           ~closed, ~closed', mu.state \in {c, None}, StateOK(k, state', FALSE)
    PROVE  StateInv'
<1>1. ASSUME NEW d \in Caller \ {c} PROVE StateOK(caller[d], state', FALSE)
  <2>1. ~HoldsState(caller[d]) /\ caller[d] \in Call
    BY SetsAssumption DEF LockInv, LockTypes, Owns
  <2>2. Path(caller[d].op, caller[d].pc)
    BY <2>1 DEF Call
  <2> QED BY <2>1, <2>2 DEF StateOK, HoldsState, Path, Bind, Raise, Lower, Change
<1>2. \A d \in Caller : caller'[d] = IF d = c THEN k ELSE caller[d]
  BY DEF LockInv, LockTypes
<1>3. \A d \in Caller : StateOK(caller'[d], state', closed')
  BY <1>1, <1>2 DEF StateOK
<1> QED BY <1>3 DEF StateInv

LEMMA KeyStep ==
    ASSUME LockInv, KeyInv, ReleasedInv, NEW c \in Caller, NEW k \in Call,
           caller' = [caller EXCEPT ![c] = k], UNCHANGED <<keyMap, closed>>,
           StoppedPeers' = StoppedPeers, KeyOK(k, keyMap, StoppedPeers),
           k.pc = "closeWait" <=> caller[c].pc = "closeWait"
    PROVE  KeyInv' /\ ReleasedInv' /\ Released' = Released
<1>1. KeyInv'
  BY Others DEF KeyInv
<1>2. Released' = Released
  BY Others DEF Released, At
<1>3. ReleasedInv'
  BY <1>2 DEF ReleasedInv, StoppedPeers
<1> QED BY <1>1, <1>2, <1>3

LEMMA PeerStep ==
    ASSUME LockInv, PeerInv, NEW c \in Caller, NEW k \in Call, caller' = [caller EXCEPT ![c] = k],
           UNCHANGED <<peer, keyMap>>,
           \A p \in Peer : peer[p].mu = c => p \in k.todo /\ k.pc \in {"downStop", "removeStop"}
    PROVE  PeerInv' /\ StoppedPeers' = StoppedPeers
<1>1. ASSUME NEW p \in Peer PROVE PeerOK(p, peer[p], caller')
  BY Others DEF PeerInv, PeerOK
<1> QED BY <1>1 DEF PeerInv, StoppedPeers, Stopped

\* Callers at these points have to do with the receive routine or with the
\* references that Close gives up.
NetPc == {"bindOpen", "bindStart", "bindClose", "bindCloseWait", "closeWait"}

LEMMA ReceiveMoves ==
    ASSUME LockInv, ReceiveInv, NEW c \in Caller, NEW k \in Call, caller' = [caller EXCEPT ![c] = k],
           UNCHANGED <<state, closed>>, mu'.net = mu.net,
           io'.recv # "off" => io.recv # "off", io'.reader # "off" => io.reader # "off",
           caller[c].pc \notin NetPc, k.pc \notin NetPc,
           NoMoreReceive(k) => NoMoreReceive(caller[c])
    PROVE  ReceiveInv'
<1>1. \A d \in Caller : caller'[d] = IF d = c THEN k ELSE caller[d]
  BY DEF LockInv, LockTypes
<1>2. \A d \in Caller : /\ At(d, "bindStart")' <=> At(d, "bindStart")
                        /\ At(d, "bindClose")' <=> At(d, "bindClose")
                        /\ NoMoreReceive(caller'[d]) => NoMoreReceive(caller[d])
  BY <1>1 DEF At, NetPc
<1>3. state' = state /\ closed' = closed /\ mu'.net = mu.net
  OBVIOUS
<1>4. (\E d \in Caller : At(d, "bindStart")') <=> \E d \in Caller : At(d, "bindStart")
  BY <1>2
<1>5. (\E d \in Caller : At(d, "bindClose")') <=> \E d \in Caller : At(d, "bindClose")
  BY <1>2
<1>6. (\E d \in Caller : NoMoreReceive(caller'[d])) => \E d \in Caller : NoMoreReceive(caller[d])
  BY <1>2
<1>7. \A d \in Caller : caller'[d].pc = "bindStart" => io'.recv = "off"
  BY <1>2, <1>3 DEF ReceiveInv, At
<1>8. closed' \/ (\E d \in Caller : NoMoreReceive(caller'[d])) =>
        io'.recv = "off" /\ \A d \in Caller : ~At(d, "bindStart")'
  BY <1>2, <1>3, <1>6 DEF ReceiveInv
<1>9. state' # "up" /\ (\E d \in Caller : At(d, "bindStart")') => \E d \in Caller : At(d, "bindClose")'
  BY <1>3, <1>4, <1>5 DEF ReceiveInv
<1>10. state' # "up" /\ io'.recv # "off" => mu'.net # None \/ \E d \in Caller : At(d, "bindClose")'
  BY <1>3, <1>5 DEF ReceiveInv
<1>11. closed' => io'.reader = "off"
  BY <1>3 DEF ReceiveInv
<1> QED BY <1>7, <1>8, <1>9, <1>10, <1>11 DEF ReceiveInv

\* A caller moves on, and at most takes or gives up the mutexes state, ipc and
\* peers.
LEMMA Moves ==
    ASSUME Inv, NEW c \in Caller, NEW k \in Call, caller' = [caller EXCEPT ![c] = k],
           UNCHANGED <<state, keyMap, closed, peer, io, worker, queues>>,
           caller[c].pc \notin NetPc, k.pc \notin NetPc,
           mu' \in Mutexes,
           peers' \in PeersLock,
           mu'.net = mu.net,
           Owns(c, k, mu', peers'), OthersKept(c, mu, mu', peers, peers'),
           k.pc = "removeStop" => peers'.r = {},
           ReadsPeers(k) /\ ~ReadsPeers(caller[c]) => peers.w = None,
           StateOK(k, state, closed), KeyOK(k, keyMap, StoppedPeers),
           NoMoreReceive(k) => NoMoreReceive(caller[c]),
           \A p \in Peer : peer[p].mu = c => p \in k.todo /\ k.pc \in {"downStop", "removeStop"}
    PROVE  Inv'
<1> USE DEF Inv
<1>1. LockInv'
  BY LockStep
<1>2. StateInv'
  BY StateStep
<1>3. PeerInv' /\ StoppedPeers' = StoppedPeers
  BY PeerStep
<1>4. KeyInv' /\ ReleasedInv' /\ Released' = Released
  BY <1>3, KeyStep DEF NetPc
<1>5. ReceiveInv'
  BY ReceiveMoves
<1>6. DevTypes' /\ WorkerInv'
  BY DEF DevTypes, WorkerInv
<1>7. QueueInv'
  BY <1>3, <1>4, QueueKept DEF queues
<1> QED BY <1>1, <1>2, <1>3, <1>4, <1>5, <1>6, <1>7

-----------------------------------------------------------------------------
(* Records *)

LEMMA CallAt ==
    ASSUME LockInv, NEW c \in Caller
    PROVE  /\ caller[c] \in Call /\ Path(caller[c].op, caller[c].pc)
           /\ caller[c].op \in Op /\ caller[c].arg \in Peer \cup {None}
           /\ caller[c].todo \in SUBSET Peer
           /\ IF caller[c].op \in {"Add", "Remove"} THEN caller[c].arg \in Peer ELSE caller[c].arg = None
BY DEF LockInv, LockTypes, Call

LEMMA IdleIsCall ==
    /\ IdleCaller \in Call /\ IdleCaller.pc = "idle" /\ IdleCaller.op = "none"
    /\ IdleCaller.todo = {} /\ IdleCaller.arg = None
<1>1. IdleCaller \in [op : Op, arg : Peer \cup {None}, pc : Pc, todo : SUBSET Peer]
  BY DEF IdleCaller, Op, Pc
<1>2. /\ IdleCaller.pc = "idle" /\ IdleCaller.op = "none"
      /\ IdleCaller.todo = {} /\ IdleCaller.arg = None
  BY DEF IdleCaller
<1>3. Path(IdleCaller.op, IdleCaller.pc)
  BY <1>2 DEF Path
<1> QED BY <1>1, <1>2, <1>3 DEF Call

LEMMA PathInPc ==
    ASSUME NEW op \in Op, NEW pc, Path(op, pc)
    PROVE  pc \in Pc
<1>1. CASE op = "none"
  BY <1>1 DEF Path, Pc
<1>2. CASE op = "Up"
  BY <1>2 DEF Path, Pc
<1>3. CASE op = "Down"
  BY <1>3 DEF Path, Pc
<1>4. CASE op = "Close"
  BY <1>4 DEF Path, Pc
<1>5. CASE op = "Add"
  BY <1>5 DEF Path, Pc, Change
<1>6. CASE op = "Remove"
  BY <1>6 DEF Path, Pc
<1>7. CASE op = "ListenPort"
  BY <1>7 DEF Path, Pc
<1>8. CASE op = "BindUpdate"
  BY <1>8 DEF Path, Pc
<1> QED BY <1>1, <1>2, <1>3, <1>4, <1>5, <1>6, <1>7, <1>8 DEF Op

LEMMA GotoCall ==
    ASSUME LockInv, NEW c \in Caller, NEW pc, Goto(c, pc), Path(caller[c].op, pc)
    PROVE  \E k \in Call : /\ caller' = [caller EXCEPT ![c] = k]
                           /\ k.pc = pc /\ k.op = caller[c].op /\ k.arg = caller[c].arg
                           /\ k.todo = caller[c].todo
<1> DEFINE k == [caller[c] EXCEPT !.pc = pc]
<1>0. pc \in Pc
  BY CallAt, PathInPc
<1>1. /\ k \in Call /\ k.pc = pc /\ k.op = caller[c].op /\ k.arg = caller[c].arg
      /\ k.todo = caller[c].todo
  BY <1>0, CallAt DEF Call
<1>2. caller' = [caller EXCEPT ![c] = k]
  BY DEF Goto, LockInv, LockTypes
<1> HIDE DEF k
<1> QED BY <1>1, <1>2

LEMMA GotoWithCall ==
    ASSUME LockInv, NEW c \in Caller, NEW pc, NEW todo \in SUBSET Peer,
           GotoWith(c, pc, todo), Path(caller[c].op, pc)
    PROVE  \E k \in Call : /\ caller' = [caller EXCEPT ![c] = k]
                           /\ k.pc = pc /\ k.op = caller[c].op /\ k.arg = caller[c].arg
                           /\ k.todo = todo
<1> DEFINE k == [caller[c] EXCEPT !.pc = pc, !.todo = todo]
<1>0. pc \in Pc
  BY CallAt, PathInPc
<1>1. /\ k \in Call /\ k.pc = pc /\ k.op = caller[c].op /\ k.arg = caller[c].arg
      /\ k.todo = todo
  BY <1>0, CallAt DEF Call
<1>2. caller' = [caller EXCEPT ![c] = k]
  BY DEF GotoWith, LockInv, LockTypes
<1> HIDE DEF k
<1> QED BY <1>1, <1>2

\* Return gives up what c owns and nothing else.
LEMMA ReturnMutexes ==
    ASSUME LockInv, NEW c \in Caller, Return(c)
    PROVE  /\ caller' = [caller EXCEPT ![c] = IdleCaller]
           /\ mu' \in Mutexes
           /\ mu'.state = IF mu.state = c THEN None ELSE mu.state
           /\ mu'.ipc = IF mu.ipc = c THEN None ELSE mu.ipc
           /\ mu'.net = IF mu.net = c THEN None ELSE mu.net
<1>1. DOMAIN mu = {"state", "ipc", "net"}
  BY DEF LockInv, LockTypes, Mutexes
<1>2. mu' = [m \in {"state", "ipc", "net"} |-> IF mu[m] = c THEN None ELSE mu[m]]
  BY <1>1 DEF Return
<1>3. mu.state \in Caller \cup {None} /\ mu.ipc \in Caller \cup {None} /\ mu.net \in Caller \cup {None}
  BY DEF LockInv, LockTypes, Mutexes
<1>4. /\ mu'.state = IF mu.state = c THEN None ELSE mu.state
      /\ mu'.ipc = IF mu.ipc = c THEN None ELSE mu.ipc
      /\ mu'.net = IF mu.net = c THEN None ELSE mu.net
  BY <1>2
<1>5. mu' \in Mutexes
  BY <1>2, <1>3 DEF Mutexes
<1> QED BY <1>4, <1>5 DEF Return

\* A caller returns from a point where it owns neither net nor the peers, and
\* stops nobody.
LEMMA Returns ==
    ASSUME Inv, NEW c \in Caller, Return(c),
           caller[c].pc \notin NetPc \cup {"downStop", "removeStop", "upStart", "upKeepalive", "awaitPeers"},
           UNCHANGED <<state, peers, keyMap, closed, peer, io, worker, queues>>
    PROVE  Inv'
<1>1. /\ caller' = [caller EXCEPT ![c] = IdleCaller]
      /\ mu' \in Mutexes
      /\ mu'.state = IF mu.state = c THEN None ELSE mu.state
      /\ mu'.ipc = IF mu.ipc = c THEN None ELSE mu.ipc
      /\ mu'.net = IF mu.net = c THEN None ELSE mu.net
  BY ReturnMutexes DEF Inv
<1>2. Owns(c, caller[c], mu, peers) /\ peers \in PeersLock
  BY DEF Inv, LockInv, LockTypes
<1>3. mu'.net = mu.net
  BY <1>1, <1>2 DEF Owns, HoldsNet, NetPc
<1>4. Owns(c, IdleCaller, mu', peers')
  BY <1>1, <1>2, IdleIsCall, SetsAssumption DEF Owns, HoldsState, HoldsIpc, HoldsNet, WritesPeers, ReadsPeers,
        NetPc, Lower, Raise, Change, Post, Bind
<1>5. OthersKept(c, mu, mu', peers, peers')
  BY <1>1, SetsAssumption DEF OthersKept
<1>6. StateOK(IdleCaller, state, closed) /\ KeyOK(IdleCaller, keyMap, StoppedPeers)
  BY IdleIsCall DEF StateOK, KeyOK, Lower, Bind, Raise, Post
<1>7. ~NoMoreReceive(IdleCaller) /\ ~ReadsPeers(IdleCaller)
  BY IdleIsCall DEF NoMoreReceive, ReadsPeers
<1>8. \A p \in Peer : peer[p].mu # c
  BY DEF Inv, PeerInv, PeerOK
<1> HIDE DEF Inv
<1> QED BY <1>1, <1>2, <1>3, <1>4, <1>5, <1>6, <1>7, <1>8, IdleIsCall, Moves DEF NetPc

\* c takes a mutex that is free.
LEMMA TakesMutex ==
    ASSUME LockInv, NEW c \in Caller
    PROVE  /\ mu' = [mu EXCEPT !.state = c] =>
                mu' \in Mutexes /\ mu'.state = c /\ mu'.ipc = mu.ipc /\ mu'.net = mu.net
           /\ mu' = [mu EXCEPT !.ipc = c] =>
                mu' \in Mutexes /\ mu'.state = mu.state /\ mu'.ipc = c /\ mu'.net = mu.net
           /\ mu' = [mu EXCEPT !.net = c] =>
                mu' \in Mutexes /\ mu'.state = mu.state /\ mu'.ipc = mu.ipc /\ mu'.net = c
           /\ mu' = [mu EXCEPT !.net = None] =>
                mu' \in Mutexes /\ mu'.state = mu.state /\ mu'.ipc = mu.ipc /\ mu'.net = None
<1>1. mu \in Mutexes
  BY DEF LockInv, LockTypes
<1> QED BY <1>1 DEF Mutexes

LEMMA TakesPeers ==
    ASSUME LockInv, NEW c \in Caller
    PROVE  /\ peers' = [peers EXCEPT !.w = c] =>
                peers' \in PeersLock /\ peers'.w = c /\ peers'.r = peers.r
           /\ peers' = [peers EXCEPT !.w = None] =>
                peers' \in PeersLock /\ peers'.w = None /\ peers'.r = peers.r
           /\ peers' = [peers EXCEPT !.r = @ \cup {c}] =>
                peers' \in PeersLock /\ peers'.w = peers.w /\ peers'.r = peers.r \cup {c}
           /\ peers' = [peers EXCEPT !.r = @ \ {c}] =>
                peers' \in PeersLock /\ peers'.w = peers.w /\ peers'.r = peers.r \ {c}
<1>1. peers \in PeersLock
  BY DEF LockInv, LockTypes
<1> QED BY <1>1 DEF PeersLock

\* What the invariant says of caller c.
LEMMA CallerFacts ==
    ASSUME Inv, NEW c \in Caller
    PROVE  /\ LockInv /\ mu \in Mutexes /\ peers \in PeersLock
           /\ caller[c] \in Call /\ Path(caller[c].op, caller[c].pc) /\ caller[c].op \in Op
           /\ Owns(c, caller[c], mu, peers)
           /\ StateOK(caller[c], state, closed) /\ KeyOK(caller[c], keyMap, StoppedPeers)
           /\ caller[c].todo \in SUBSET Peer
           /\ caller[c].pc \notin {"downStop", "removeStop"} => \A p \in Peer : peer[p].mu # c
<1>1. LockInv /\ StateOK(caller[c], state, closed) /\ KeyOK(caller[c], keyMap, StoppedPeers)
  BY DEF Inv, StateInv, KeyInv
<1>2. caller[c].pc \notin {"downStop", "removeStop"} => \A p \in Peer : peer[p].mu # c
  BY DEF Inv, PeerInv, PeerOK
<1> QED BY <1>1, <1>2, CallAt DEF LockInv, LockTypes

LEMMA CloseLockStateInv ==
    ASSUME Inv, NEW c \in Caller, CloseLockState(c)
    PROVE  Inv'
<1>1. caller[c].pc = "lockState" /\ caller[c].op = "Close" /\ mu.state = None
  BY DEF CloseLockState, At
<1>2. PICK k \in Call : /\ caller' = [caller EXCEPT ![c] = k] /\ k.pc = "closeLockIpc"
                        /\ k.op = "Close" /\ k.arg = caller[c].arg /\ k.todo = caller[c].todo
  BY <1>1, GotoCall, CallerFacts DEF CloseLockState, Path
<1>3. mu' \in Mutexes /\ mu'.state = c /\ mu'.ipc = mu.ipc /\ mu'.net = mu.net
  BY TakesMutex, CallerFacts DEF CloseLockState
<1>4. Owns(c, k, mu', peers')
  BY <1>1, <1>2, <1>3, CallerFacts DEF CloseLockState, Owns, HoldsState, HoldsIpc, HoldsNet,
     WritesPeers, ReadsPeers, Lower, Raise, Bind, Change, Post
<1>5. OthersKept(c, mu, mu', peers, peers')
  BY <1>1, <1>3, SetsAssumption DEF OthersKept, CloseLockState
<1>6. StateOK(k, state, closed) /\ KeyOK(k, keyMap, StoppedPeers) /\ ~NoMoreReceive(k) /\ ~ReadsPeers(k)
  BY <1>2 DEF StateOK, KeyOK, Lower, Raise, Bind, Change, Post, NoMoreReceive, ReadsPeers
<1> QED BY <1>1, <1>2, <1>3, <1>4, <1>5, <1>6, CallerFacts, Moves DEF NetPc, CloseLockState

LEMMA UpLockIpcInv ==
    ASSUME Inv, NEW c \in Caller, UpLockIpc(c)
    PROVE  Inv'
<1>1. caller[c].pc = "upLockIpc" /\ caller[c].op = "Up" /\ mu.ipc = None
  BY CallerFacts DEF UpLockIpc, At, Path, Op, Lower, Raise, Bind, Change, Post
<1>2. PICK k \in Call : /\ caller' = [caller EXCEPT ![c] = k] /\ k.pc = "upPeers"
                        /\ k.op = "Up" /\ k.arg = caller[c].arg /\ k.todo = caller[c].todo
  BY <1>1, GotoCall, CallerFacts DEF UpLockIpc, Path, Raise
<1>3. mu' \in Mutexes /\ mu'.state = mu.state /\ mu'.ipc = c /\ mu'.net = mu.net
  BY TakesMutex, CallerFacts DEF UpLockIpc
<1>4. Owns(c, k, mu', peers')
  BY <1>1, <1>2, <1>3, CallerFacts DEF UpLockIpc, Owns, HoldsState, HoldsIpc, HoldsNet,
     WritesPeers, ReadsPeers, Lower, Raise, Bind, Change, Post
<1>5. OthersKept(c, mu, mu', peers, peers')
  BY <1>1, <1>3, SetsAssumption DEF OthersKept, UpLockIpc
<1>6. StateOK(k, state, closed) /\ KeyOK(k, keyMap, StoppedPeers) /\ ~NoMoreReceive(k) /\ ~ReadsPeers(k)
  BY <1>1, <1>2, CallerFacts DEF StateOK, KeyOK, Lower, Raise, Bind, Change, Post, NoMoreReceive, ReadsPeers
<1> QED BY <1>1, <1>2, <1>3, <1>4, <1>5, <1>6, CallerFacts, Moves DEF NetPc, UpLockIpc

LEMMA ReadLockPeersInv ==
    ASSUME Inv, NEW c \in Caller, ReadLockPeers(c)
    PROVE  Inv'
<1> DEFINE pc == IF At(c, "upPeers") THEN "upStart" ELSE "downStop"
<1>1. /\ caller[c].pc \in {"upPeers", "downPeers"} /\ peers.w = None
      /\ pc = IF caller[c].pc = "upPeers" THEN "upStart" ELSE "downStop"
  BY DEF ReadLockPeers, At, PeersReadable
<1>2. Path(caller[c].op, pc) /\ keyMap \in SUBSET Peer
  BY <1>1, CallerFacts DEF Path, Op, Lower, Raise, Bind, Change, Post, Inv, DevTypes
<1>3. GotoWith(c, pc, keyMap)
  BY DEF ReadLockPeers
<1> HIDE DEF pc
<1>4. PICK k \in Call : /\ caller' = [caller EXCEPT ![c] = k] /\ k.pc = pc
                        /\ k.op = caller[c].op /\ k.arg = caller[c].arg /\ k.todo = keyMap
  BY <1>2, <1>3, GotoWithCall, CallerFacts
<1>5. peers' \in PeersLock /\ peers'.w = peers.w /\ peers'.r = peers.r \cup {c}
  BY TakesPeers, CallerFacts DEF ReadLockPeers
<1>6. Owns(c, k, mu', peers')
  BY <1>1, <1>4, <1>5, CallerFacts DEF ReadLockPeers, Owns, HoldsState, HoldsIpc, HoldsNet,
     WritesPeers, ReadsPeers, Lower, Raise, Bind, Change, Post
<1>7. OthersKept(c, mu, mu', peers, peers')
  BY <1>5, SetsAssumption DEF OthersKept, ReadLockPeers
<1>8. StateOK(k, state, closed) /\ KeyOK(k, keyMap, StoppedPeers)
  BY <1>1, <1>4, CallerFacts DEF StateOK, KeyOK, Lower, Raise, Bind, Change, Post
<1>9. NoMoreReceive(k) => NoMoreReceive(caller[c])
  BY <1>1, <1>4, CallerFacts DEF NoMoreReceive, Change, Path, Raise
<1>10. /\ caller[c].pc \notin NetPc /\ k.pc \notin NetPc /\ k.pc # "removeStop"
       /\ \A p \in Peer : peer[p].mu # c
  BY <1>1, <1>4, CallerFacts DEF NetPc
<1> QED BY <1>1, <1>4, <1>5, <1>6, <1>7, <1>8, <1>9, <1>10, CallerFacts, Moves DEF ReadLockPeers

LEMMA UpKeepaliveInv ==
    ASSUME Inv, NEW c \in Caller, UpKeepalive(c)
    PROVE  Inv'
<1>1. caller[c].pc = "upKeepalive" /\ caller[c].op = "Up"
  BY CallerFacts DEF UpKeepalive, At, Path, Op, Lower, Raise, Bind, Change, Post
<1>2. PICK k \in Call : /\ caller' = [caller EXCEPT ![c] = k] /\ k.pc = "upStart"
                        /\ k.op = "Up" /\ k.arg = caller[c].arg /\ k.todo = caller[c].todo
  BY <1>1, GotoCall, CallerFacts DEF UpKeepalive, Path, Raise
<1>3. mu' = mu /\ peers' = peers
  BY DEF UpKeepalive, dev
<1>4. Owns(c, k, mu', peers')
  BY <1>1, <1>2, <1>3, CallerFacts DEF Owns, HoldsState, HoldsIpc, HoldsNet,
     WritesPeers, ReadsPeers, Lower, Raise, Bind, Change, Post
<1>5. OthersKept(c, mu, mu', peers, peers')
  BY <1>3 DEF OthersKept
<1>6. StateOK(k, state, closed) /\ KeyOK(k, keyMap, StoppedPeers) /\ ~NoMoreReceive(k)
  BY <1>1, <1>2, CallerFacts DEF StateOK, KeyOK, Lower, Raise, Bind, Change, Post, NoMoreReceive
<1>7. ReadsPeers(caller[c])
  BY <1>1 DEF ReadsPeers
<1> QED BY <1>1, <1>2, <1>3, <1>4, <1>5, <1>6, <1>7, CallerFacts, Moves DEF NetPc, UpKeepalive, dev

LEMMA StopIdleInv ==
    ASSUME Inv, NEW c \in Caller, StopIdle(c)
    PROVE  Inv'
<1>1. caller[c].pc \in {"downStop", "removeStop"} /\ \A p \in Peer : peer[p].mu # c
  BY DEF StopIdle, Stopping, At
<1>2. PICK p \in caller[c].todo :
          /\ peer[p].mu = None /\ ~peer[p].running
          /\ GotoWith(c, caller[c].pc, caller[c].todo \ {p})
  BY DEF StopIdle
<1>3. PICK k \in Call : /\ caller' = [caller EXCEPT ![c] = k] /\ k.pc = caller[c].pc
                        /\ k.op = caller[c].op /\ k.arg = caller[c].arg
                        /\ k.todo = caller[c].todo \ {p}
  BY <1>2, GotoWithCall, CallerFacts
<1>4. mu' = mu /\ peers' = peers
  BY DEF StopIdle, dev
<1>5. Owns(c, k, mu', peers')
  BY <1>3, <1>4, CallerFacts DEF Owns, HoldsState, HoldsIpc, HoldsNet, WritesPeers, ReadsPeers
<1>6. OthersKept(c, mu, mu', peers, peers')
  BY <1>4 DEF OthersKept
<1>7. StateOK(k, state, closed) /\ (NoMoreReceive(k) => NoMoreReceive(caller[c]))
  BY <1>3, CallerFacts DEF StateOK, NoMoreReceive
<1>8. p \in StoppedPeers
  <2>1. p \in Peer /\ PeerOK(p, peer[p], caller)
    BY CallerFacts DEF Inv, PeerInv
  <2>2. peer[p].stopAt = "no"
    BY <1>2, <2>1, SetsAssumption DEF PeerOK
  <2> QED BY <1>2, <2>1, <2>2 DEF StoppedPeers, Stopped
<1>9. KeyOK(k, keyMap, StoppedPeers)
  BY <1>1, <1>3, <1>8, CallerFacts DEF KeyOK, Post
<1>10. /\ ReadsPeers(k) <=> ReadsPeers(caller[c])
       /\ k.pc = "removeStop" => peers'.r = {}
       /\ k.pc \notin NetPc /\ caller[c].pc \notin NetPc
  BY <1>1, <1>3, <1>4 DEF ReadsPeers, Inv, LockInv, NetPc
<1>11. /\ UNCHANGED <<state, keyMap, closed, peer, io, worker, queues>>
       /\ mu' \in Mutexes /\ mu'.net = mu.net /\ peers' \in PeersLock
  BY <1>4, CallerFacts DEF StopIdle, dev
<1> QED BY <1>1, <1>3, <1>5, <1>6, <1>7, <1>9, <1>10, <1>11, Moves

LEMMA AnnounceLockPeersInv ==
    ASSUME Inv, NEW c \in Caller, AnnounceLockPeers(c)
    PROVE  Inv'
<1>1. caller[c].pc = "lockPeers" /\ peers.w = None
  BY DEF AnnounceLockPeers, At
<1>2. Path(caller[c].op, "awaitPeers")
  BY <1>1, CallerFacts DEF Path, Op, Lower, Raise, Bind, Change, Post
<1>3. PICK k \in Call : /\ caller' = [caller EXCEPT ![c] = k] /\ k.pc = "awaitPeers"
                        /\ k.op = caller[c].op /\ k.arg = caller[c].arg /\ k.todo = caller[c].todo
  BY <1>2, GotoCall, CallerFacts DEF AnnounceLockPeers
<1>4. peers' \in PeersLock /\ peers'.w = c /\ peers'.r = peers.r
  BY TakesPeers, CallerFacts DEF AnnounceLockPeers
<1>5. Owns(c, k, mu', peers')
  BY <1>1, <1>3, <1>4, CallerFacts DEF AnnounceLockPeers, Owns, HoldsState, HoldsIpc, HoldsNet,
     WritesPeers, ReadsPeers, Lower, Raise, Bind, Change, Post
<1>6. OthersKept(c, mu, mu', peers, peers')
  BY <1>1, <1>4, SetsAssumption DEF OthersKept, AnnounceLockPeers
<1>7. StateOK(k, state, closed) /\ KeyOK(k, keyMap, StoppedPeers) /\ ~ReadsPeers(k)
  BY <1>1, <1>3, CallerFacts DEF StateOK, KeyOK, Lower, Raise, Bind, Change, Post, ReadsPeers
<1>8. NoMoreReceive(k) => NoMoreReceive(caller[c])
  BY <1>1, <1>3 DEF NoMoreReceive, Change
<1>9. /\ mu' = mu /\ mu' \in Mutexes /\ k.pc \notin NetPc /\ caller[c].pc \notin NetPc
      /\ \A p \in Peer : peer[p].mu # c
  BY <1>1, <1>3, CallerFacts DEF AnnounceLockPeers, NetPc
<1>10. UNCHANGED <<state, keyMap, closed, peer, io, worker, queues>>
  BY DEF AnnounceLockPeers
<1> QED BY <1>3, <1>4, <1>5, <1>6, <1>7, <1>8, <1>9, <1>10, Moves

LEMMA BeginInv ==
    ASSUME Inv, NEW c \in Caller, Begin(c)
    PROVE  Inv'
<1>1. caller[c].pc = "idle"
  BY DEF Begin, At
<1>2. PICK op \in Ops : \E p \in IF op \in {"Add", "Remove"} THEN Peer ELSE {None} :
          caller' = [caller EXCEPT ![c] = [op |-> op, arg |-> p, todo |-> {}, pc |-> EntryOf(op)]]
  BY DEF Begin
<1>3. PICK p \in IF op \in {"Add", "Remove"} THEN Peer ELSE {None} :
          caller' = [caller EXCEPT ![c] = [op |-> op, arg |-> p, todo |-> {}, pc |-> EntryOf(op)]]
  BY <1>2
<1> DEFINE pc == EntryOf(op)
           k == [op |-> op, arg |-> p, todo |-> {}, pc |-> pc]
<1>4. /\ op \in Op /\ Path(op, pc) /\ pc \in {"lockState", "lockIpc", "bindLock"}
      /\ pc = "bindLock" => op = "BindUpdate"
  BY OpsAssumption DEF EntryOf, Op, Path, Lower, Raise, Bind, Change, Post
<1>5. caller' = [caller EXCEPT ![c] = k]
  BY <1>3
<1> HIDE DEF pc
<1>6. k \in Call /\ k.op = op /\ k.pc = pc /\ k.todo = {}
  BY <1>4, PathInPc DEF Call
<1> HIDE DEF k
<1>7. mu' = mu /\ peers' = peers /\ UNCHANGED <<state, keyMap, closed, peer, io, worker, queues>>
  BY DEF Begin, dev
<1>8. Owns(c, k, mu', peers')
  BY <1>1, <1>4, <1>6, <1>7, CallerFacts DEF Owns, HoldsState, HoldsIpc, HoldsNet,
     WritesPeers, ReadsPeers, Lower, Raise, Bind, Change, Post
<1>9. OthersKept(c, mu, mu', peers, peers')
  BY <1>7 DEF OthersKept
<1>10. StateOK(k, state, closed) /\ KeyOK(k, keyMap, StoppedPeers) /\ ~NoMoreReceive(k) /\ ~ReadsPeers(k)
  BY <1>4, <1>6 DEF StateOK, KeyOK, Lower, Raise, Bind, Change, Post, NoMoreReceive, ReadsPeers, Path
<1>11. /\ mu' \in Mutexes /\ peers' \in PeersLock /\ \A q \in Peer : peer[q].mu # c
       /\ k.pc # "removeStop" /\ k.pc \notin NetPc /\ caller[c].pc \notin NetPc
  BY <1>1, <1>4, <1>6, <1>7, CallerFacts DEF NetPc
<1> QED BY <1>5, <1>6, <1>7, <1>8, <1>9, <1>10, <1>11, Moves

LEMMA PeersDoneInv ==
    ASSUME Inv, NEW c \in Caller, PeersDone(c)
    PROVE  Inv'
<1>1. caller[c].pc \in {"upStart", "downStop"} /\ caller[c].todo = {}
  BY DEF PeersDone, At
<1>2. peers' \in PeersLock /\ peers'.w = peers.w /\ peers'.r = peers.r \ {c}
  BY TakesPeers, CallerFacts DEF PeersDone
<1>3. ASSUME NEW p \in Peer PROVE peer[p].mu # c
  <2>1. PeerOK(p, peer[p], caller)
    BY DEF Inv, PeerInv
  <2> QED BY <1>1, <2>1 DEF PeerOK
<1>4. UNCHANGED <<state, keyMap, closed, peer, io, worker, queues>> /\ caller[c].pc \notin NetPc
  BY <1>1 DEF PeersDone, NetPc
<1>5. CASE caller[c].op = "Close"
  <2>1. Path("Close", "lockPeers") /\ caller[c].pc = "downStop"
    BY <1>1, <1>5, CallerFacts DEF Path, Op, Lower, Raise, Bind, Change, Post
  <2>2. PICK k \in Call : /\ caller' = [caller EXCEPT ![c] = k] /\ k.pc = "lockPeers"
                          /\ k.op = "Close" /\ k.arg = caller[c].arg /\ k.todo = {}
    BY <1>1, <1>5, <2>1, GotoCall, CallerFacts DEF PeersDone
  <2>3. mu' = mu /\ mu' \in Mutexes
    BY <1>5, CallerFacts DEF PeersDone
  <2>4. Owns(c, k, mu', peers')
    BY <1>2, <1>5, <2>1, <2>2, <2>3, CallerFacts DEF Owns, HoldsState, HoldsIpc, HoldsNet,
       WritesPeers, ReadsPeers, Lower, Raise, Bind, Change, Post
  <2>5. OthersKept(c, mu, mu', peers, peers')
    BY <1>2, <2>3 DEF OthersKept
  <2>6. StateOK(k, state, closed) /\ KeyOK(k, keyMap, StoppedPeers) /\ ~ReadsPeers(k)
    BY <1>5, <2>1, <2>2, CallerFacts DEF StateOK, KeyOK, Lower, Raise, Bind, Change, Post, ReadsPeers
  <2>7. NoMoreReceive(caller[c]) /\ k.pc # "removeStop" /\ k.pc \notin NetPc
    BY <1>5, <2>1, <2>2 DEF NoMoreReceive, NetPc
  <2> QED BY <1>2, <1>3, <1>4, <2>2, <2>3, <2>4, <2>5, <2>6, <2>7, Moves
<1>6. CASE caller[c].op # "Close"
  <2>1. /\ caller' = [caller EXCEPT ![c] = IdleCaller] /\ mu' \in Mutexes
        /\ mu'.state = IF mu.state = c THEN None ELSE mu.state
        /\ mu'.ipc = IF mu.ipc = c THEN None ELSE mu.ipc
        /\ mu'.net = IF mu.net = c THEN None ELSE mu.net
    BY <1>6, ReturnMutexes, CallerFacts DEF PeersDone
  <2>2. mu'.net = mu.net
    BY <1>1, <2>1, CallerFacts DEF Owns, HoldsNet
  <2>3. peers.w # c
    BY <1>1, CallerFacts DEF Owns, WritesPeers
  <2>4. Owns(c, IdleCaller, mu', peers')
    BY <1>2, <2>1, <2>2, <2>3, IdleIsCall, SetsAssumption, CallerFacts
    DEF Owns, HoldsState, HoldsIpc, HoldsNet, WritesPeers, ReadsPeers, Lower, Raise, Bind, Change, Post
  <2>5. OthersKept(c, mu, mu', peers, peers')
    BY <1>2, <2>1, SetsAssumption DEF OthersKept
  <2>6. StateOK(IdleCaller, state, closed) /\ KeyOK(IdleCaller, keyMap, StoppedPeers)
    BY IdleIsCall DEF StateOK, KeyOK, Lower, Bind, Raise, Post
  <2>7. /\ ~NoMoreReceive(IdleCaller) /\ ~ReadsPeers(IdleCaller)
        /\ IdleCaller.pc # "removeStop" /\ IdleCaller.pc \notin NetPc
    BY IdleIsCall DEF NoMoreReceive, ReadsPeers, NetPc
  <2> QED BY <1>2, <1>3, <1>4, <2>1, <2>2, <2>4, <2>5, <2>6, <2>7, IdleIsCall, Moves
<1> QED BY <1>5, <1>6

\* The peers to be removed are stopped first.
LEMMA BeginsToRemove ==
    ASSUME Inv, NEW c \in Caller, LockPeers(c), caller[c].arg \notin Peer \ keyMap
    PROVE  Inv'
<1>1. /\ caller[c].pc = "awaitPeers" /\ peers.r = {}
      /\ GotoWith(c, "removeStop", PeersToStop(c)) /\ UNCHANGED <<keyMap, peers>>
  BY DEF LockPeers, At
<1>2. caller[c].op \in {"Remove", "Close"}
  <2>1. caller[c].op \in {"Add", "Remove", "Close"}
    BY <1>1, CallerFacts DEF Path, Op, Lower, Raise, Bind, Change, Post
  <2>2. caller[c].op # "Add"
    BY <1>1, CallerFacts, CallAt DEF KeyOK, Inv
  <2> QED BY <2>1, <2>2
<1>3. Path(caller[c].op, "removeStop") /\ PeersToStop(c) \in SUBSET Peer
  BY <1>2, CallerFacts, CallAt DEF Path, Change, PeersToStop, Inv, DevTypes
<1>4. PICK k \in Call : /\ caller' = [caller EXCEPT ![c] = k] /\ k.pc = "removeStop"
                        /\ k.op = caller[c].op /\ k.arg = caller[c].arg /\ k.todo = PeersToStop(c)
  BY <1>1, <1>3, GotoWithCall, CallerFacts
<1>5. Owns(c, k, mu', peers')
  BY <1>1, <1>4, CallerFacts DEF LockPeers, Owns, HoldsState, HoldsIpc, HoldsNet,
     WritesPeers, ReadsPeers, Lower, Raise, Bind, Change, Post
<1>6. OthersKept(c, mu, mu', peers, peers')
  BY <1>1 DEF OthersKept, LockPeers
<1>7. StateOK(k, state, closed) /\ ~ReadsPeers(k) /\ (NoMoreReceive(k) => NoMoreReceive(caller[c]))
  BY <1>1, <1>4, CallerFacts DEF StateOK, Lower, Raise, Bind, Change, Post, ReadsPeers, NoMoreReceive
<1>8. KeyOK(k, keyMap, StoppedPeers)
  <2>1. Peer \subseteq keyMap \cup StoppedPeers
    BY DEF Inv, PeerInv
  <2> QED BY <1>2, <1>4, <2>1 DEF KeyOK, PeersToStop, Post
<1>9. /\ mu' = mu /\ mu' \in Mutexes /\ peers' \in PeersLock /\ \A p \in Peer : peer[p].mu # c
      /\ k.pc \notin NetPc /\ caller[c].pc \notin NetPc /\ peers'.r = {}
  BY <1>1, <1>4, CallerFacts DEF LockPeers, NetPc
<1>10. UNCHANGED <<state, keyMap, closed, peer, io, worker, queues>>
  BY <1>1 DEF LockPeers
<1> QED BY <1>4, <1>5, <1>6, <1>7, <1>8, <1>9, <1>10, Moves

LEMMA IpcSetInv ==
    ASSUME Inv, NEW c \in Caller, IpcSet(c)
    PROVE  Inv'
<1> DEFINE pc == IpcNext(c)
<1>1. caller[c].pc = "lockIpc" /\ mu.ipc = None /\ caller[c].op \in {"Add", "Remove", "ListenPort"}
  BY CallerFacts DEF IpcSet, At, Path, Op, Lower, Raise, Bind, Change, Post
<1>2. UNCHANGED <<state, peers, keyMap, closed, peer, io, worker, queues>>
  BY DEF IpcSet
<1>3. CASE pc = "return"
  BY <1>1, <1>2, <1>3, Returns DEF IpcSet, NetPc
<1>4. CASE pc # "return"
  <2>1. \/ pc = "bindLock" /\ caller[c].op = "ListenPort"
        \/ pc = "postConfig" /\ caller[c].op = "Add" /\ caller[c].arg \in keyMap
        \/ pc = "lockPeers" /\ caller[c].op = "Remove" /\ caller[c].arg \in keyMap
        \/ /\ pc = "lockPeers" /\ caller[c].op \in {"Add", "Remove"}
           /\ caller[c].arg \notin keyMap /\ state # "closed"
    <3>1. IF caller[c].op \in {"Add", "Remove"} THEN caller[c].arg \in Peer ELSE caller[c].arg = None
      BY CallAt, CallerFacts
    <3>2. CASE caller[c].op = "ListenPort"
      BY <3>1, <3>2, SetsAssumption DEF IpcNext
    <3>3. CASE caller[c].op = "Add" /\ caller[c].arg \in keyMap
      BY <3>1, <3>3 DEF IpcNext
    <3>4. CASE caller[c].op = "Remove" /\ caller[c].arg \in keyMap
      BY <3>1, <3>4 DEF IpcNext
    <3>5. CASE caller[c].op \in {"Add", "Remove"} /\ caller[c].arg \notin keyMap
      BY <1>4, <3>1, <3>5 DEF IpcNext
    <3> QED BY <1>1, <3>2, <3>3, <3>4, <3>5
  <2>2. closed => pc = "bindLock"
    <3>1. closed => keyMap = {} /\ state = "closed"
      BY DEF Inv, ReleasedInv, Released, StateInv
    <3> QED BY <2>1, <3>1
  <2>3. Goto(c, pc) /\ mu' = [mu EXCEPT !.ipc = c]
    BY <1>4 DEF IpcSet
  <2> HIDE DEF pc
  <2>4. Path(caller[c].op, pc)
    BY <2>1 DEF Path, Bind, Change, Post
  <2>5. PICK k \in Call : /\ caller' = [caller EXCEPT ![c] = k] /\ k.pc = pc
                          /\ k.op = caller[c].op /\ k.arg = caller[c].arg /\ k.todo = caller[c].todo
    BY <2>3, <2>4, GotoCall, CallerFacts
  <2>6. mu' \in Mutexes /\ mu'.state = mu.state /\ mu'.ipc = c /\ mu'.net = mu.net
    BY <2>3, TakesMutex, CallerFacts
  <2>7. Owns(c, k, mu', peers')
    BY <1>1, <1>2, <2>1, <2>5, <2>6, CallerFacts DEF Owns, HoldsState, HoldsIpc, HoldsNet,
       WritesPeers, ReadsPeers, Lower, Raise, Bind, Change, Post
  <2>8. OthersKept(c, mu, mu', peers, peers')
    BY <1>1, <1>2, <2>6, SetsAssumption DEF OthersKept
  <2>9. StateOK(k, state, closed)
    BY <2>1, <2>2, <2>5 DEF StateOK, Lower, Raise, Bind
  <2>10. KeyOK(k, keyMap, StoppedPeers)
    BY <2>1, <2>5 DEF KeyOK, Post
  <2>11. /\ ~NoMoreReceive(k) /\ ~ReadsPeers(k) /\ k.pc # "removeStop"
         /\ k.pc \notin NetPc /\ caller[c].pc \notin NetPc
    BY <1>1, <2>1, <2>5 DEF NoMoreReceive, ReadsPeers, NetPc
  <2>12. peers' \in PeersLock /\ \A p \in Peer : peer[p].mu # c
    BY <1>1, <1>2, CallerFacts
  <2> QED BY <1>2, <2>5, <2>6, <2>7, <2>8, <2>9, <2>10, <2>11, <2>12, Moves
<1> QED BY <1>3, <1>4

LEMMA IpcErrorInv ==
    ASSUME Inv, NEW c \in Caller, IpcError(c) \/ PostSend(c)
    PROVE  Inv'
BY Returns DEF IpcError, PostSend, At, NetPc

\* A step within handlePostConfig.
LEMMA PostGoesOn ==
    ASSUME Inv, NEW c \in Caller, caller[c].pc \in Post, NEW pc \in Post, Goto(c, pc),
           UNCHANGED <<dev, peer, io, worker, queues>>
    PROVE  Inv'
<1>1. caller[c].op = "Add"
  BY CallerFacts DEF Path, Op, Lower, Raise, Bind, Change, Post
<1>2. PICK k \in Call : /\ caller' = [caller EXCEPT ![c] = k] /\ k.pc = pc
                        /\ k.op = "Add" /\ k.arg = caller[c].arg /\ k.todo = caller[c].todo
  BY <1>1, GotoCall, CallerFacts DEF Path
<1>3. mu' = mu /\ peers' = peers /\ UNCHANGED <<state, keyMap, closed, peer, io, worker, queues>>
  BY DEF dev
<1>4. Owns(c, k, mu', peers')
  BY <1>1, <1>2, <1>3, CallerFacts DEF Owns, HoldsState, HoldsIpc, HoldsNet,
     WritesPeers, ReadsPeers, Lower, Raise, Bind, Change, Post
<1>5. OthersKept(c, mu, mu', peers, peers')
  BY <1>3 DEF OthersKept
<1>6. ~closed
  BY CallerFacts DEF StateOK, Post
<1>7. StateOK(k, state, closed) /\ KeyOK(k, keyMap, StoppedPeers) /\ ~NoMoreReceive(k) /\ ~ReadsPeers(k)
  BY <1>2, <1>6, CallerFacts DEF StateOK, KeyOK, Post, NoMoreReceive, ReadsPeers
<1>8. /\ mu' \in Mutexes /\ peers' \in PeersLock /\ \A p \in Peer : peer[p].mu # c
      /\ k.pc # "removeStop" /\ k.pc \notin NetPc /\ caller[c].pc \notin NetPc
  BY <1>2, <1>3, CallerFacts DEF NetPc, Post
<1> QED BY <1>2, <1>3, <1>4, <1>5, <1>7, <1>8, Moves

LEMMA PostConfigInv ==
    ASSUME Inv, NEW c \in Caller, PostConfig(c)
    PROVE  Inv'
<1>1. CASE state = "up"
  BY <1>1, PostGoesOn DEF PostConfig, At, Post, dev
<1>2. CASE state # "up"
  BY <1>2, Returns DEF PostConfig, At, NetPc
<1> QED BY <1>1, <1>2

LEMMA PostStartCheckInv ==
    ASSUME Inv, NEW c \in Caller, PostStartCheck(c)
    PROVE  Inv'
BY PostGoesOn DEF PostStartCheck, At, Post

-----------------------------------------------------------------------------
(* The state and the bind *)

\* A caller that changes the state, the mutexes or the bind.
LEMMA Steps ==
    ASSUME Inv, NEW c \in Caller, NEW k \in Call, caller' = [caller EXCEPT ![c] = k],
           UNCHANGED <<keyMap, closed, peer, worker, queues>>,
           caller[c].pc \notin {"downStop", "removeStop", "closeWait"}, k.pc # "closeWait",
           k.pc # "removeStop", ~ReadsPeers(k),
           mu' \in Mutexes, peers' = peers,
           Owns(c, k, mu', peers), OthersKept(c, mu, mu', peers, peers),
           KeyOK(k, keyMap, StoppedPeers), DevTypes', StateInv', ReceiveInv',
           io'.recv # "off" <=> io.recv # "off", io'.reader # "off" <=> io.reader # "off"
    PROVE  Inv'
<1>1. peers' \in PeersLock /\ Owns(c, k, mu', peers') /\ OthersKept(c, mu, mu', peers, peers')
  BY CallerFacts
<1>2. LockInv'
  BY <1>1, CallerFacts, LockStep
<1>a. LockInv /\ PeerInv /\ \A p \in Peer : peer[p].mu # c
  BY CallerFacts DEF Inv
<1>3. PeerInv' /\ StoppedPeers' = StoppedPeers
  BY <1>a, PeerStep
<1>4. KeyInv' /\ ReleasedInv' /\ Released' = Released
  BY <1>3, KeyStep DEF Inv
<1>5. WorkerInv'
  BY DEF WorkerInv, Inv
<1>6. QueueInv'
  BY <1>3, <1>4, QueueKept DEF queues, Inv
<1> QED BY <1>2, <1>3, <1>4, <1>5, <1>6 DEF Inv

\* Nobody is about to start the receive routine.
LEMMA NobodyStarts ==
    ASSUME LockInv, ReceiveInv, NEW c \in Caller, NEW k \in Call, caller' = [caller EXCEPT ![c] = k],
           UNCHANGED closed, \A d \in Caller \ {c} : caller[d].pc # "bindStart", k.pc # "bindStart",
           io'.recv # "off" => io.recv # "off", io'.reader # "off" => io.reader # "off",
           state' = "up" \/ io'.recv = "off" \/ mu'.net # None \/ k.pc = "bindClose",
           NoMoreReceive(k) => NoMoreReceive(caller[c]) \/ io'.recv = "off"
    PROVE  ReceiveInv'
<1>1. \A d \in Caller : caller'[d] = IF d = c THEN k ELSE caller[d]
  BY DEF LockInv, LockTypes
<1>2. \A d \in Caller : caller'[d].pc # "bindStart"
  BY <1>1
<1>3. closed' \/ (\E d \in Caller : NoMoreReceive(caller'[d])) => io'.recv = "off"
  BY <1>1 DEF ReceiveInv
<1>4. k.pc = "bindClose" => \E d \in Caller : caller'[d].pc = "bindClose"
  BY <1>1
<1>5. closed' => io'.reader = "off"
  BY DEF ReceiveInv
<1> QED BY <1>2, <1>3, <1>4, <1>5 DEF ReceiveInv, At

\* The state is set by a caller that goes on to the bind.
LEMMA SetsState ==
    ASSUME LockInv, ReceiveInv, NEW c \in Caller, NEW k \in Call, caller' = [caller EXCEPT ![c] = k],
           UNCHANGED closed, io'.recv = io.recv, io'.reader = io.reader,
           k.pc = "bindClose" \/ (k.pc = "bindLock" /\ state' = "up")
    PROVE  ReceiveInv'
<1>1. \A d \in Caller : caller'[d] = IF d = c THEN k ELSE caller[d]
  BY DEF LockInv, LockTypes
<1>2. \A d \in Caller : /\ caller'[d].pc = "bindStart" => caller[d].pc = "bindStart"
                        /\ NoMoreReceive(caller'[d]) => NoMoreReceive(caller[d])
  BY <1>1 DEF NoMoreReceive, Change
<1>3. \A d \in Caller : caller'[d].pc = "bindStart" => io'.recv = "off"
  BY <1>2 DEF ReceiveInv
<1>4. closed' \/ (\E d \in Caller : NoMoreReceive(caller'[d])) =>
         io'.recv = "off" /\ \A d \in Caller : caller'[d].pc # "bindStart"
  BY <1>2 DEF ReceiveInv, At
<1>5. k.pc = "bindClose" => \E d \in Caller : caller'[d].pc = "bindClose"
  BY <1>1
<1>6. closed' => io'.reader = "off"
  BY DEF ReceiveInv
<1> QED BY <1>3, <1>4, <1>5, <1>6 DEF ReceiveInv, At

\* Who owns the net mutex, or finds it free, is alone with the bind.
LEMMA AloneWithBind ==
    ASSUME LockInv, NEW c \in Caller, mu.net \in {c, None}
    PROVE  \A d \in Caller \ {c} : caller[d].pc \notin {"bindOpen", "bindStart", "bindCloseWait"}
BY SetsAssumption DEF LockInv, Owns, HoldsNet

LEMMA ChangeStateInv ==
    ASSUME Inv, NEW c \in Caller, ChangeState(c)
    PROVE  Inv'
<1> DEFINE want == IF caller[c].op = "Up" THEN "up" ELSE "down"
           pc == IF want = "up" THEN "bindLock" ELSE "bindClose"
<1>1. caller[c].pc = "lockState" /\ caller[c].op \in {"Up", "Down"} /\ mu.state = None
  BY DEF ChangeState, At
<1>2. UNCHANGED <<peers, keyMap, closed, peer, io, worker, queues>>
  BY DEF ChangeState
<1>3. CASE state \in {"closed", want}
  <2>1. Return(c) /\ UNCHANGED state
    BY <1>3 DEF ChangeState
  <2> QED BY <1>1, <1>2, <2>1, Returns DEF NetPc
<1>4. CASE state \notin {"closed", want}
  <2>1. mu' = [mu EXCEPT !.state = c] /\ state' = want /\ Goto(c, pc)
    BY <1>4 DEF ChangeState
  <2>2. /\ want = IF caller[c].op = "Up" THEN "up" ELSE "down"
        /\ pc = IF caller[c].op = "Up" THEN "bindLock" ELSE "bindClose"
    OBVIOUS
  <2>3. ~closed
    BY <1>4 DEF Inv, StateInv
  <2> HIDE DEF want, pc
  <2>4. Path(caller[c].op, pc)
    BY <1>1, <2>2 DEF Path, Bind, Lower
  <2>5. PICK k \in Call : /\ caller' = [caller EXCEPT ![c] = k] /\ k.pc = pc
                          /\ k.op = caller[c].op /\ k.arg = caller[c].arg /\ k.todo = caller[c].todo
    BY <2>1, <2>4, GotoCall, CallerFacts
  <2>6. mu' \in Mutexes /\ mu'.state = c /\ mu'.ipc = mu.ipc /\ mu'.net = mu.net
    BY <2>1, TakesMutex, CallerFacts
  <2>7. Owns(c, k, mu', peers)
    BY <1>1, <2>2, <2>5, <2>6, CallerFacts DEF Owns, HoldsState, HoldsIpc, HoldsNet,
       WritesPeers, ReadsPeers, Lower, Raise, Bind, Change, Post
  <2>8. OthersKept(c, mu, mu', peers, peers)
    BY <1>1, <2>6, SetsAssumption DEF OthersKept
  <2>9. StateOK(k, state', FALSE)
    BY <1>1, <2>1, <2>2, <2>5 DEF StateOK, Lower, Raise, Bind
  <2>10. StateInv'
    BY <1>1, <1>2, <2>3, <2>5, <2>9, StateChange DEF Inv
  <2>11. ReceiveInv'
    <3>1. LockInv /\ ReceiveInv /\ io'.recv = io.recv /\ io'.reader = io.reader /\ UNCHANGED closed
      BY <1>2 DEF Inv
    <3>2. k.pc = "bindClose" \/ (k.pc = "bindLock" /\ state' = "up")
      BY <2>1, <2>2, <2>5
    <3> QED BY <2>5, <3>1, <3>2, SetsState
  <2>12. KeyOK(k, keyMap, StoppedPeers)
    BY <2>2, <2>5 DEF KeyOK, Post
  <2>13. DevTypes'
    BY <1>2, <2>1, <2>2 DEF DevTypes, Inv
  <2>14. ~ReadsPeers(k) /\ k.pc \notin {"closeWait", "removeStop"}
    BY <2>2, <2>5 DEF ReadsPeers
  <2> QED BY <1>1, <1>2, <2>5, <2>6, <2>7, <2>8, <2>10, <2>11, <2>12, <2>13, <2>14, Steps
<1> QED BY <1>3, <1>4

LEMMA CloseLockIpcInv ==
    ASSUME Inv, NEW c \in Caller, CloseLockIpc(c)
    PROVE  Inv'
<1>1. caller[c].pc = "closeLockIpc" /\ caller[c].op = "Close" /\ mu.ipc = None
  BY CallerFacts DEF CloseLockIpc, At, Path, Op, Lower, Raise, Bind, Change, Post
<1>2. UNCHANGED <<peers, keyMap, closed, peer, worker, queues>>
  BY DEF CloseLockIpc
<1>3. CASE state = "closed"
  BY <1>1, <1>2, <1>3, Returns DEF NetPc, CloseLockIpc
<1>4. CASE state # "closed"
  <2>1. /\ mu' = [mu EXCEPT !.ipc = c] /\ state' = "closed" /\ Goto(c, "bindClose")
        /\ io' = [io EXCEPT !.tun = "closed"]
    BY <1>4 DEF CloseLockIpc
  <2>2. ~closed
    BY <1>4 DEF Inv, StateInv
  <2>3. Path(caller[c].op, "bindClose")
    BY <1>1 DEF Path, Lower
  <2>4. PICK k \in Call : /\ caller' = [caller EXCEPT ![c] = k] /\ k.pc = "bindClose"
                          /\ k.op = "Close" /\ k.arg = caller[c].arg /\ k.todo = caller[c].todo
    BY <1>1, <2>1, <2>3, GotoCall, CallerFacts
  <2>5. mu' \in Mutexes /\ mu'.state = mu.state /\ mu'.ipc = c /\ mu'.net = mu.net /\ mu.state = c
    BY <1>1, <2>1, TakesMutex, CallerFacts DEF Owns, HoldsState
  <2>6. Owns(c, k, mu', peers)
    BY <1>1, <2>4, <2>5, CallerFacts DEF Owns, HoldsState, HoldsIpc, HoldsNet,
       WritesPeers, ReadsPeers, Lower, Raise, Bind, Change, Post
  <2>7. OthersKept(c, mu, mu', peers, peers)
    BY <1>1, <2>5, SetsAssumption DEF OthersKept
  <2>8. StateOK(k, state', FALSE)
    BY <2>1, <2>4 DEF StateOK
  <2>9. StateInv'
    BY <1>2, <2>2, <2>4, <2>5, <2>8, StateChange DEF Inv
  <2>10. DevTypes' /\ io'.recv = io.recv /\ io'.reader = io.reader
    BY <1>2, <2>1 DEF DevTypes, Inv, IO
  <2>11. ReceiveInv'
    <3>1. LockInv /\ ReceiveInv /\ UNCHANGED closed
      BY <1>2 DEF Inv
    <3> QED BY <2>4, <2>10, <3>1, SetsState
  <2>12. KeyOK(k, keyMap, StoppedPeers) /\ ~ReadsPeers(k)
    BY <2>4 DEF KeyOK, Post, ReadsPeers
  <2> QED BY <1>1, <1>2, <2>4, <2>5, <2>6, <2>7, <2>9, <2>10, <2>11, <2>12, Steps
<1> QED BY <1>3, <1>4

LEMMA CloseBindInv ==
    ASSUME Inv, NEW c \in Caller, CloseBind(c)
    PROVE  Inv'
<1> DEFINE pc == IF At(c, "bindLock") THEN "bindOpen" ELSE "bindCloseWait"
<1>1. /\ caller[c].pc \in {"bindLock", "bindClose"} /\ mu.net = None
      /\ pc = IF caller[c].pc = "bindLock" THEN "bindOpen" ELSE "bindCloseWait"
  BY DEF CloseBind, At
<1>2. /\ mu' = [mu EXCEPT !.net = c] /\ Goto(c, pc) /\ io' = [io EXCEPT !.bind = "closed"]
      /\ UNCHANGED <<state, peers, keyMap, closed, peer, worker, queues>>
  BY DEF CloseBind
<1> HIDE DEF pc
<1>3. Path(caller[c].op, pc)
  BY <1>1, CallerFacts DEF Path, Op, Lower, Raise, Bind, Change, Post
<1>4. PICK k \in Call : /\ caller' = [caller EXCEPT ![c] = k] /\ k.pc = pc
                        /\ k.op = caller[c].op /\ k.arg = caller[c].arg /\ k.todo = caller[c].todo
  BY <1>2, <1>3, GotoCall, CallerFacts
<1>5. mu' \in Mutexes /\ mu'.state = mu.state /\ mu'.ipc = mu.ipc /\ mu'.net = c
  BY <1>2, TakesMutex, CallerFacts
<1>6. Owns(c, k, mu', peers)
  BY <1>1, <1>4, <1>5, CallerFacts DEF Owns, HoldsState, HoldsIpc, HoldsNet,
     WritesPeers, ReadsPeers, Lower, Raise, Bind, Change, Post
<1>7. OthersKept(c, mu, mu', peers, peers)
  BY <1>1, <1>5, SetsAssumption DEF OthersKept
<1>8. StateOK(k, state, closed) /\ KeyOK(k, keyMap, StoppedPeers) /\ ~ReadsPeers(k) /\ ~NoMoreReceive(k)
  BY <1>1, <1>4, CallerFacts DEF StateOK, KeyOK, Lower, Raise, Bind, Post, ReadsPeers, NoMoreReceive, Change
<1>9. LockInv /\ StateInv /\ ReceiveInv /\ DevTypes
  BY DEF Inv
<1>10. StateInv'
  BY <1>2, <1>4, <1>8, <1>9, StateStep
<1>11. DevTypes' /\ io'.recv = io.recv /\ io'.reader = io.reader
  BY <1>2, <1>9 DEF DevTypes, IO
<1>12. ReceiveInv'
  <2>1. \A d \in Caller \ {c} : caller[d].pc # "bindStart"
    BY <1>1, <1>9, AloneWithBind
  <2>2. mu'.net # None /\ k.pc # "bindStart" /\ closed' = closed
    BY <1>1, <1>2, <1>4, <1>5, SetsAssumption
  <2> QED BY <1>4, <1>8, <1>9, <1>11, <2>1, <2>2, NobodyStarts
<1>13. caller[c].pc \notin {"downStop", "removeStop", "closeWait"} /\ k.pc \notin {"closeWait", "removeStop"}
  BY <1>1, <1>4
<1> QED BY <1>2, <1>4, <1>5, <1>6, <1>7, <1>8, <1>10, <1>11, <1>12, <1>13, Steps

LEMMA BindCloseInv ==
    ASSUME Inv, NEW c \in Caller, BindClose(c)
    PROVE  Inv'
<1>1. caller[c].pc = "bindCloseWait" /\ io.recv = "off"
  BY DEF BindClose, At
<1>2. /\ mu' = [mu EXCEPT !.net = None] /\ Goto(c, "downPeers")
      /\ UNCHANGED <<state, peers, keyMap, closed, peer, io, worker, queues>>
  BY DEF BindClose
<1>3. Path(caller[c].op, "downPeers")
  BY <1>1, CallerFacts DEF Path, Op, Lower, Raise, Bind, Change, Post
<1>4. PICK k \in Call : /\ caller' = [caller EXCEPT ![c] = k] /\ k.pc = "downPeers"
                        /\ k.op = caller[c].op /\ k.arg = caller[c].arg /\ k.todo = caller[c].todo
  BY <1>2, <1>3, GotoCall, CallerFacts
<1>5. mu' \in Mutexes /\ mu'.state = mu.state /\ mu'.ipc = mu.ipc /\ mu'.net = None /\ mu.net = c
  BY <1>1, <1>2, TakesMutex, CallerFacts DEF Owns, HoldsNet
<1>6. Owns(c, k, mu', peers)
  BY <1>1, <1>4, <1>5, CallerFacts, SetsAssumption DEF Owns, HoldsState, HoldsIpc, HoldsNet,
     WritesPeers, ReadsPeers, Lower, Raise, Bind, Change, Post
<1>7. OthersKept(c, mu, mu', peers, peers)
  BY <1>5, SetsAssumption DEF OthersKept
<1>8. StateOK(k, state, closed) /\ KeyOK(k, keyMap, StoppedPeers) /\ ~ReadsPeers(k)
  BY <1>1, <1>4, CallerFacts DEF StateOK, KeyOK, Lower, Raise, Bind, Post, ReadsPeers
<1>9. LockInv /\ StateInv /\ ReceiveInv /\ DevTypes
  BY DEF Inv
<1>10. StateInv'
  BY <1>2, <1>4, <1>8, <1>9, StateStep
<1>11. DevTypes' /\ io'.recv = io.recv /\ io'.reader = io.reader
  BY <1>2, <1>9 DEF DevTypes
<1>12. ReceiveInv'
  <2>1. \A d \in Caller \ {c} : caller[d].pc # "bindStart"
    BY <1>5, <1>9, AloneWithBind
  <2>2. io'.recv = "off" /\ k.pc # "bindStart" /\ closed' = closed
    BY <1>1, <1>2, <1>4
  <2> QED BY <1>4, <1>9, <1>11, <2>1, <2>2, NobodyStarts
<1>13. caller[c].pc \notin {"downStop", "removeStop", "closeWait"} /\ k.pc \notin {"closeWait", "removeStop"}
  BY <1>1, <1>4
<1> QED BY <1>2, <1>4, <1>5, <1>6, <1>7, <1>8, <1>10, <1>11, <1>12, <1>13, Steps

\* A caller of BindUpdate returns, and gives up net and ipc with it.
LEMMA ReturnFacts ==
    ASSUME Inv, NEW c \in Caller, Return(c), caller[c].pc \in {"bindOpen", "bindStart"}
    PROVE  /\ caller' = [caller EXCEPT ![c] = IdleCaller] /\ mu' \in Mutexes /\ mu'.net = None
           /\ Owns(c, IdleCaller, mu', peers) /\ OthersKept(c, mu, mu', peers, peers)
           /\ StateOK(IdleCaller, state, closed) /\ KeyOK(IdleCaller, keyMap, StoppedPeers)
           /\ ~ReadsPeers(IdleCaller) /\ ~NoMoreReceive(IdleCaller)
<1>1. /\ caller' = [caller EXCEPT ![c] = IdleCaller] /\ mu' \in Mutexes
      /\ mu'.state = IF mu.state = c THEN None ELSE mu.state
      /\ mu'.ipc = IF mu.ipc = c THEN None ELSE mu.ipc
      /\ mu'.net = IF mu.net = c THEN None ELSE mu.net
  BY ReturnMutexes, CallerFacts
<1>2. mu.net = c /\ peers.w # c /\ c \notin peers.r
  BY CallerFacts DEF Owns, HoldsNet, WritesPeers, ReadsPeers
<1>3. Owns(c, IdleCaller, mu', peers)
  BY <1>1, <1>2, IdleIsCall, SetsAssumption DEF Owns, HoldsState, HoldsIpc, HoldsNet, WritesPeers,
     ReadsPeers, Lower, Raise, Change, Post, Bind
<1>4. OthersKept(c, mu, mu', peers, peers)
  BY <1>1, SetsAssumption DEF OthersKept
<1>5. StateOK(IdleCaller, state, closed) /\ KeyOK(IdleCaller, keyMap, StoppedPeers)
  BY IdleIsCall DEF StateOK, KeyOK, Lower, Bind, Raise, Post
<1>6. ~NoMoreReceive(IdleCaller) /\ ~ReadsPeers(IdleCaller)
  BY IdleIsCall DEF NoMoreReceive, ReadsPeers
<1> QED BY <1>1, <1>2, <1>3, <1>4, <1>5, <1>6

LEMMA BindNotUpInv ==
    ASSUME Inv, NEW c \in Caller, BindNotUp(c)
    PROVE  Inv'
<1>1. caller[c].pc = "bindOpen" /\ io.recv = "off" /\ state # "up"
  BY DEF BindNotUp, At, IsUp
<1>2. caller[c].op # "Up"
  BY <1>1, CallerFacts DEF StateOK, Bind
<1>3. /\ Return(c) /\ UNCHANGED <<state, peers, keyMap, closed, peer, io, worker, queues>>
  BY <1>2 DEF BindNotUp, AfterBindUpdate
<1>4. /\ caller' = [caller EXCEPT ![c] = IdleCaller] /\ mu' \in Mutexes
      /\ Owns(c, IdleCaller, mu', peers) /\ OthersKept(c, mu, mu', peers, peers)
      /\ StateOK(IdleCaller, state, closed) /\ KeyOK(IdleCaller, keyMap, StoppedPeers)
      /\ ~ReadsPeers(IdleCaller) /\ ~NoMoreReceive(IdleCaller)
  BY <1>1, <1>3, ReturnFacts
<1>5. LockInv /\ StateInv /\ ReceiveInv /\ DevTypes /\ mu.net = c
  BY <1>1, CallerFacts DEF Inv, Owns, HoldsNet
<1>6. StateInv'
  BY <1>3, <1>4, <1>5, IdleIsCall, StateStep
<1>7. DevTypes' /\ io'.recv = io.recv /\ io'.reader = io.reader
  BY <1>3, <1>5 DEF DevTypes
<1>8. ReceiveInv'
  <2>1. \A d \in Caller \ {c} : caller[d].pc # "bindStart"
    BY <1>5, AloneWithBind
  <2>2. io'.recv = "off" /\ IdleCaller.pc # "bindStart" /\ closed' = closed
    BY <1>1, <1>3, IdleIsCall
  <2> QED BY <1>4, <1>5, <1>7, <2>1, <2>2, IdleIsCall, NobodyStarts
<1>9. /\ caller[c].pc \notin {"downStop", "removeStop", "closeWait"}
      /\ IdleCaller.pc \notin {"closeWait", "removeStop"}
  BY <1>1, IdleIsCall
<1> QED BY <1>3, <1>4, <1>6, <1>7, <1>8, <1>9, IdleIsCall, Steps

\* A device that is up has not been closed, and nobody is closing it.
LEMMA UpIsOpen ==
    ASSUME Inv, state = "up"
    PROVE  ~closed /\ ~Released /\ \A d \in Caller : ~NoMoreReceive(caller[d])
<1>1. ~closed
  BY DEF Inv, StateInv
<1>2. ASSUME NEW d \in Caller PROVE ~NoMoreReceive(caller[d]) /\ caller[d].pc # "closeWait"
  <2>1. Path(caller[d].op, caller[d].pc) /\ caller[d].op \in Op /\ StateOK(caller[d], state, closed)
    BY CallerFacts
  <2>2. ~NoMoreReceive(caller[d])
    BY <2>1 DEF StateOK, NoMoreReceive, Change
  <2>3. caller[d].pc = "closeWait" => caller[d].op = "Close"
    BY <2>1 DEF Path, Op, Lower, Raise, Bind, Change, Post
  <2> QED BY <2>2, <2>3 DEF NoMoreReceive
<1> QED BY <1>1, <1>2 DEF Released, At

LEMMA BindOpenInv ==
    ASSUME Inv, NEW c \in Caller, BindOpen(c)
    PROVE  Inv'
<1>1. caller[c].pc = "bindOpen" /\ io.recv = "off" /\ state = "up"
  BY DEF BindOpen, At, IsUp
<1>2. /\ io' = [io EXCEPT !.bind = "open"] /\ Goto(c, "bindStart")
      /\ UNCHANGED <<state, mu, peers, keyMap, closed, peer, worker, queues>>
  BY DEF BindOpen, dev
<1>3. Path(caller[c].op, "bindStart")
  BY <1>1, CallerFacts DEF Path, Op, Lower, Raise, Bind, Change, Post
<1>4. PICK k \in Call : /\ caller' = [caller EXCEPT ![c] = k] /\ k.pc = "bindStart"
                        /\ k.op = caller[c].op /\ k.arg = caller[c].arg /\ k.todo = caller[c].todo
  BY <1>2, <1>3, GotoCall, CallerFacts
<1>5. mu' \in Mutexes /\ mu' = mu /\ mu.net = c
  BY <1>1, <1>2, CallerFacts DEF Owns, HoldsNet
<1>6. Owns(c, k, mu', peers)
  BY <1>1, <1>4, <1>5, CallerFacts DEF Owns, HoldsState, HoldsIpc, HoldsNet,
     WritesPeers, ReadsPeers, Lower, Raise, Bind, Change, Post
<1>7. OthersKept(c, mu, mu', peers, peers)
  BY <1>5 DEF OthersKept
<1>8. /\ StateOK(k, state, closed) /\ KeyOK(k, keyMap, StoppedPeers) /\ ~ReadsPeers(k)
      /\ ~NoMoreReceive(k)
  BY <1>1, <1>3, <1>4, CallerFacts, UpIsOpen
  DEF StateOK, KeyOK, Lower, Raise, Bind, Post, ReadsPeers, Path, NoMoreReceive, Change
<1>9. LockInv /\ StateInv /\ ReceiveInv /\ DevTypes
  BY DEF Inv
<1>10. StateInv'
  BY <1>2, <1>4, <1>8, <1>9, StateStep
<1>11. DevTypes' /\ io'.recv = io.recv /\ io'.reader = io.reader
  BY <1>2, <1>9 DEF DevTypes, IO
<1>12. ReceiveInv'
  <2>1. \A d \in Caller : caller'[d] = IF d = c THEN k ELSE caller[d]
    BY <1>4, <1>9 DEF LockInv, LockTypes
  <2>2. ~closed' /\ \A d \in Caller : ~NoMoreReceive(caller'[d])
    BY <1>1, <1>2, <1>8, <2>1, UpIsOpen
  <2> QED BY <1>1, <1>2, <1>11, <2>2 DEF ReceiveInv
<1>13. caller[c].pc \notin {"downStop", "removeStop", "closeWait"} /\ k.pc \notin {"closeWait", "removeStop"}
  BY <1>1, <1>4
<1> QED BY <1>2, <1>4, <1>5, <1>6, <1>7, <1>8, <1>10, <1>11, <1>12, <1>13, Steps

\* Up and what follows it in a failed or finished bind update.
LEMMA BindFailsInv ==
    ASSUME Inv, NEW c \in Caller, BindFails(c)
    PROVE  Inv'
<1>1. caller[c].pc = "bindOpen" /\ io.recv = "off"
  BY DEF BindFails, At
<1>2. UNCHANGED <<peers, keyMap, closed, peer, worker, queues>> /\ AfterBindUpdate(c, FALSE)
  BY DEF BindFails
<1>3. LockInv /\ StateInv /\ ReceiveInv /\ DevTypes /\ mu.net = c
  BY <1>1, CallerFacts DEF Inv, Owns, HoldsNet
<1>4. io' \in IO /\ io'.recv = io.recv /\ io'.reader = io.reader
  <2>1. PICK b \in {"open", "closed"} : io' = [io EXCEPT !.bind = b]
    BY DEF BindFails
  <2> QED BY <1>3, <2>1 DEF DevTypes, IO
<1>5. \A d \in Caller \ {c} : caller[d].pc # "bindStart"
  BY <1>3, AloneWithBind
<1>6. CASE caller[c].op = "Up"
  <2>1. state' = "down" /\ Goto(c, "bindClose") /\ mu' = [mu EXCEPT !.net = None]
    BY <1>2, <1>6 DEF AfterBindUpdate
  <2>10. ~closed
    BY <1>1, <1>6, CallerFacts, UpIsOpen DEF StateOK, Bind
  <2>2. PICK k \in Call : /\ caller' = [caller EXCEPT ![c] = k] /\ k.pc = "bindClose"
                          /\ k.op = "Up" /\ k.arg = caller[c].arg /\ k.todo = caller[c].todo
    BY <1>6, <2>1, GotoCall, CallerFacts DEF Path, Lower
  <2>3. mu' \in Mutexes /\ mu'.state = mu.state /\ mu'.ipc = mu.ipc /\ mu'.net = None
    BY <2>1, TakesMutex, CallerFacts
  <2>4. mu.state = c /\ Owns(c, k, mu', peers)
    BY <1>1, <1>6, <2>2, <2>3, CallerFacts, SetsAssumption DEF Owns, HoldsState, HoldsIpc, HoldsNet,
       WritesPeers, ReadsPeers, Lower, Raise, Bind, Change, Post
  <2>5. OthersKept(c, mu, mu', peers, peers)
    BY <1>3, <2>3, SetsAssumption DEF OthersKept
  <2>6. /\ StateOK(k, state', FALSE) /\ KeyOK(k, keyMap, StoppedPeers) /\ ~ReadsPeers(k)
        /\ ~NoMoreReceive(k)
    BY <2>1, <2>2 DEF StateOK, KeyOK, Lower, Raise, Bind, Post, ReadsPeers, NoMoreReceive
  <2>7. StateInv' /\ DevTypes'
    BY <1>2, <1>3, <1>4, <2>1, <2>2, <2>4, <2>6, <2>10, StateChange DEF DevTypes
  <2>8. ReceiveInv'
    BY <1>2, <1>3, <1>4, <1>5, <2>2, <2>6, NobodyStarts
  <2>9. caller[c].pc \notin {"downStop", "removeStop", "closeWait"} /\ k.pc \notin {"closeWait", "removeStop"}
    BY <1>1, <2>2
  <2> QED BY <1>2, <1>4, <2>2, <2>3, <2>4, <2>5, <2>6, <2>7, <2>8, <2>9, Steps
<1>7. CASE caller[c].op # "Up"
  <2>1. Return(c) /\ UNCHANGED state
    BY <1>2, <1>7 DEF AfterBindUpdate
  <2>2. /\ caller' = [caller EXCEPT ![c] = IdleCaller] /\ mu' \in Mutexes
        /\ Owns(c, IdleCaller, mu', peers) /\ OthersKept(c, mu, mu', peers, peers)
        /\ StateOK(IdleCaller, state, closed) /\ KeyOK(IdleCaller, keyMap, StoppedPeers)
        /\ ~ReadsPeers(IdleCaller) /\ ~NoMoreReceive(IdleCaller)
    BY <1>1, <2>1, ReturnFacts
  <2>3. StateInv' /\ DevTypes'
    BY <1>2, <1>3, <1>4, <2>1, <2>2, IdleIsCall, StateStep DEF DevTypes
  <2>4. /\ caller[c].pc \notin {"downStop", "removeStop", "closeWait"}
        /\ IdleCaller.pc \notin {"closeWait", "removeStop", "bindStart"}
    BY <1>1, IdleIsCall
  <2>5. io'.recv = "off" /\ UNCHANGED closed
    BY <1>1, <1>2, <1>4
  <2>6. ReceiveInv'
    BY <1>3, <1>4, <1>5, <2>2, <2>4, <2>5, IdleIsCall, NobodyStarts
  <2> QED BY <1>2, <1>4, <2>2, <2>3, <2>4, <2>6, IdleIsCall, Steps
<1> QED BY <1>6, <1>7

\* The receive routine is started, and counted by the two queues it writes to.
LEMMA BindStartInv ==
    ASSUME Inv, NEW c \in Caller, BindStart(c)
    PROVE  Inv'
<1>1. caller[c].pc = "bindStart" /\ io.recv = "off"
  BY DEF BindStart, At, Inv, ReceiveInv
<1>2. /\ UNCHANGED <<peers, keyMap, closed, peer, worker, open>> /\ AfterBindUpdate(c, TRUE)
      /\ io' = [io EXCEPT !.recv = "reading"] /\ Add({"decryption", "handshake"})
  BY DEF BindStart
<1>3. /\ LockInv /\ StateInv /\ ReceiveInv /\ DevTypes /\ PeerInv /\ KeyInv /\ ReleasedInv
      /\ WorkerInv /\ QueueInv /\ mu.net = c
  BY <1>1, CallerFacts DEF Inv, Owns, HoldsNet
<1>4. io' \in IO /\ io'.recv = "reading" /\ io'.reader = io.reader
  BY <1>2, <1>3 DEF DevTypes, IO
<1>5. \A d \in Caller \ {c} : caller[d].pc # "bindStart"
  BY <1>3, AloneWithBind
<1>6. ~closed /\ \A d \in Caller : ~NoMoreReceive(caller[d])
  BY <1>1, <1>3 DEF ReceiveInv, At
<1>7. \E k \in Call :
        /\ caller' = [caller EXCEPT ![c] = k] /\ mu' \in Mutexes /\ mu'.net = None
        /\ Owns(c, k, mu', peers) /\ OthersKept(c, mu, mu', peers, peers)
        /\ StateOK(k, state, closed) /\ KeyOK(k, keyMap, StoppedPeers)
        /\ ~ReadsPeers(k) /\ ~NoMoreReceive(k) /\ k.pc \in {"idle", "upLockIpc"} /\ state' = state
  <2>1. CASE caller[c].op = "Up"
    <3>1. state' = state /\ Goto(c, "upLockIpc") /\ mu' = [mu EXCEPT !.net = None]
      BY <1>2, <2>1 DEF AfterBindUpdate
    <3>2. PICK k \in Call : /\ caller' = [caller EXCEPT ![c] = k] /\ k.pc = "upLockIpc"
                            /\ k.op = "Up" /\ k.arg = caller[c].arg /\ k.todo = caller[c].todo
      BY <2>1, <3>1, GotoCall, CallerFacts DEF Path
    <3>3. mu' \in Mutexes /\ mu'.state = mu.state /\ mu'.ipc = mu.ipc /\ mu'.net = None
      BY <3>1, TakesMutex, CallerFacts
    <3>4. Owns(c, k, mu', peers)
      BY <1>1, <2>1, <3>2, <3>3, CallerFacts, SetsAssumption DEF Owns, HoldsState, HoldsIpc, HoldsNet,
         WritesPeers, ReadsPeers, Lower, Raise, Bind, Change, Post
    <3>5. OthersKept(c, mu, mu', peers, peers)
      BY <1>3, <3>3, SetsAssumption DEF OthersKept
    <3>6. /\ StateOK(k, state, closed) /\ KeyOK(k, keyMap, StoppedPeers) /\ ~ReadsPeers(k)
          /\ ~NoMoreReceive(k)
      BY <1>1, <1>6, <2>1, <3>1, <3>2, CallerFacts
      DEF StateOK, KeyOK, Lower, Raise, Bind, Post, ReadsPeers, NoMoreReceive
    <3> QED BY <3>1, <3>2, <3>3, <3>4, <3>5, <3>6
  <2>2. CASE caller[c].op # "Up"
    BY <1>1, <1>2, <2>2, ReturnFacts, IdleIsCall DEF AfterBindUpdate
  <2> QED BY <2>1, <2>2
<1>8. PICK k \in Call :
        /\ caller' = [caller EXCEPT ![c] = k] /\ mu' \in Mutexes /\ mu'.net = None
        /\ Owns(c, k, mu', peers) /\ OthersKept(c, mu, mu', peers, peers)
        /\ StateOK(k, state, closed) /\ KeyOK(k, keyMap, StoppedPeers)
        /\ ~ReadsPeers(k) /\ ~NoMoreReceive(k) /\ k.pc \in {"idle", "upLockIpc"} /\ state' = state
  BY <1>7
<1>9. LockInv'
  BY <1>2, <1>8, LockStep, CallerFacts
<1>10. StateInv' /\ DevTypes' /\ WorkerInv'
  BY <1>2, <1>3, <1>4, <1>8, StateStep DEF DevTypes, WorkerInv
<1>11. PeerInv' /\ StoppedPeers' = StoppedPeers
  <2>1. \A p \in Peer : peer[p].mu # c
    BY <1>1, CallerFacts
  <2> QED BY <1>2, <1>3, <1>8, <2>1, PeerStep
<1>12. KeyInv' /\ ReleasedInv' /\ Released' = Released
  <2>1. k.pc = "closeWait" <=> caller[c].pc = "closeWait"
    BY <1>1, <1>8
  <2> QED BY <1>2, <1>3, <1>8, <1>11, <2>1, KeyStep
<1>13. \A d \in Caller : caller'[d] = IF d = c THEN k ELSE caller[d]
  BY <1>3, <1>8 DEF LockInv, LockTypes
<1>14. ReceiveInv'
  <2>1. \A d \in Caller : caller'[d].pc # "bindStart" /\ ~NoMoreReceive(caller'[d])
    BY <1>5, <1>6, <1>8, <1>13
  <2>2. state' # "up" => \E d \in Caller : caller'[d].pc = "bindClose"
    <3>1. state # "up" => \E d \in Caller : caller[d].pc = "bindClose"
      BY <1>1, <1>3 DEF ReceiveInv, At
    <3> QED BY <1>1, <1>8, <1>13, <3>1
  <2> QED BY <1>2, <1>6, <2>1, <2>2 DEF ReceiveInv, At
<1>15. QueueInv'
  <2>1. /\ refs' \in [Queue -> Int] /\ open' \in [Queue -> BOOLEAN]
        /\ refs'["encryption"] = refs["encryption"]
        /\ \A q \in {"decryption", "handshake"} : refs'[q] = refs[q] + 1
    BY <1>2, <1>3 DEF QueueInv, Add, Queue
  <2>2. ~Released
    BY <1>3, <1>6 DEF Released, At, NoMoreReceive, LockInv, LockTypes, Call, Path, Op, Lower, Raise, Bind, Change, Post
  <2>3. RefsExact'
    BY <1>1, <1>2, <1>3, <1>4, <1>12, <2>1, <2>2 DEF QueueInv, RefsExact, Count
  <2>4. \A q \in Queue : ~open'[q] => refs'[q] = 0
    BY <1>1, <1>2, <1>3, <2>1, <2>2 DEF QueueInv, RefsExact, Count, Queue
  <2> QED BY <2>1, <2>3, <2>4 DEF QueueInv
<1> QED BY <1>9, <1>10, <1>11, <1>12, <1>14, <1>15 DEF Inv

-----------------------------------------------------------------------------
(* Peers are started and stopped, added and removed *)

Alive == {w \in Worker : worker[w].pc # "off"}
Active == {p \in Peer : peer[p].running \/ peer[p].stopAt # "no"}

LEMMA QueueFacts ==
    ASSUME QueueInv
    PROVE  /\ IsFiniteSet(Alive) /\ Cardinality(Alive) \in Nat
           /\ IsFiniteSet(Active) /\ Cardinality(Active) \in Nat
           /\ refs["encryption"] = Count(~Released) + Count(io.reader # "off")
                                   + Cardinality(Alive) + Cardinality(Active)
           /\ refs["decryption"] = Count(~Released) + Count(io.recv # "off")
           /\ refs["handshake"] = Count(~Released) + Count(io.recv # "off")
<1>1. IsFiniteSet(Alive) /\ IsFiniteSet(Active)
  BY FS_Subset, SetsAssumption DEF Alive, Active
<1>2. Cardinality(Alive) \in Nat /\ Cardinality(Active) \in Nat
  BY <1>1, FS_CardinalityType
<1> QED BY <1>1, <1>2 DEF QueueInv, RefsExact, Alive, Active

\* The caller of Start owns ipc, so that nobody is removing peers.
LEMMA Starts ==
    ASSUME Inv, NEW c \in Caller, NEW k \in Call, caller' = [caller EXCEPT ![c] = k],
           NEW p \in keyMap, Start(p), UNCHANGED <<dev, io, worker>>,
           mu.ipc = c, Owns(c, k, mu, peers), ReadsPeers(k) => ReadsPeers(caller[c]),
           caller[c].pc \notin NetPc \cup {"removeStop", "downStop"},
           k.pc \notin NetPc \cup {"removeStop", "downStop", "lockPeers", "awaitPeers"},
           NoMoreReceive(k) => NoMoreReceive(caller[c]),
           StateOK(k, state, closed), KeyOK(k, keyMap, StoppedPeers)
    PROVE  Inv'
<1>1. /\ LockInv /\ DevTypes /\ StateInv /\ ReceiveInv /\ PeerInv /\ KeyInv /\ ReleasedInv
      /\ WorkerInv /\ QueueInv
  BY DEF Inv
<1>2. /\ UNCHANGED <<state, mu, peers, keyMap, closed, io, worker>>
      /\ mu' \in Mutexes /\ peers' \in PeersLock /\ Owns(c, k, mu', peers')
      /\ OthersKept(c, mu, mu', peers, peers')
  BY CallerFacts DEF dev, OthersKept
<1>3. \A q \in Peer : peer[q].mu # c
  BY CallerFacts
<1>4. CASE peer[p].running
  <2>1. UNCHANGED <<peer, queues>>
    BY <1>4 DEF Start
  <2> QED BY <1>2, <1>3, <2>1, Moves
<1>5. CASE ~peer[p].running
  <2> DEFINE r == [peer[p] EXCEPT !.running = TRUE, !.sender = "idle", !.receiver = "idle",
                                  !.inbound = <<>>]
  <2>1. /\ peer[p].mu = None /\ Add({"encryption"}) /\ UNCHANGED open
        /\ peer' = [peer EXCEPT ![p].running = TRUE, ![p].sender = "idle",
                                ![p].receiver = "idle", ![p].inbound = <<>>]
    BY <1>5 DEF Start
  <2>2. p \in Peer /\ peer = [q \in Peer |-> peer[q]] /\ PeerOK(p, peer[p], caller)
    BY <1>1 DEF DevTypes, PeerInv
  <2>3. peer' = [peer EXCEPT ![p] = r]
    BY <2>1, <2>2
  <2>4. r \in PeerState /\ r.running /\ r.stopAt = peer[p].stopAt /\ r.mu = None
    <3>1. <<>> \in Seq({"packet", "stop"})
      OBVIOUS
    <3>2. peer[p] \in PeerState
      BY <2>2 DEF PeerOK
    <3> QED BY <2>1, <3>1, <3>2 DEF PeerState
  <2>5. peer[p].stopAt = "no"
    BY <2>1, <2>2, SetsAssumption DEF PeerOK
  <2> HIDE DEF r
  <2>6. \A q \in Peer : peer'[q] = IF q = p THEN r ELSE peer[q]
    BY <2>2, <2>3
  <2>7. \A d \in Caller : caller'[d] = IF d = c THEN k ELSE caller[d]
    BY <1>1 DEF LockInv, LockTypes
  <2>8. StoppedPeers' = StoppedPeers \ {p}
    BY <2>4, <2>6 DEF StoppedPeers, Stopped
  <2>9. PeerInv'
    <3>1. PeerOK(p, r, caller')
      BY <2>4, <2>5, SetsAssumption DEF PeerOK
    <3>2. ASSUME NEW q \in Peer, q # p PROVE PeerOK(q, peer[q], caller')
      <4>1. PeerOK(q, peer[q], caller) /\ peer[q].mu # c
        BY <1>1, <1>3 DEF PeerInv
      <4> QED BY <2>7, <4>1 DEF PeerOK
    <3>3. peer' = [q \in Peer |-> peer'[q]]
      BY <2>2, <2>3
    <3>4. Peer \ keyMap' \subseteq StoppedPeers'
      BY <1>1, <1>2, <2>8 DEF PeerInv
    <3> QED BY <2>6, <3>1, <3>2, <3>3, <3>4 DEF PeerInv
  <2>10. KeyInv'
    <3>1. ASSUME NEW d \in Caller, d # c PROVE caller[d].pc # "removeStop"
      BY <1>1, <3>1 DEF LockInv, Owns, HoldsIpc, Change
    <3>2. ASSUME NEW d \in Caller PROVE KeyOK(caller'[d], keyMap, StoppedPeers')
      <4>1. KeyOK(caller'[d], keyMap, StoppedPeers) /\ caller'[d].pc # "removeStop"
        BY <1>1, <2>7, <3>1 DEF KeyInv
      <4> QED BY <4>1 DEF KeyOK
    <3> QED BY <1>2, <3>2 DEF KeyInv
  <2>11. ~Released /\ ~Released'
    <3>1. ~Released
      BY <1>1 DEF ReleasedInv
    <3>2. Released' <=> Released
      BY <1>2, <2>7 DEF Released, At, NetPc
    <3> QED BY <3>1, <3>2
  <2>12. LockInv'
    BY <1>1, <1>2, LockStep
  <2>13. StateInv' /\ DevTypes' /\ WorkerInv' /\ ReleasedInv'
    BY <1>1, <1>2, <2>11, StateStep DEF DevTypes, WorkerInv, ReleasedInv
  <2>14. ReceiveInv'
    BY <1>1, <1>2, ReceiveMoves
  <2>15. QueueInv'
    <3>1. Active' = Active \cup {p} /\ p \notin Active /\ Alive' = Alive
      <4>1. p \in Active' /\ p \notin Active /\ p \in Peer
        BY <1>5, <2>2, <2>4, <2>5, <2>6 DEF Active
      <4>2. \A q \in Peer \ {p} : q \in Active' <=> q \in Active
        BY <2>6 DEF Active
      <4>3. Active \subseteq Peer /\ Active' \subseteq Peer
        BY DEF Active
      <4>4. Alive' = Alive
        BY <1>2 DEF Alive
      <4> QED BY <4>1, <4>2, <4>3, <4>4
    <3>2. Cardinality(Active') = Cardinality(Active) + 1
      BY <1>1, <3>1, QueueFacts, FS_AddElement
    <3>3. /\ refs' \in [Queue -> Int] /\ open' \in [Queue -> BOOLEAN] /\ open' = open
          /\ refs'["encryption"] = refs["encryption"] + 1
          /\ \A q \in {"decryption", "handshake"} : refs'[q] = refs[q]
      BY <1>1, <2>1 DEF QueueInv, Add, Queue
    <3>4. RefsExact'
      <4>1. refs'["encryption"] = 1 + Count(io'.reader # "off") + Cardinality(Alive') + Cardinality(Active')
        BY <1>1, <1>2, <2>11, <3>1, <3>2, <3>3, QueueFacts DEF Count
      <4> QED BY <1>1, <1>2, <2>11, <3>3, <4>1 DEF QueueInv, RefsExact, Count, Alive, Active
    <3>5. refs["encryption"] > 0
      BY <1>1, <2>11, QueueFacts DEF Count
    <3>6. \A q \in Queue : ~open'[q] => refs'[q] = 0
      BY <1>1, <3>3, <3>5 DEF QueueInv, Queue
    <3> QED BY <3>3, <3>4, <3>6 DEF QueueInv
  <2> QED BY <2>9, <2>10, <2>12, <2>13, <2>14, <2>15 DEF Inv
<1> QED BY <1>4, <1>5

LEMMA UpStartInv ==
    ASSUME Inv, NEW c \in Caller, UpStart(c)
    PROVE  Inv'
<1>1. caller[c].pc = "upStart" /\ caller[c].op = "Up" /\ UNCHANGED <<dev, io, worker>>
  BY CallerFacts DEF UpStart, At, Path, Op, Lower, Raise, Bind, Change, Post
<1>2. PICK p \in caller[c].todo :
          /\ Start(p)
          /\ GotoWith(c, IF p \in Keepalive THEN "upKeepalive" ELSE "upStart", caller[c].todo \ {p})
  BY DEF UpStart
<1>3. PICK pc \in {"upKeepalive", "upStart"} : GotoWith(c, pc, caller[c].todo \ {p})
  BY <1>2
<1>4. PICK k \in Call : /\ caller' = [caller EXCEPT ![c] = k] /\ k.pc = pc
                        /\ k.op = "Up" /\ k.arg = caller[c].arg /\ k.todo = caller[c].todo \ {p}
  BY <1>1, <1>3, GotoWithCall, CallerFacts DEF Path, Raise
<1>5. p \in keyMap /\ mu.ipc = c
  BY <1>1, CallerFacts DEF KeyOK, Owns, HoldsIpc, Raise
<1>6. Owns(c, k, mu, peers) /\ ReadsPeers(caller[c])
  BY <1>1, <1>4, CallerFacts DEF Owns, HoldsState, HoldsIpc, HoldsNet,
     WritesPeers, ReadsPeers, Lower, Raise, Bind, Change, Post
<1>7. StateOK(k, state, closed) /\ KeyOK(k, keyMap, StoppedPeers) /\ ~NoMoreReceive(k)
  BY <1>1, <1>4, CallerFacts DEF StateOK, KeyOK, Lower, Raise, Bind, Post, NoMoreReceive
<1>8. /\ caller[c].pc \notin NetPc \cup {"removeStop", "downStop"}
      /\ k.pc \notin NetPc \cup {"removeStop", "downStop", "lockPeers", "awaitPeers"}
  BY <1>1, <1>4 DEF NetPc
<1> QED BY <1>1, <1>2, <1>4, <1>5, <1>6, <1>7, <1>8, Starts

LEMMA PostStartInv ==
    ASSUME Inv, NEW c \in Caller, PostStart(c)
    PROVE  Inv'
<1>1. caller[c].pc = "postStartLocked" /\ caller[c].op = "Add" /\ UNCHANGED <<dev, io, worker>>
  BY CallerFacts DEF PostStart, At, Path, Op, Lower, Raise, Bind, Change, Post
<1>2. PICK k \in Call : /\ caller' = [caller EXCEPT ![c] = k] /\ k.pc = "postSend"
                        /\ k.op = "Add" /\ k.arg = caller[c].arg /\ k.todo = caller[c].todo
  BY <1>1, GotoCall, CallerFacts DEF Path, Post, PostStart
<1>3. caller[c].arg \in keyMap /\ mu.ipc = c /\ Start(caller[c].arg)
  BY <1>1, CallerFacts DEF KeyOK, Owns, HoldsIpc, Post, PostStart
<1>4. Owns(c, k, mu, peers) /\ ~ReadsPeers(k)
  BY <1>1, <1>2, CallerFacts DEF Owns, HoldsState, HoldsIpc, HoldsNet,
     WritesPeers, ReadsPeers, Lower, Raise, Bind, Change, Post
<1>5. StateOK(k, state, closed) /\ KeyOK(k, keyMap, StoppedPeers) /\ ~NoMoreReceive(k)
  BY <1>1, <1>2, CallerFacts DEF StateOK, KeyOK, Lower, Raise, Bind, Post, NoMoreReceive
<1>6. /\ caller[c].pc \notin NetPc \cup {"removeStop", "downStop"}
      /\ k.pc \notin NetPc \cup {"removeStop", "downStop", "lockPeers", "awaitPeers"}
  BY <1>1, <1>2 DEF NetPc
<1> QED BY <1>1, <1>2, <1>3, <1>4, <1>5, <1>6, Starts

\* Stop takes the state mutex of a running peer.
LEMMA StopBeginInv ==
    ASSUME Inv, NEW c \in Caller, StopBegin(c)
    PROVE  Inv'
<1>1. /\ LockInv /\ DevTypes /\ StateInv /\ ReceiveInv /\ PeerInv /\ KeyInv /\ ReleasedInv
      /\ WorkerInv /\ QueueInv
  BY DEF Inv
<1>2. /\ caller[c].pc \in {"downStop", "removeStop"} /\ caller[c].todo \in SUBSET Peer
      /\ UNCHANGED <<state, mu, peers, keyMap, closed, caller, io, worker, refs, open>>
  BY CallerFacts DEF StopBegin, Stopping, At, dev, queues
<1>3. PICK p \in caller[c].todo :
          /\ peer[p].mu = None /\ peer[p].running
          /\ peer' = [peer EXCEPT ![p].mu = c, ![p].running = FALSE, ![p].stopAt = "timers"]
  BY DEF StopBegin
<1> DEFINE r == [peer[p] EXCEPT !.mu = c, !.running = FALSE, !.stopAt = "timers"]
<1>4. p \in Peer /\ peer = [q \in Peer |-> peer[q]] /\ peer[p] \in PeerState
  BY <1>1, <1>2 DEF PeerInv, PeerOK
<1>5. peer' = [peer EXCEPT ![p] = r]
  BY <1>3, <1>4
<1>6. r \in PeerState /\ r.running = FALSE /\ r.stopAt = "timers" /\ r.mu = c
  BY <1>4 DEF PeerState
<1> HIDE DEF r
<1>7. \A q \in Peer : peer'[q] = IF q = p THEN r ELSE peer[q]
  BY <1>4, <1>5
<1>8. StoppedPeers' = StoppedPeers
  BY <1>3, <1>6, <1>7 DEF StoppedPeers, Stopped
<1>9. PeerInv'
  <2>1. PeerOK(p, r, caller)
    BY <1>2, <1>6 DEF PeerOK
  <2>2. \A q \in Peer : PeerOK(q, peer'[q], caller')
    BY <1>1, <1>2, <1>7, <2>1 DEF PeerInv
  <2>3. peer' = [q \in Peer |-> peer'[q]]
    BY <1>4, <1>5
  <2> QED BY <1>1, <1>2, <1>8, <2>2, <2>3 DEF PeerInv
<1>10. LockInv' /\ StateInv' /\ ReceiveInv' /\ KeyInv' /\ ReleasedInv'
  BY <1>1, <1>2, <1>8, LockKept, StateKept, ReceiveKept, KeyKept
<1>11. DevTypes' /\ WorkerInv' /\ Released' = Released
  BY <1>1, <1>2 DEF DevTypes, WorkerInv, Released, At
<1>12. QueueInv'
  BY <1>1, <1>2, <1>8, <1>9, <1>11, QueueKept
<1> QED BY <1>9, <1>10, <1>11, <1>12 DEF Inv

\* The routines of the peer have ended: its reference is given up.
LEMMA StopEndInv ==
    ASSUME Inv, NEW p \in Peer, StopEnd(p)
    PROVE  Inv'
<1>1. /\ LockInv /\ DevTypes /\ StateInv /\ ReceiveInv /\ PeerInv /\ KeyInv /\ ReleasedInv
      /\ WorkerInv /\ QueueInv
  BY DEF Inv
<1> DEFINE c == peer[p].mu
           r == [peer[p] EXCEPT !.mu = None, !.stopAt = "no"]
<1>2. /\ peer[p].stopAt = "wait" /\ peer[p].sender = "off" /\ peer[p].receiver = "off"
      /\ Release({"encryption"}) /\ peer' = [peer EXCEPT ![p].mu = None, ![p].stopAt = "no"]
      /\ GotoWith(c, caller[c].pc, caller[c].todo \ {p})
      /\ UNCHANGED <<state, mu, peers, keyMap, closed, io, worker, open>>
  BY DEF StopEnd, dev
<1>3. /\ peer = [q \in Peer |-> peer[q]] /\ peer[p] \in PeerState /\ ~peer[p].running
      /\ c \in Caller /\ caller[c].pc \in {"downStop", "removeStop"} /\ p \in caller[c].todo
  BY <1>1, <1>2 DEF PeerInv, PeerOK
<1>4. peer' = [peer EXCEPT ![p] = r]
  BY <1>2, <1>3
<1>5. /\ r \in PeerState /\ r.running = FALSE /\ r.stopAt = "no" /\ r.mu = None
      /\ r.sender = "off" /\ r.receiver = "off"
  BY <1>2, <1>3 DEF PeerState
<1> HIDE DEF c, r
<1>6. PICK k \in Call : /\ caller' = [caller EXCEPT ![c] = k] /\ k.pc = caller[c].pc
                        /\ k.op = caller[c].op /\ k.arg = caller[c].arg /\ k.todo = caller[c].todo \ {p}
  BY <1>2, <1>3, GotoWithCall, CallerFacts
<1>7. \A q \in Peer : peer'[q] = IF q = p THEN r ELSE peer[q]
  BY <1>3, <1>4
<1>8. \A d \in Caller : caller'[d] = IF d = c THEN k ELSE caller[d]
  BY <1>1, <1>6 DEF LockInv, LockTypes
<1>9. StoppedPeers' = StoppedPeers \cup {p}
  <2>1. p \in StoppedPeers'
    BY <1>5, <1>7 DEF StoppedPeers, Stopped
  <2>2. \A q \in Peer \ {p} : q \in StoppedPeers' <=> q \in StoppedPeers
    BY <1>7 DEF StoppedPeers, Stopped
  <2>3. StoppedPeers \subseteq Peer /\ StoppedPeers' \subseteq Peer
    BY DEF StoppedPeers
  <2> QED BY <2>1, <2>2, <2>3
<1>10. PeerInv'
  <2>1. PeerOK(p, r, caller')
    BY <1>5, SetsAssumption DEF PeerOK
  <2>2. ASSUME NEW q \in Peer, q # p PROVE PeerOK(q, peer[q], caller')
    <3>1. PeerOK(q, peer[q], caller)
      BY <1>1 DEF PeerInv
    <3> QED BY <1>6, <1>8, <2>2, <3>1 DEF PeerOK
  <2>3. peer' = [q \in Peer |-> peer'[q]]
    BY <1>3, <1>4
  <2>4. Peer \ keyMap' \subseteq StoppedPeers'
    BY <1>1, <1>2, <1>9 DEF PeerInv
  <2> QED BY <1>7, <2>1, <2>2, <2>3, <2>4 DEF PeerInv
<1>11. KeyInv'
  <2>1. ASSUME NEW d \in Caller PROVE KeyOK(caller'[d], keyMap, StoppedPeers')
    <3>1. KeyOK(caller[d], keyMap, StoppedPeers)
      BY <1>1 DEF KeyInv
    <3> QED BY <1>3, <1>6, <1>8, <1>9, <3>1 DEF KeyOK, Post
  <2> QED BY <1>2, <2>1 DEF KeyInv
<1>12. ~Released /\ ~Released'
  <2>1. ~Released
    BY <1>1, <1>2 DEF ReleasedInv, Stopped
  <2>2. Released' <=> Released
    BY <1>2, <1>3, <1>6, <1>8 DEF Released, At
  <2> QED BY <2>1, <2>2
<1>13. /\ Owns(c, k, mu', peers') /\ OthersKept(c, mu, mu', peers, peers')
       /\ (ReadsPeers(k) <=> ReadsPeers(caller[c])) /\ StateOK(k, state, closed)
       /\ (NoMoreReceive(k) <=> NoMoreReceive(caller[c]))
  BY <1>2, <1>3, <1>6, CallerFacts DEF Owns, HoldsState, HoldsIpc, HoldsNet, WritesPeers, ReadsPeers,
     OthersKept, StateOK, NoMoreReceive
<1>14. LockInv'
  <2>1. mu' \in Mutexes /\ peers' \in PeersLock /\ (k.pc = "removeStop" => peers'.r = {})
    BY <1>1, <1>2, <1>3, <1>6 DEF LockInv, LockTypes
  <2> QED BY <1>1, <1>3, <1>6, <1>13, <2>1, LockStep
<1>15. StateInv' /\ DevTypes' /\ WorkerInv' /\ ReleasedInv'
  BY <1>1, <1>2, <1>3, <1>6, <1>12, <1>13, StateStep DEF DevTypes, WorkerInv, ReleasedInv
<1>16. ReceiveInv'
  <2>1. caller[c].pc \notin NetPc /\ k.pc \notin NetPc
    BY <1>3, <1>6 DEF NetPc
  <2>2. mu'.net = mu.net /\ io' = io /\ UNCHANGED <<state, closed>>
    BY <1>2
  <2> QED BY <1>1, <1>3, <1>6, <1>13, <2>1, <2>2, ReceiveMoves
<1>17. QueueInv'
  <2>1. Active' = Active \ {p} /\ p \in Active /\ Alive' = Alive
    <3>1. p \notin Active' /\ p \in Active
      BY <1>2, <1>5, <1>7 DEF Active
    <3>2. \A q \in Peer \ {p} : q \in Active' <=> q \in Active
      BY <1>7 DEF Active
    <3>3. Active \subseteq Peer /\ Active' \subseteq Peer
      BY DEF Active
    <3>4. Alive' = Alive
      BY <1>2 DEF Alive
    <3> QED BY <3>1, <3>2, <3>3, <3>4
  <2>2. Cardinality(Active') = Cardinality(Active) - 1
    BY <1>1, <2>1, QueueFacts, FS_RemoveElement
  <2>3. /\ refs' \in [Queue -> Int] /\ open' \in [Queue -> BOOLEAN] /\ open' = open
        /\ refs'["encryption"] = refs["encryption"] - 1
        /\ \A q \in {"decryption", "handshake"} : refs'[q] = refs[q]
    BY <1>1, <1>2 DEF QueueInv, Release, Queue
  <2>4. refs'["encryption"] = 1 + Count(io'.reader # "off") + Cardinality(Alive') + Cardinality(Active')
    BY <1>1, <1>2, <1>12, <2>1, <2>2, <2>3, QueueFacts DEF Count
  <2>5. RefsExact'
    BY <1>1, <1>2, <1>12, <2>3, <2>4 DEF QueueInv, RefsExact, Count, Alive, Active
  <2>6. refs["encryption"] > 0
    BY <1>1, <1>12, QueueFacts DEF Count
  <2>7. \A q \in Queue : ~open'[q] => refs'[q] = 0
    BY <1>1, <2>3, <2>6 DEF QueueInv, Queue
  <2> QED BY <2>3, <2>5, <2>7 DEF QueueInv
<1> QED BY <1>10, <1>11, <1>14, <1>15, <1>16, <1>17 DEF Inv

\* While c changes the key map nobody else configures, starts or removes peers.
LEMMA AloneWithPeers ==
    ASSUME LockInv, NEW c \in Caller, mu.ipc = c
    PROVE  \A d \in Caller \ {c} : caller[d].pc \notin Raise \cup Change \cup Post \cup {"closeWait"}
BY DEF LockInv, Owns, HoldsIpc

\* The key map changes: c owns ipc and the write lock of the peers, and the
\* peers that are not in the map afterwards are stopped.
LEMMA ChangesKeyMap ==
    ASSUME Inv, NEW c \in Caller, NEW k \in Call, caller' = [caller EXCEPT ![c] = k],
           UNCHANGED <<state, closed, peer, io, worker, queues>>,
           caller[c].pc \in {"awaitPeers", "removeStop"}, keyMap' \subseteq Peer,
           Peer \ keyMap' \subseteq StoppedPeers,
           k.pc \in {"idle", "postConfig", "lockPeers"}, caller[c].op # "Close",
           mu' \in Mutexes, mu'.net = mu.net, peers' \in PeersLock,
           Owns(c, k, mu', peers'), OthersKept(c, mu, mu', peers, peers'),
           KeyOK(k, keyMap', StoppedPeers), k.op # "Close",
           \A p \in Peer : peer[p].mu # c
    PROVE  Inv'
<1>1. /\ LockInv /\ DevTypes /\ StateInv /\ ReceiveInv /\ PeerInv /\ KeyInv /\ ReleasedInv
      /\ WorkerInv /\ QueueInv
  BY DEF Inv
<1>2. mu.ipc = c /\ ~closed /\ caller[c].pc \notin NetPc /\ k.pc \notin NetPc
  BY CallerFacts DEF Owns, HoldsIpc, Change, StateOK, NetPc
<1>3. \A d \in Caller : caller'[d] = IF d = c THEN k ELSE caller[d]
  BY <1>1 DEF LockInv, LockTypes
<1>4. ~ReadsPeers(k) /\ ~NoMoreReceive(k) /\ StateOK(k, state, closed)
  BY <1>2 DEF ReadsPeers, NoMoreReceive, StateOK, Bind, Raise, Lower
<1>5. StoppedPeers' = StoppedPeers
  BY DEF StoppedPeers, Stopped
<1>6. PeerInv'
  <2>1. ASSUME NEW p \in Peer PROVE PeerOK(p, peer[p], caller')
    <3>1. PeerOK(p, peer[p], caller)
      BY <1>1 DEF PeerInv
    <3> QED BY <1>3, <3>1 DEF PeerOK
  <2> QED BY <1>1, <1>5, <2>1 DEF PeerInv
<1>7. KeyInv'
  <2>1. ASSUME NEW d \in Caller, d # c PROVE KeyOK(caller[d], keyMap', StoppedPeers)
    BY <1>1, <1>2, <2>1, AloneWithPeers DEF KeyOK, Raise, Change, Post
  <2> QED BY <1>3, <1>5, <2>1 DEF KeyInv
<1>8. ~Released /\ ~Released'
  BY <1>1, <1>2, <1>3, AloneWithPeers DEF Released, At
<1>9. LockInv'
  BY <1>1, <1>4, LockStep
<1>10. StateInv' /\ DevTypes' /\ WorkerInv' /\ ReleasedInv'
  <2>1. StateInv'
    BY <1>1, <1>4, StateStep
  <2>2. DevTypes' /\ WorkerInv'
    BY <1>1 DEF DevTypes, WorkerInv
  <2>3. ReleasedInv'
    BY <1>8 DEF ReleasedInv
  <2> QED BY <2>1, <2>2, <2>3
<1>11. ReceiveInv'
  BY <1>1, <1>2, <1>4, ReceiveMoves
<1>12. QueueInv'
  <2>1. Released' = Released
    BY <1>8 DEF Released
  <2> QED BY <1>1, <1>5, <1>6, <2>1, QueueKept DEF queues
<1> QED BY <1>6, <1>7, <1>9, <1>10, <1>11, <1>12 DEF Inv

LEMMA LockPeersInv ==
    ASSUME Inv, NEW c \in Caller, LockPeers(c)
    PROVE  Inv'
<1> DEFINE pc == IF caller[c].op = "Add" THEN "postConfig" ELSE "lockPeers"
<1>1. CASE caller[c].arg \notin Peer \ keyMap
  BY <1>1, BeginsToRemove
<1>2. CASE caller[c].arg \in Peer \ keyMap
  <2>1. /\ caller[c].pc = "awaitPeers" /\ peers.r = {}
        /\ keyMap' = keyMap \cup {caller[c].arg} /\ peers' = [peers EXCEPT !.w = None]
        /\ Goto(c, pc) /\ UNCHANGED <<state, mu, closed, peer, io, worker, queues>>
    BY <1>2 DEF LockPeers, At
  <2>2. caller[c].op \in {"Add", "Remove"}
    BY <1>2, CallAt, CallerFacts, SetsAssumption
  <2>3. pc = IF caller[c].op = "Add" THEN "postConfig" ELSE "lockPeers"
    OBVIOUS
  <2> HIDE DEF pc
  <2>4. Path(caller[c].op, pc)
    BY <2>2, <2>3 DEF Path, Change, Post
  <2>5. PICK k \in Call : /\ caller' = [caller EXCEPT ![c] = k] /\ k.pc = pc
                          /\ k.op = caller[c].op /\ k.arg = caller[c].arg /\ k.todo = caller[c].todo
    BY <2>1, <2>4, GotoCall, CallerFacts
  <2>6. peers' \in PeersLock /\ peers'.w = None /\ peers'.r = peers.r /\ peers.w = c
    BY <2>1, TakesPeers, CallerFacts DEF Owns, WritesPeers
  <2>7. Owns(c, k, mu', peers') /\ mu' \in Mutexes
    BY <2>1, <2>2, <2>3, <2>5, <2>6, CallerFacts, SetsAssumption DEF Owns, HoldsState, HoldsIpc, HoldsNet,
       WritesPeers, ReadsPeers, Lower, Raise, Bind, Change, Post
  <2>8. OthersKept(c, mu, mu', peers, peers')
    BY <2>1, <2>6, SetsAssumption DEF OthersKept
  <2>9. KeyOK(k, keyMap', StoppedPeers)
    BY <2>1, <2>2, <2>3, <2>5 DEF KeyOK, Post
  <2>10. keyMap' \subseteq Peer /\ Peer \ keyMap' \subseteq StoppedPeers
    BY <1>2, <2>1 DEF Inv, DevTypes, PeerInv
  <2>11. \A p \in Peer : peer[p].mu # c
    BY <2>1, CallerFacts
  <2>12. k.pc \in {"idle", "postConfig", "lockPeers"} /\ caller[c].op # "Close" /\ mu'.net = mu.net
    BY <2>1, <2>2, <2>3, <2>5
  <2> QED BY <2>1, <2>5, <2>6, <2>7, <2>8, <2>9, <2>10, <2>11, <2>12, ChangesKeyMap
<1> QED BY <1>1, <1>2

LEMMA RemovePeerInv ==
    ASSUME Inv, NEW c \in Caller, RemovePeer(c)
    PROVE  Inv'
<1>1. /\ caller[c].pc = "removeStop" /\ caller[c].op = "Remove" /\ caller[c].todo = {}
      /\ keyMap' = keyMap \ {caller[c].arg} /\ peers' = [peers EXCEPT !.w = None] /\ Return(c)
      /\ UNCHANGED <<state, closed, peer, io, worker, queues>>
  BY DEF RemovePeer, At
<1>2. /\ caller' = [caller EXCEPT ![c] = IdleCaller] /\ mu' \in Mutexes
      /\ mu'.state = IF mu.state = c THEN None ELSE mu.state
      /\ mu'.ipc = IF mu.ipc = c THEN None ELSE mu.ipc
      /\ mu'.net = IF mu.net = c THEN None ELSE mu.net
  BY <1>1, ReturnMutexes, CallerFacts
<1>3. mu'.net = mu.net
  BY <1>1, <1>2, CallerFacts DEF Owns, HoldsNet
<1>4. peers' \in PeersLock /\ peers'.w = None /\ peers'.r = peers.r /\ peers.w = c /\ c \notin peers.r
  BY <1>1, TakesPeers, CallerFacts DEF Owns, WritesPeers, ReadsPeers
<1>5. Owns(c, IdleCaller, mu', peers')
  BY <1>2, <1>4, IdleIsCall, SetsAssumption DEF Owns, HoldsState, HoldsIpc, HoldsNet, WritesPeers,
     ReadsPeers, Lower, Raise, Change, Post, Bind
<1>6. OthersKept(c, mu, mu', peers, peers')
  BY <1>2, <1>4, SetsAssumption DEF OthersKept
<1>7. KeyOK(IdleCaller, keyMap', StoppedPeers) /\ IdleCaller.pc = "idle" /\ IdleCaller.op # "Close"
  BY IdleIsCall DEF KeyOK, Post
<1>8. keyMap' \subseteq Peer /\ Peer \ keyMap' \subseteq StoppedPeers
  <2>1. caller[c].arg \in StoppedPeers
    BY <1>1, CallerFacts DEF KeyOK
  <2> QED BY <1>1, <2>1 DEF Inv, DevTypes, PeerInv
<1>9. ASSUME NEW p \in Peer PROVE peer[p].mu # c
  <2>1. PeerOK(p, peer[p], caller)
    BY DEF Inv, PeerInv
  <2> QED BY <1>1, <2>1 DEF PeerOK
<1> QED BY <1>1, <1>2, <1>3, <1>4, <1>5, <1>6, <1>7, <1>8, <1>9, IdleIsCall, ChangesKeyMap

\* Close removes the last peers and gives up the references of the device.
LEMMA RemoveAllPeersInv ==
    ASSUME Inv, NEW c \in Caller, RemoveAllPeers(c)
    PROVE  Inv'
<1>1. /\ LockInv /\ DevTypes /\ StateInv /\ ReceiveInv /\ PeerInv /\ KeyInv /\ ReleasedInv
      /\ WorkerInv /\ QueueInv
  BY DEF Inv
<1>2. /\ caller[c].pc = "removeStop" /\ caller[c].op = "Close" /\ caller[c].todo = {}
      /\ keyMap' = {} /\ peers' = [peers EXCEPT !.w = None] /\ Goto(c, "closeWait") /\ Release(Queue)
      /\ UNCHANGED <<state, mu, closed, peer, io, worker, open>>
  BY DEF RemoveAllPeers, At
<1>3. PICK k \in Call : /\ caller' = [caller EXCEPT ![c] = k] /\ k.pc = "closeWait"
                        /\ k.op = "Close" /\ k.arg = caller[c].arg /\ k.todo = {}
  BY <1>2, GotoCall, CallerFacts DEF Path
<1>4. peers' \in PeersLock /\ peers'.w = None /\ peers'.r = peers.r /\ peers.w = c /\ mu' \in Mutexes
  BY <1>2, TakesPeers, CallerFacts DEF Owns, WritesPeers
<1>5. Owns(c, k, mu', peers')
  BY <1>2, <1>3, <1>4, CallerFacts, SetsAssumption DEF Owns, HoldsState, HoldsIpc, HoldsNet, WritesPeers,
     ReadsPeers, Lower, Raise, Change, Post, Bind
<1>6. OthersKept(c, mu, mu', peers, peers')
  BY <1>2, <1>4, SetsAssumption DEF OthersKept
<1>7. mu.ipc = c /\ ~closed /\ state = "closed"
  BY <1>2, CallerFacts DEF Owns, HoldsIpc, Change, StateOK
<1>8. \A d \in Caller : caller'[d] = IF d = c THEN k ELSE caller[d]
  BY <1>1, <1>3 DEF LockInv, LockTypes
<1>9. Peer \subseteq StoppedPeers /\ StoppedPeers' = StoppedPeers
  BY <1>2, CallerFacts DEF KeyOK, StoppedPeers, Stopped
<1>10. ~Released /\ Released'
  BY <1>1, <1>2, <1>3, <1>7, <1>8, AloneWithPeers DEF Released, At
<1>11. LockInv'
  <2>1. ~ReadsPeers(k) /\ k.pc # "removeStop"
    BY <1>3 DEF ReadsPeers
  <2> QED BY <1>1, <1>3, <1>4, <1>5, <1>6, <2>1, LockStep
<1>12. StateInv'
  <2>1. StateOK(k, state, closed)
    BY <1>3, <1>7 DEF StateOK, Bind, Raise, Lower
  <2> QED BY <1>1, <1>2, <1>3, <2>1, StateStep
<1>13. DevTypes' /\ WorkerInv'
  BY <1>1, <1>2 DEF DevTypes, WorkerInv
<1>14. ReceiveInv'
  <2>1. NoMoreReceive(caller[c])
    BY <1>2 DEF NoMoreReceive, Change
  <2>2. io.recv = "off" /\ \A d \in Caller : caller[d].pc # "bindStart"
    BY <1>1, <2>1 DEF ReceiveInv, At
  <2> QED BY <1>1, <1>2, <1>3, <2>2, NobodyStarts
<1>15. PeerInv'
  <2>1. ASSUME NEW p \in Peer PROVE PeerOK(p, peer[p], caller')
    <3>1. PeerOK(p, peer[p], caller)
      BY <1>1 DEF PeerInv
    <3> QED BY <1>2, <1>8, <3>1 DEF PeerOK
  <2> QED BY <1>1, <1>2, <1>9, <2>1 DEF PeerInv
<1>16. KeyInv'
  <2>1. ASSUME NEW d \in Caller, d # c PROVE KeyOK(caller[d], {}, StoppedPeers)
    BY <1>1, <1>7, <2>1, AloneWithPeers DEF KeyOK, Raise, Change, Post
  <2>2. KeyOK(k, {}, StoppedPeers)
    BY <1>3 DEF KeyOK, Post
  <2> QED BY <1>2, <1>8, <1>9, <2>1, <2>2 DEF KeyInv
<1>17. ReleasedInv'
  BY <1>2, <1>9 DEF ReleasedInv, StoppedPeers, Stopped
<1>18. QueueInv'
  <2>1. Active' = Active /\ Alive' = Alive
    BY <1>2 DEF Active, Alive
  <2>2. /\ refs' \in [Queue -> Int] /\ open' \in [Queue -> BOOLEAN] /\ open' = open
        /\ \A q \in Queue : refs'[q] = refs[q] - 1
    BY <1>1, <1>2 DEF QueueInv, Release
  <2>3. refs'["encryption"] = Count(io'.reader # "off") + Cardinality(Alive') + Cardinality(Active')
    BY <1>1, <1>2, <1>10, <2>1, <2>2, QueueFacts DEF Count, Queue
  <2>4. RefsExact'
    BY <1>1, <1>2, <1>10, <2>2, <2>3, QueueFacts DEF RefsExact, Count, Alive, Active, Queue
  <2>5. \A q \in Queue : refs[q] > 0
    BY <1>1, <1>10, QueueFacts DEF Count, Queue
  <2>6. \A q \in Queue : open'[q]
    BY <1>1, <2>2, <2>5 DEF QueueInv
  <2> QED BY <2>2, <2>4, <2>6 DEF QueueInv
<1> QED BY <1>11, <1>12, <1>13, <1>14, <1>15, <1>16, <1>17, <1>18 DEF Inv

\* Close returns, after the TUN reader has ended.
LEMMA CloseDoneInv ==
    ASSUME Inv, NEW c \in Caller, CloseDone(c)
    PROVE  Inv'
<1>1. /\ LockInv /\ DevTypes /\ StateInv /\ ReceiveInv /\ PeerInv /\ KeyInv /\ ReleasedInv
      /\ WorkerInv /\ QueueInv
  BY DEF Inv
<1>2. /\ caller[c].pc = "closeWait" /\ io.reader = "off" /\ closed' = TRUE /\ Return(c)
      /\ UNCHANGED <<state, peers, keyMap, peer, io, worker, queues>>
  BY DEF CloseDone, At
<1>3. /\ caller' = [caller EXCEPT ![c] = IdleCaller] /\ mu' \in Mutexes
      /\ mu'.state = IF mu.state = c THEN None ELSE mu.state
      /\ mu'.ipc = IF mu.ipc = c THEN None ELSE mu.ipc
      /\ mu'.net = IF mu.net = c THEN None ELSE mu.net
  BY <1>2, ReturnMutexes, CallerFacts
<1>4. mu.ipc = c /\ mu.state = c /\ peers.w # c /\ c \notin peers.r
  BY <1>2, CallerFacts DEF Owns, HoldsIpc, HoldsState, WritesPeers, ReadsPeers
<1>5. \A d \in Caller : caller'[d] = IF d = c THEN IdleCaller ELSE caller[d]
  BY <1>1, <1>3 DEF LockInv, LockTypes
<1>6. caller[c].op = "Close" /\ state = "closed"
  <2>1. caller[c].op = "Close"
    BY <1>2, CallerFacts DEF Path, Op, Lower, Raise, Bind, Change, Post
  <2> QED BY <1>2, <2>1, CallerFacts DEF StateOK
<1>7. io.recv = "off" /\ \A d \in Caller : caller[d].pc # "bindStart"
  <2>1. NoMoreReceive(caller[c])
    BY <1>2, <1>6 DEF NoMoreReceive
  <2> QED BY <1>1, <2>1 DEF ReceiveInv, At
<1>8. LockInv'
  <2>1. Owns(c, IdleCaller, mu', peers')
    BY <1>2, <1>3, <1>4, IdleIsCall, SetsAssumption DEF Owns, HoldsState, HoldsIpc, HoldsNet, WritesPeers,
       ReadsPeers, Lower, Raise, Change, Post, Bind
  <2>2. OthersKept(c, mu, mu', peers, peers')
    BY <1>2, <1>3, SetsAssumption DEF OthersKept
  <2>3. ~ReadsPeers(IdleCaller) /\ IdleCaller.pc # "removeStop" /\ peers' \in PeersLock
    BY <1>2, IdleIsCall, CallerFacts DEF ReadsPeers
  <2> QED BY <1>1, <1>3, <2>1, <2>2, <2>3, IdleIsCall, LockStep
<1>9. StateInv'
  <2>1. ASSUME NEW d \in Caller \ {c} PROVE StateOK(caller[d], state, TRUE)
    <3>1. StateOK(caller[d], state, closed) /\ Path(caller[d].op, caller[d].pc) /\ caller[d].op \in Op
      BY CallerFacts
    <3>2. ~HoldsState(caller[d]) /\ ~HoldsIpc(caller[d]) /\ caller[d].pc # "bindStart"
      BY <1>1, <1>4, <1>7 DEF LockInv, Owns
    <3>3. caller[d].pc \in {"idle", "lockState", "lockIpc", "closeLockIpc", "bindLock", "bindOpen"}
      BY <3>1, <3>2 DEF HoldsState, HoldsIpc, Path, Op, Lower, Raise, Change, Post, Bind
    <3> QED BY <3>1, <3>3 DEF StateOK
  <2>2. StateOK(IdleCaller, state, TRUE)
    BY IdleIsCall DEF StateOK, Lower, Raise, Bind
  <2> QED BY <1>2, <1>5, <1>6, <2>1, <2>2 DEF StateInv
<1>10. DevTypes' /\ WorkerInv'
  BY <1>1, <1>2 DEF DevTypes, WorkerInv
<1>11. ReceiveInv'
  <2>1. \A d \in Caller : caller'[d].pc # "bindStart"
    BY <1>5, <1>7, IdleIsCall
  <2> QED BY <1>2, <1>7, <2>1 DEF ReceiveInv, At
<1>12. PeerInv' /\ StoppedPeers' = StoppedPeers
  <2>1. \A p \in Peer : peer[p].mu # c
    BY <1>2, CallerFacts
  <2> QED BY <1>1, <1>2, <1>3, <2>1, IdleIsCall, PeerStep
<1>13. Released /\ Released'
  BY <1>2 DEF Released, At
<1>14. KeyInv'
  <2>1. KeyOK(IdleCaller, keyMap, StoppedPeers)
    BY IdleIsCall DEF KeyOK, Post
  <2> QED BY <1>1, <1>2, <1>5, <1>12, <2>1 DEF KeyInv
<1>15. ReleasedInv'
  BY <1>1, <1>2, <1>13 DEF ReleasedInv, Stopped
<1>16. QueueInv'
  <2>1. Released' = Released
    BY <1>13 DEF Released
  <2> QED BY <1>1, <1>2, <1>12, <2>1, QueueKept DEF queues
<1> QED BY <1>8, <1>9, <1>10, <1>11, <1>12, <1>14, <1>15, <1>16 DEF Inv

-----------------------------------------------------------------------------
(* The other goroutines *)

\* Goroutines that change neither a caller nor the peers, and drop a reference
\* if they end.
LEMMA OtherSteps ==
    ASSUME Inv, UNCHANGED <<dev, caller, peer>>, io' \in IO, WorkerInv',
           io'.recv # "off" => io.recv # "off", io'.reader # "off" => io.reader # "off",
           QueueInv'
    PROVE  Inv'
<1> USE DEF Inv, dev
<1>1. PeerInv' /\ StoppedPeers' = StoppedPeers
  BY PeersUnchanged
<1>2. LockInv' /\ StateInv' /\ ReceiveInv' /\ KeyInv' /\ ReleasedInv'
  BY <1>1, LockKept, StateKept, ReceiveKept, KeyKept
<1>3. DevTypes'
  BY DEF DevTypes
<1> QED BY <1>1, <1>2, <1>3

LEMMA ReleasedSame ==
    ASSUME UNCHANGED <<closed, caller>>
    PROVE  Released' = Released
BY DEF Released, At

\* A step of a goroutine that goes on.
LEMMA GoesOn ==
    ASSUME Inv, UNCHANGED <<dev, caller, peer, queues>>, io' \in IO, WorkerInv',
           io'.recv # "off" <=> io.recv # "off", io'.reader # "off" <=> io.reader # "off",
           \A w \in Worker : worker'[w].pc # "off" <=> worker[w].pc # "off"
    PROVE  Inv'
<1>1. PeerInv /\ PeerInv' /\ StoppedPeers' = StoppedPeers /\ QueueInv
  BY PeersUnchanged DEF dev, Inv
<1>2. QueueInv'
  BY <1>1, ReleasedSame, QueueKept DEF dev, queues
<1> QED BY <1>2, OtherSteps

LEMMA ReceiveInvs ==
    ASSUME Inv, \/ ReceiveHandshake \/ TunReads \/ TunSends
                \/ \E p \in Peer : ReceiveTransport(p)
    PROVE  Inv'
<1>1. io \in IO /\ WorkerInv
  BY DEF Inv, DevTypes
<1>2. CASE ReceiveHandshake
  <2>1. io.handshakes = 0 /\ io.recv = "reading" /\ io' = [io EXCEPT !.handshakes = 1]
    BY <1>1, <1>2 DEF ReceiveHandshake, Receive, IO, HandshakeSize
  <2>2. io' \in IO /\ io'.recv = io.recv /\ io'.reader = io.reader
    BY <1>1, <2>1 DEF IO, HandshakeSize
  <2>3. UNCHANGED <<dev, caller, peer, queues, worker>> /\ WorkerInv'
    BY <1>1, <1>2 DEF ReceiveHandshake, Receive, WorkerInv
  <2> QED BY <2>2, <2>3, GoesOn
<1>3. CASE TunReads
  <2>1. io' \in IO /\ io'.recv = io.recv /\ io'.reader = "sending" /\ io.reader = "reading"
    BY <1>1, <1>3 DEF TunReads, IO
  <2>2. UNCHANGED <<dev, caller, peer, queues, worker>> /\ WorkerInv'
    BY <1>1, <1>3 DEF TunReads, WorkerInv
  <2> QED BY <2>1, <2>2, GoesOn
<1>4. CASE TunSends
  <2>1. io' \in IO /\ io'.recv = io.recv /\ io'.reader = "reading" /\ io.reader = "sending"
    BY <1>1, <1>4 DEF TunSends, IO
  <2>2. UNCHANGED <<dev, caller, peer, queues, worker>> /\ WorkerInv'
    BY <1>1, <1>4 DEF TunSends, WorkerInv
  <2> QED BY <2>1, <2>2, GoesOn
<1>5. ASSUME NEW p \in Peer, ReceiveTransport(p) PROVE Inv'
  <2>1. io' \in IO /\ io'.recv = p /\ io'.reader = io.reader /\ io.recv = "reading"
    BY <1>1, <1>5 DEF ReceiveTransport, Receive, IO
  <2>2. UNCHANGED <<dev, caller, peer, queues, worker>> /\ WorkerInv' /\ p # "off"
    BY <1>1, <1>5, SetsAssumption DEF ReceiveTransport, Receive, WorkerInv
  <2> QED BY <2>1, <2>2, GoesOn
<1> QED BY <1>2, <1>3, <1>4, <1>5

\* The record of peer p.
LEMMA PeerFacts ==
    ASSUME Inv, NEW p \in Peer
    PROVE  /\ peer = [q \in Peer |-> peer[q]] /\ peer[p] \in PeerState
           /\ ~peer[p].running /\ peer[p].stopAt = "no" =>
                peer[p].sender = "off" /\ peer[p].receiver = "off"
BY DEF Inv, PeerInv, PeerOK

LEMMA StopStepInv ==
    ASSUME Inv, NEW p \in Peer, StopTimers(p) \/ StopSignal(p)
    PROVE  Inv'
<1>1. peer = [q \in Peer |-> peer[q]] /\ peer[p] \in PeerState
  BY PeerFacts
<1>2. UNCHANGED <<dev, caller, io, worker, queues>>
  BY DEF StopTimers, StopSignal
<1>3. CASE StopTimers(p)
  <2> DEFINE s == [peer[p] EXCEPT !.armed = FALSE, !.stopAt = "signal"]
  <2>1. peer' = [peer EXCEPT ![p] = s]
    BY <1>1, <1>3 DEF StopTimers
  <2>2. SameRun(peer[p], s)
    BY <1>1, <1>3 DEF StopTimers, SameRun, PeerState
  <2> HIDE DEF s
  <2> QED BY <1>2, <2>1, <2>2, PeerOnlyInv
<1>4. CASE StopSignal(p)
  <2> DEFINE n == Append(peer[p].inbound, "stop")
             s == [peer[p] EXCEPT !.inbound = n, !.outStop = TRUE, !.stopAt = "wait"]
  <2>1. peer' = [peer EXCEPT ![p] = s]
    BY <1>1, <1>4 DEF StopSignal
  <2>2. n \in Seq({"packet", "stop"})
    BY <1>1 DEF PeerState
  <2> HIDE DEF n
  <2>3. SameRun(peer[p], s)
    BY <1>1, <1>4, <2>2 DEF StopSignal, SameRun, PeerState
  <2> HIDE DEF s
  <2> QED BY <1>2, <2>1, <2>3, PeerOnlyInv
<1> QED BY <1>3, <1>4

LEMMA SenderInv ==
    ASSUME Inv, NEW p \in Peer, SenderTakes(p) \/ SenderSends(p) \/ SenderStops(p)
    PROVE  Inv'
<1>1. peer = [q \in Peer |-> peer[q]] /\ peer[p] \in PeerState
  BY PeerFacts
<1>2. UNCHANGED <<dev, caller, io, worker, queues>>
  BY DEF SenderTakes, SenderSends, SenderStops, PeerOnly
<1>3. CASE SenderTakes(p)
  <2> DEFINE s == [peer[p] EXCEPT !.sender = "sending"]
  <2>1. peer' = [peer EXCEPT ![p] = s]
    BY <1>1, <1>3 DEF SenderTakes
  <2>2. SameRun(peer[p], s)
    BY <1>1, <1>3 DEF SenderTakes, SameRun, PeerState
  <2> HIDE DEF s
  <2> QED BY <1>2, <2>1, <2>2, PeerOnlyInv
<1>4. CASE SenderSends(p)
  <2> DEFINE a == peer[p].armed \/ TimersActive(p)
             s == [peer[p] EXCEPT !.sender = "idle", !.armed = a]
  <2>1. peer' = [peer EXCEPT ![p] = s]
    BY <1>1, <1>4 DEF SenderSends
  <2>2. a \in BOOLEAN
    OBVIOUS
  <2> HIDE DEF a
  <2>3. SameRun(peer[p], s)
    BY <1>1, <1>4, <2>2 DEF SenderSends, SameRun, PeerState
  <2> HIDE DEF s
  <2> QED BY <1>2, <2>1, <2>3, PeerOnlyInv
<1>5. CASE SenderStops(p)
  <2> DEFINE s == [peer[p] EXCEPT !.sender = "off", !.outStop = FALSE]
  <2>1. peer' = [peer EXCEPT ![p] = s]
    BY <1>1, <1>5 DEF SenderStops
  <2>2. SameRun(peer[p], s)
    BY <1>1 DEF SameRun, PeerState
  <2> HIDE DEF s
  <2> QED BY <1>2, <2>1, <2>2, PeerOnlyInv
<1> QED BY <1>3, <1>4, <1>5

LEMMA ReceiverInv ==
    ASSUME Inv, NEW p \in Peer, ReceiverTakes(p) \/ ReceiverSends(p)
    PROVE  Inv'
<1>1. peer = [q \in Peer |-> peer[q]] /\ peer[p] \in PeerState
  BY PeerFacts
<1>2. UNCHANGED <<dev, caller, io, worker, queues>>
  BY DEF ReceiverTakes, ReceiverSends, PeerOnly
<1>3. CASE ReceiverTakes(p)
  <2>1. PICK pc \in {"off", "idle", "sending"} :
          peer' = [peer EXCEPT ![p].inbound = Tail(@), ![p].receiver = pc]
    BY <1>3 DEF ReceiverTakes
  <2> DEFINE n == Tail(peer[p].inbound)
             s == [peer[p] EXCEPT !.inbound = n, !.receiver = pc]
  <2>2. peer' = [peer EXCEPT ![p] = s]
    BY <1>1, <2>1
  <2>3. n \in Seq({"packet", "stop"}) /\ peer[p].receiver = "idle"
    <3>1. peer[p].inbound \in Seq({"packet", "stop"})
      BY <1>1 DEF PeerState
    <3>2. peer[p].inbound # <<>> /\ peer[p].receiver = "idle"
      BY <1>3 DEF ReceiverTakes
    <3> QED BY <3>1, <3>2
  <2> HIDE DEF n
  <2>4. SameRun(peer[p], s)
    BY <1>1, <2>3 DEF SameRun, PeerState
  <2> HIDE DEF s
  <2> QED BY <1>2, <2>2, <2>4, PeerOnlyInv
<1>4. CASE ReceiverSends(p)
  <2> DEFINE a == peer[p].armed \/ TimersActive(p)
             s == [peer[p] EXCEPT !.receiver = "idle", !.armed = a]
  <2>1. peer' = [peer EXCEPT ![p] = s]
    BY <1>1, <1>4 DEF ReceiverSends
  <2>2. a \in BOOLEAN
    OBVIOUS
  <2> HIDE DEF a
  <2>3. SameRun(peer[p], s)
    BY <1>1, <1>4, <2>2 DEF ReceiverSends, SameRun, PeerState
  <2> HIDE DEF s
  <2> QED BY <1>2, <2>1, <2>3, PeerOnlyInv
<1> QED BY <1>3, <1>4

LEMMA TimerInv ==
    ASSUME Inv, NEW p \in Peer, TimerFires(p) \/ TimerSends(p)
    PROVE  Inv'
<1>1. peer = [q \in Peer |-> peer[q]] /\ peer[p] \in PeerState
  BY PeerFacts
<1>2. UNCHANGED <<dev, caller, io, worker, queues>>
  BY DEF TimerFires, TimerSends, PeerOnly
<1>3. CASE TimerFires(p)
  <2> DEFINE s == [peer[p] EXCEPT !.armed = FALSE, !.callback = "sending"]
  <2>1. peer' = [peer EXCEPT ![p] = s]
    BY <1>1, <1>3 DEF TimerFires
  <2>2. SameRun(peer[p], s)
    BY <1>1 DEF SameRun, PeerState
  <2> HIDE DEF s
  <2> QED BY <1>2, <2>1, <2>2, PeerOnlyInv
<1>4. CASE TimerSends(p)
  <2> DEFINE a == peer[p].armed \/ TimersActive(p)
             s == [peer[p] EXCEPT !.callback = "idle", !.armed = a]
  <2>1. peer' = [peer EXCEPT ![p] = s]
    BY <1>1, <1>4 DEF TimerSends
  <2>2. a \in BOOLEAN
    OBVIOUS
  <2> HIDE DEF a
  <2>3. SameRun(peer[p], s)
    BY <1>1, <2>2 DEF SameRun, PeerState
  <2> HIDE DEF s
  <2> QED BY <1>2, <2>1, <2>3, PeerOnlyInv
<1> QED BY <1>3, <1>4

LEMMA PushInboundInv ==
    ASSUME Inv, NEW p \in Peer, PushInbound(p)
    PROVE  Inv'
<1>1. peer = [q \in Peer |-> peer[q]] /\ peer[p] \in PeerState /\ io \in IO
  BY PeerFacts DEF Inv, DevTypes
<1>2. UNCHANGED <<dev, caller, worker, queues>> /\ WorkerInv'
  BY DEF PushInbound, Inv, WorkerInv
<1> DEFINE n == Append(peer[p].inbound, "packet")
           s == [peer[p] EXCEPT !.inbound = n]
<1>3. peer' = [peer EXCEPT ![p] = s]
  BY <1>1 DEF PushInbound
<1>4. n \in Seq({"packet", "stop"})
  BY <1>1 DEF PeerState
<1> HIDE DEF n
<1>5. SameRun(peer[p], s)
  BY <1>1, <1>4 DEF SameRun, PeerState
<1> HIDE DEF s
<1>6. io' \in IO /\ io'.recv = "reading" /\ io'.reader = io.reader /\ io.recv # "off"
  BY <1>1, SetsAssumption DEF PushInbound, IO
<1> QED BY <1>2, <1>3, <1>5, <1>6, PeerStepInv

LEMMA WorkerGoesOn ==
    ASSUME Inv, NEW w \in Worker, \/ WorkerTakes(w) \/ WorkerLooksUp(w) \/ WorkerHandles(w)
                                  \/ WorkerArms(w) \/ WorkerSends(w)
    PROVE  Inv'
<1>1. io \in IO /\ WorkerInv /\ keyMap \subseteq Peer
  BY DEF Inv, DevTypes
<1>2. CASE WorkerTakes(w)
  <2>1. worker[w].pc = "idle" /\ io.handshakes = 1 /\ io' = [io EXCEPT !.handshakes = 0]
    BY <1>1, <1>2 DEF WorkerTakes, IO, HandshakeSize
  <2>2. io' \in IO /\ io'.recv = io.recv /\ io'.reader = io.reader
    BY <1>1, <2>1 DEF IO, HandshakeSize
  <2>3. /\ WorkerInv'
        /\ \A v \in Worker : worker'[v].pc # "off" <=> worker[v].pc # "off"
    <3>1. CASE UNCHANGED worker
      BY <1>1, <3>1 DEF WorkerInv
    <3>2. ASSUME NEW p \in keyMap, worker' = [worker EXCEPT ![w] = [pc |-> "handle", peer |-> p]]
          PROVE  /\ WorkerInv'
                 /\ \A v \in Worker : worker'[v].pc # "off" <=> worker[v].pc # "off"
      BY <1>1, <2>1, <3>2 DEF WorkerInv
    <3>3. CASE worker' = [worker EXCEPT ![w].pc = "lookup"]
      BY <1>1, <2>1, <3>3 DEF WorkerInv
    <3> QED BY <1>2, <3>1, <3>2, <3>3 DEF WorkerTakes
  <2>4. UNCHANGED <<dev, caller, peer, queues>>
    BY <1>2 DEF WorkerTakes
  <2> QED BY <2>2, <2>3, <2>4, GoesOn
<1>6. CASE WorkerLooksUp(w)
  <2>1. PICK k \in [pc : {"handle"}, peer : keyMap] \cup {IdleWorker} :
           worker' = [worker EXCEPT ![w] = k]
    <3>1. ASSUME NEW p \in keyMap, worker' = [worker EXCEPT ![w] = [pc |-> "handle", peer |-> p]]
          PROVE  \E k \in [pc : {"handle"}, peer : keyMap] \cup {IdleWorker} :
                    worker' = [worker EXCEPT ![w] = k]
      BY <3>1
    <3> QED BY <1>6, <3>1 DEF WorkerLooksUp
  <2>2. WorkerInv' /\ \A v \in Worker : worker'[v].pc # "off" <=> worker[v].pc # "off"
    BY <1>1, <1>6, <2>1 DEF WorkerInv, WorkerLooksUp, IdleWorker
  <2>3. UNCHANGED <<dev, caller, peer, io, queues>>
    BY <1>6 DEF WorkerLooksUp
  <2> QED BY <1>1, <2>2, <2>3, GoesOn
<1>3. CASE WorkerHandles(w)
  <2>1. PICK pc \in {"arm", "send"} : worker' = [worker EXCEPT ![w].pc = pc]
    BY <1>3 DEF WorkerHandles
  <2>2. WorkerInv' /\ \A v \in Worker : worker'[v].pc # "off" <=> worker[v].pc # "off"
    BY <1>1, <1>3, <2>1 DEF WorkerInv, WorkerHandles
  <2>3. UNCHANGED <<dev, caller, peer, io, queues>>
    BY <1>3 DEF WorkerHandles
  <2> QED BY <1>1, <2>2, <2>3, GoesOn
<1>4. CASE WorkerArms(w)
  <2> DEFINE p == worker[w].peer
             s == [peer[p] EXCEPT !.armed = TRUE]
  <2>1. p \in Peer /\ worker[w].pc = "arm"
    BY <1>1, <1>4 DEF WorkerInv, WorkerArms
  <2>2. peer = [q \in Peer |-> peer[q]] /\ peer[p] \in PeerState
    BY <2>1, PeerFacts
  <2>3. peer' = [peer EXCEPT ![p] = s]
    BY <1>4, <2>1, <2>2 DEF WorkerArms
  <2>4. WorkerInv' /\ \A v \in Worker : worker'[v].pc # "off" <=> worker[v].pc # "off"
    BY <1>1, <1>4, <2>1 DEF WorkerInv, WorkerArms
  <2>5. UNCHANGED <<dev, caller, io, queues>>
    BY <1>4 DEF WorkerArms
  <2> HIDE DEF p
  <2>6. SameRun(peer[p], s)
    BY <2>2 DEF SameRun, PeerState
  <2> HIDE DEF s
  <2> QED BY <1>1, <2>1, <2>3, <2>4, <2>5, <2>6, PeerStepInv
<1>5. CASE WorkerSends(w)
  <2>1. WorkerInv' /\ \A v \in Worker : worker'[v].pc # "off" <=> worker[v].pc # "off"
    BY <1>1, <1>5 DEF WorkerInv, WorkerSends, IdleWorker
  <2>2. UNCHANGED <<dev, caller, peer, io, queues>>
    BY <1>5 DEF WorkerSends
  <2> QED BY <1>1, <2>1, <2>2, GoesOn
<1> QED BY <1>2, <1>3, <1>4, <1>5, <1>6

LEMMA WorkerStopsInv ==
    ASSUME Inv, NEW w \in Worker, WorkerStops(w)
    PROVE  Inv'
<1>1. io \in IO /\ WorkerInv /\ QueueInv
  BY DEF Inv, DevTypes
<1>2. /\ worker[w].pc = "idle" /\ worker' = [worker EXCEPT ![w].pc = "off"] /\ Release({"encryption"})
      /\ UNCHANGED <<dev, caller, peer, io, open>>
  BY DEF WorkerStops
<1>3. WorkerInv' /\ \A v \in Worker : worker'[v].pc = IF v = w THEN "off" ELSE worker[v].pc
  BY <1>1, <1>2 DEF WorkerInv
<1>4. QueueInv'
  <2>1. Active' = Active /\ Alive' = Alive \ {w} /\ w \in Alive /\ Released' = Released
    <3>1. Alive' = Alive \ {w} /\ w \in Alive
      BY <1>2, <1>3 DEF Alive
    <3> QED BY <1>2, <3>1, ReleasedSame DEF Active, dev
  <2>2. Cardinality(Alive') = Cardinality(Alive) - 1 /\ Cardinality(Alive) > 0
    BY <1>1, <2>1, QueueFacts, FS_RemoveElement, FS_EmptySet
  <2>3. /\ refs' \in [Queue -> Int] /\ open' \in [Queue -> BOOLEAN] /\ open' = open
        /\ refs'["encryption"] = refs["encryption"] - 1
        /\ \A q \in {"decryption", "handshake"} : refs'[q] = refs[q]
    BY <1>1, <1>2 DEF QueueInv, Release, Queue
  <2>4. refs'["encryption"] = Count(~Released) + Count(io'.reader # "off")
                              + Cardinality(Alive') + Cardinality(Active')
    BY <1>1, <1>2, <2>1, <2>2, <2>3, QueueFacts DEF Count
  <2>5. RefsExact'
    BY <1>1, <1>2, <2>1, <2>3, <2>4 DEF QueueInv, RefsExact, Count, Alive, Active
  <2>6. refs["encryption"] > 0
    BY <1>1, <2>2, QueueFacts DEF Count
  <2>7. \A q \in Queue : ~open'[q] => refs'[q] = 0
    BY <1>1, <2>3, <2>6 DEF QueueInv, Queue
  <2> QED BY <2>3, <2>5, <2>7 DEF QueueInv
<1> QED BY <1>1, <1>2, <1>3, <1>4, OtherSteps

LEMMA ReceiveEndsInv ==
    ASSUME Inv, ReceiveEnds
    PROVE  Inv'
<1>1. io \in IO /\ WorkerInv /\ QueueInv
  BY DEF Inv, DevTypes
<1>2. /\ io.recv = "reading" /\ io' = [io EXCEPT !.recv = "off"] /\ Release({"decryption", "handshake"})
      /\ UNCHANGED <<dev, caller, peer, worker, open>>
  BY DEF ReceiveEnds
<1>3. io' \in IO /\ io'.recv = "off" /\ io'.reader = io.reader /\ WorkerInv'
  BY <1>1, <1>2 DEF IO, WorkerInv
<1>4. QueueInv'
  <2>1. Released' = Released
    BY <1>2, ReleasedSame DEF dev
  <2>2. /\ refs' \in [Queue -> Int] /\ open' \in [Queue -> BOOLEAN] /\ open' = open
        /\ refs'["encryption"] = refs["encryption"]
        /\ \A q \in {"decryption", "handshake"} : refs'[q] = refs[q] - 1
    BY <1>1, <1>2 DEF QueueInv, Release, Queue
  <2>3. RefsExact'
    BY <1>1, <1>2, <1>3, <2>1, <2>2 DEF QueueInv, RefsExact, Count, Queue
  <2>4. \A q \in {"decryption", "handshake"} : refs[q] > 0
    BY <1>1, <1>2, QueueFacts DEF Count
  <2>5. \A q \in Queue : ~open'[q] => refs'[q] = 0
    BY <1>1, <2>2, <2>4 DEF QueueInv, Queue
  <2> QED BY <2>2, <2>3, <2>5 DEF QueueInv
<1> QED BY <1>2, <1>3, <1>4, OtherSteps

\* The TUN reader ends and gives up its reference.
LEMMA ReaderEnds ==
    ASSUME QueueInv, io.reader # "off", io'.reader = "off", io'.recv = io.recv,
           Release({"encryption"}), UNCHANGED <<peer, worker, open>>, Released' = Released
    PROVE  QueueInv'
<1>1. Active' = Active /\ Alive' = Alive
  BY DEF Active, Alive
<1>2. /\ refs' \in [Queue -> Int] /\ open' \in [Queue -> BOOLEAN] /\ open' = open
      /\ refs'["encryption"] = refs["encryption"] - 1
      /\ \A q \in {"decryption", "handshake"} : refs'[q] = refs[q]
  BY DEF QueueInv, Release, Queue
<1>3. refs'["encryption"] = Count(~Released) + Count(io'.reader # "off")
                            + Cardinality(Alive') + Cardinality(Active')
  BY <1>1, <1>2, QueueFacts DEF Count
<1>4. RefsExact'
  BY <1>1, <1>2, <1>3 DEF QueueInv, RefsExact, Count, Alive, Active
<1>5. refs["encryption"] > 0
  BY QueueFacts DEF Count
<1>6. \A q \in Queue : ~open'[q] => refs'[q] = 0
  BY <1>2, <1>5 DEF QueueInv, Queue
<1> QED BY <1>2, <1>4, <1>6 DEF QueueInv

LEMMA TunStopsInv ==
    ASSUME Inv, TunStops
    PROVE  Inv'
<1>1. io \in IO /\ WorkerInv /\ QueueInv
  BY DEF Inv, DevTypes
<1>2. /\ io.reader = "reading" /\ io' = [io EXCEPT !.reader = "off"] /\ Release({"encryption"})
      /\ UNCHANGED <<dev, caller, peer, worker, open>>
  BY DEF TunStops
<1>3. io' \in IO /\ io'.reader = "off" /\ io'.recv = io.recv /\ WorkerInv'
  BY <1>1, <1>2 DEF IO, WorkerInv
<1>4. QueueInv'
  BY <1>1, <1>2, <1>3, ReleasedSame, ReaderEnds DEF dev
<1> QED BY <1>2, <1>3, <1>4, OtherSteps

LEMMA TunFailsInv ==
    ASSUME Inv, NEW c \in Caller, TunFails(c)
    PROVE  Inv'
<1>1. /\ LockInv /\ DevTypes /\ StateInv /\ ReceiveInv /\ PeerInv /\ KeyInv /\ ReleasedInv
      /\ WorkerInv /\ QueueInv
  BY DEF Inv
<1> DEFINE k == [IdleCaller EXCEPT !.op = "Close", !.pc = "lockState"]
<1>2. /\ caller[c].pc = "idle" /\ caller' = [caller EXCEPT ![c] = k]
      /\ io.reader = "reading" /\ io' = [io EXCEPT !.reader = "off"] /\ Release({"encryption"})
      /\ UNCHANGED <<state, mu, peers, keyMap, closed, peer, worker, open>>
  BY DEF TunFails, At, dev
<1>3. k.op = "Close" /\ k.pc = "lockState" /\ k.arg = None /\ k.todo = {}
  BY DEF IdleCaller
<1>4. k \in Call
  <2>1. k \in [op : Op, arg : Peer \cup {None}, pc : Pc, todo : SUBSET Peer]
    BY DEF IdleCaller, Op, Pc
  <2> QED BY <1>3, <2>1 DEF Call, Path
<1> HIDE DEF k
<1>5. io' \in IO /\ io'.reader = "off" /\ io'.recv = io.recv /\ WorkerInv' /\ DevTypes'
  BY <1>1, <1>2 DEF IO, WorkerInv, DevTypes
<1>6. /\ mu' \in Mutexes /\ peers' \in PeersLock /\ mu'.net = mu.net
      /\ OthersKept(c, mu, mu', peers, peers') /\ \A p \in Peer : peer[p].mu # c
  BY <1>2, CallerFacts DEF OthersKept
<1>7. Owns(c, k, mu', peers')
  BY <1>2, <1>3, CallerFacts DEF Owns, HoldsState, HoldsIpc, HoldsNet,
     WritesPeers, ReadsPeers, Lower, Raise, Bind, Change, Post
<1>8. /\ StateOK(k, state, closed) /\ KeyOK(k, keyMap, StoppedPeers) /\ ~NoMoreReceive(k)
      /\ ~ReadsPeers(k) /\ k.pc \notin NetPc /\ caller[c].pc \notin NetPc
  BY <1>2, <1>3 DEF StateOK, KeyOK, Lower, Raise, Bind, Change, Post, NoMoreReceive, ReadsPeers, NetPc
<1>9. LockInv'
  BY <1>1, <1>2, <1>3, <1>4, <1>6, <1>7, <1>8, LockStep
<1>10. StateInv'
  BY <1>1, <1>2, <1>4, <1>8, StateStep
<1>11. ReceiveInv'
  BY <1>1, <1>2, <1>4, <1>5, <1>6, <1>8, ReceiveMoves
<1>12. PeerInv' /\ StoppedPeers' = StoppedPeers
  BY <1>1, <1>2, <1>4, <1>6, PeerStep
<1>13. KeyInv' /\ ReleasedInv' /\ Released' = Released
  <2>1. k.pc = "closeWait" <=> caller[c].pc = "closeWait"
    BY <1>2, <1>3
  <2> QED BY <1>1, <1>2, <1>4, <1>8, <1>12, <2>1, KeyStep
<1>14. QueueInv'
  BY <1>1, <1>2, <1>5, <1>13, ReaderEnds
<1> QED BY <1>5, <1>9, <1>10, <1>11, <1>12, <1>13, <1>14 DEF Inv

LEMMA CloseQueueInv ==
    ASSUME Inv, NEW q \in Queue, CloseQueue(q)
    PROVE  Inv'
<1>1. io \in IO /\ WorkerInv /\ QueueInv
  BY DEF Inv, DevTypes
<1>2. /\ refs[q] = 0 /\ open' = [open EXCEPT ![q] = FALSE]
      /\ UNCHANGED <<dev, caller, peer, io, worker, refs>>
  BY DEF CloseQueue
<1>3. RefsExact'
  BY <1>1, <1>2, ReleasedSame DEF QueueInv, RefsExact, dev
<1>4. QueueInv' /\ WorkerInv'
  BY <1>1, <1>2, <1>3 DEF QueueInv, WorkerInv
<1> QED BY <1>1, <1>2, <1>4, OtherSteps

-----------------------------------------------------------------------------
(* The theorems *)

LEMMA InitInv == Init => Inv
<1> SUFFICES ASSUME Init PROVE Inv
  OBVIOUS
<1>1. /\ state = "down" /\ mu = [state |-> None, ipc |-> None, net |-> None]
      /\ peers = [w |-> None, r |-> {}] /\ keyMap = {} /\ closed = FALSE
      /\ caller = [c \in Caller |-> IdleCaller] /\ peer = [p \in Peer |-> NewPeer]
      /\ io = [bind |-> "closed", recv |-> "off", handshakes |-> 0, tun |-> "open", reader |-> "reading"]
      /\ worker = [w \in Worker |-> IdleWorker] /\ refs = InitialRefs /\ open = [q \in Queue |-> TRUE]
  BY DEF Init
<1>2. \A c \in Caller : caller[c] = IdleCaller
  BY <1>1
<1>3. LockInv
  <2>1. LockTypes
    BY <1>1, IdleIsCall DEF LockTypes, Mutexes, PeersLock
  <2>2. \A c \in Caller : Owns(c, IdleCaller, mu, peers)
    BY <1>1, IdleIsCall, SetsAssumption DEF Owns, HoldsState, HoldsIpc, HoldsNet,
       WritesPeers, ReadsPeers, Lower, Raise, Bind, Change, Post
  <2> QED BY <1>1, <1>2, <2>1, <2>2 DEF LockInv
<1>4. DevTypes
  <2>1. 0 \in 0 .. HandshakeSize
    BY DEF HandshakeSize
  <2>2. io \in IO
    BY <1>1, <2>1 DEF IO
  <2> QED BY <1>1, <2>2 DEF DevTypes
<1>5. StateInv
  <2>1. StateOK(IdleCaller, state, closed)
    BY IdleIsCall DEF StateOK, Lower, Raise, Bind
  <2> QED BY <1>1, <1>2, <2>1 DEF StateInv
<1>6. ReceiveInv
  <2>1. ~NoMoreReceive(IdleCaller)
    BY IdleIsCall DEF NoMoreReceive
  <2> QED BY <1>1, <1>2, <2>1, IdleIsCall DEF ReceiveInv, At
<1>7. StoppedPeers = Peer
  BY <1>1 DEF StoppedPeers, Stopped, NewPeer
<1>8. PeerInv
  <2>1. NewPeer \in PeerState
    <3>1. <<>> \in Seq({"packet", "stop"})
      OBVIOUS
    <3> QED BY <3>1 DEF NewPeer, PeerState
  <2>2. \A p \in Peer : PeerOK(p, NewPeer, caller)
    BY <2>1, SetsAssumption DEF PeerOK, NewPeer
  <2> QED BY <1>1, <1>7, <2>2 DEF PeerInv
<1>9. KeyInv
  <2>1. KeyOK(IdleCaller, keyMap, StoppedPeers)
    BY IdleIsCall DEF KeyOK, Post
  <2> QED BY <1>2, <2>1 DEF KeyInv
<1>10. ~Released
  BY <1>1, <1>2, IdleIsCall DEF Released, At
<1>11. WorkerInv
  BY <1>1 DEF WorkerInv, IdleWorker
<1>12. QueueInv
  <2>1. Alive = Worker
    BY <1>1 DEF IdleWorker, Alive
  <2>2. Active = {}
    BY <1>1 DEF NewPeer, Active
  <2>3. Cardinality(Worker) \in Nat /\ Cardinality({}) = 0
    BY SetsAssumption, FS_CardinalityType, FS_EmptySet
  <2>4. refs \in [Queue -> Int] /\ open \in [Queue -> BOOLEAN]
    BY <1>1, <2>3 DEF InitialRefs, Queue
  <2>5. /\ refs["encryption"] = Cardinality(Worker) + 2
        /\ refs["decryption"] = 1 /\ refs["handshake"] = 1
    BY <1>1 DEF InitialRefs, Queue
  <2>6. RefsExact
    <3>1. io.reader # "off" /\ io.recv = "off"
      BY <1>1
    <3>2. refs["encryption"] = Count(~Released) + Count(io.reader # "off")
                               + Cardinality(Alive) + Cardinality(Active)
      BY <1>10, <2>1, <2>2, <2>3, <2>5, <3>1 DEF Count
    <3> QED BY <1>10, <2>5, <3>1, <3>2 DEF RefsExact, Count, Alive, Active
  <2> QED BY <1>1, <2>4, <2>6 DEF QueueInv
<1> QED BY <1>3, <1>4, <1>5, <1>6, <1>8, <1>9, <1>10, <1>11, <1>12 DEF Inv, ReleasedInv

LEMMA CallerInv ==
    ASSUME Inv, NEW c \in Caller, CallerStep(c)
    PROVE  Inv'
<1>1. CASE ChangeState(c) \/ CloseLockState(c) \/ CloseLockIpc(c)
  BY <1>1, ChangeStateInv, CloseLockStateInv, CloseLockIpcInv
<1>2. CASE CloseBind(c) \/ BindClose(c) \/ BindNotUp(c) \/ BindOpen(c) \/ BindFails(c) \/ BindStart(c)
  BY <1>2, CloseBindInv, BindCloseInv, BindNotUpInv, BindOpenInv, BindFailsInv, BindStartInv
<1>3. CASE UpLockIpc(c) \/ ReadLockPeers(c) \/ UpStart(c) \/ UpKeepalive(c)
  BY <1>3, UpLockIpcInv, ReadLockPeersInv, UpStartInv, UpKeepaliveInv
<1>4. CASE PeersDone(c) \/ StopIdle(c) \/ StopBegin(c) \/ AnnounceLockPeers(c)
  BY <1>4, PeersDoneInv, StopIdleInv, StopBeginInv, AnnounceLockPeersInv
<1>5. CASE LockPeers(c) \/ RemovePeer(c) \/ RemoveAllPeers(c) \/ CloseDone(c)
  BY <1>5, LockPeersInv, RemovePeerInv, RemoveAllPeersInv, CloseDoneInv
<1>6. CASE IpcSet(c) \/ IpcError(c) \/ PostConfig(c) \/ PostStartCheck(c) \/ PostStart(c) \/ PostSend(c)
  BY <1>6, IpcSetInv, IpcErrorInv, PostConfigInv, PostStartCheckInv, PostStartInv
<1> QED BY <1>1, <1>2, <1>3, <1>4, <1>5, <1>6 DEF CallerStep

LEMMA NextInv ==
    ASSUME Inv, [Next]_vars
    PROVE  Inv'
<1>1. ASSUME NEW c \in Caller, Begin(c) \/ CallerStep(c) \/ TunFails(c) PROVE Inv'
  BY <1>1, BeginInv, CallerInv, TunFailsInv
<1>2. ASSUME NEW p \in Peer, StopStep(p) \/ SenderStep(p) \/ ReceiverStep(p) PROVE Inv'
  BY <1>2, StopStepInv, StopEndInv, SenderInv, ReceiverInv DEF StopStep, SenderStep, ReceiverStep
<1>3. ASSUME NEW p \in Peer, SenderTakes(p) \/ TimerFires(p) \/ TimerSends(p) \/ ReceiveTransport(p)
      PROVE  Inv'
  BY <1>3, SenderInv, TimerInv, ReceiveInvs
<1>4. CASE ReceiveHandshake \/ ReceiveFails \/ ReceiveStep
  BY <1>4, ReceiveInvs, PushInboundInv, ReceiveEndsInv DEF ReceiveStep, ReceiveStops, ReceiveFails
<1>5. CASE TunReads \/ ReaderStep
  BY <1>5, ReceiveInvs, TunStopsInv DEF ReaderStep
<1>6. ASSUME NEW w \in Worker, WorkerStep(w) PROVE Inv'
  BY <1>6, WorkerGoesOn, WorkerStopsInv DEF WorkerStep
<1>7. ASSUME NEW q \in Queue, CloseQueue(q) PROVE Inv'
  BY <1>7, CloseQueueInv
<1>8. CASE UNCHANGED vars
  <2>1. /\ UNCHANGED <<dev, caller, peer, queues>> /\ io' \in IO /\ WorkerInv'
        /\ io' = io /\ worker' = worker
    BY <1>8 DEF vars, Inv, DevTypes, WorkerInv
  <2> QED BY <2>1, GoesOn
<1> QED BY <1>1, <1>2, <1>3, <1>4, <1>5, <1>6, <1>7, <1>8 DEF Next

\* The invariant holds in every state of the life of the device: each point of
\* a call owns the mutexes it should, and what the call has seen still holds.
THEOREM Invariance == Spec => []Inv
<1>1. Inv /\ [Next]_vars => Inv'
  BY NextInv
<1> QED BY InitInv, <1>1, PTL DEF Spec

\* The WaitGroups of the queues (channels.go) count exactly the goroutines that
\* write to them, whatever Up, Down, Close, IPC and BindUpdate interleave.
THEOREM ReferencesAreExact == Spec => []RefsExact
<1>1. Inv => RefsExact
  BY DEF Inv, QueueInv
<1> QED BY Invariance, <1>1, PTL

\* No goroutine that may still send finds a closed channel: a queue is closed
\* when its count is zero, and every sender is counted or runs in a call that
\* keeps Close from giving up the references of the device.
THEOREM ChannelsStayOpen == Spec => []NoSendOnClosedChannel
<1>1. ASSUME Inv PROVE NoSendOnClosedChannel
  <2>1. /\ QueueInv /\ PeerInv /\ ReleasedInv /\ KeyInv
        /\ \A q \in Queue : open[q] \in BOOLEAN /\ (~open[q] => refs[q] = 0)
    BY <1>1 DEF Inv, QueueInv
  <2>2. io.recv # "off" => open["decryption"] /\ open["handshake"]
    <3>1. io.recv # "off" => refs["decryption"] > 0 /\ refs["handshake"] > 0
      BY <2>1, QueueFacts DEF Count
    <3> QED BY <2>1, <3>1 DEF Queue
  <2>3. ~Released \/ io.reader # "off" \/ Cardinality(Alive) > 0 \/ Cardinality(Active) > 0
          => open["encryption"]
    <3>1. ~Released \/ io.reader # "off" \/ Cardinality(Alive) > 0 \/ Cardinality(Active) > 0
          => refs["encryption"] > 0
      BY <2>1, QueueFacts DEF Count
    <3> QED BY <2>1, <3>1 DEF Queue
  <2>4. ASSUME NEW w \in Worker, worker[w].pc # "off" PROVE open["encryption"]
    <3>1. w \in Alive
      BY <2>4 DEF Alive
    <3>2. Cardinality(Alive) > 0
      BY <2>1, <3>1, QueueFacts, FS_EmptySet
    <3> QED BY <2>3, <3>2
  <2>5. ASSUME NEW p \in Peer, \/ peer[p].sender # "off" \/ peer[p].receiver # "off"
                               \/ peer[p].running /\ peer[p].callback = "sending"
        PROVE  open["encryption"]
    <3>1. p \in Active
      BY <1>1, <2>5, PeerFacts DEF Active
    <3>2. Cardinality(Active) > 0
      BY <2>1, <3>1, QueueFacts, FS_EmptySet
    <3> QED BY <2>3, <3>2
  <2>6. ASSUME NEW c \in Caller, At(c, "postSend") \/ At(c, "upKeepalive") PROVE open["encryption"]
    <3>1. mu.ipc = c /\ ~closed
      BY <1>1, <2>6, CallerFacts DEF At, Owns, HoldsIpc, Post, Raise, StateOK
    <3>2. ~Released
      BY <1>1, <2>6, <3>1, AloneWithPeers DEF Released, At, Inv
    <3> QED BY <2>3, <3>2
  <2> QED BY <2>2, <2>3, <2>4, <2>5, <2>6 DEF NoSendOnClosedChannel
<1> QED BY Invariance, <1>1, PTL

\* A peer that RemovePeer or Close has taken out of the key map runs nothing.
THEOREM RemovedPeersAreStopped == Spec => []NoRemovedPeerRuns
<1>1. ASSUME Inv PROVE NoRemovedPeerRuns
  <2>1. ASSUME NEW p \in Peer \ keyMap
        PROVE  ~peer[p].running /\ peer[p].sender = "off" /\ peer[p].receiver = "off"
    <3>1. Stopped(p)
      BY <1>1 DEF Inv, PeerInv, StoppedPeers
    <3> QED BY <1>1, <3>1, PeerFacts DEF Stopped
  <2> QED BY <2>1 DEF NoRemovedPeerRuns
<1> QED BY Invariance, <1>1, PTL

\* After Close has returned nothing is configured, runs or receives.
THEOREM CloseIsFinal == Spec => []ClosedIsQuiet
<1>1. ASSUME Inv PROVE ClosedIsQuiet
  <2>1. closed => keyMap = {} /\ \A p \in Peer : Stopped(p)
    BY <1>1 DEF Inv, ReleasedInv, Released
  <2>2. closed => io.recv = "off" /\ io.reader = "off"
    BY <1>1 DEF Inv, ReceiveInv
  <2>3. ASSUME closed, NEW p \in Peer
        PROVE  ~peer[p].running /\ peer[p].sender = "off" /\ peer[p].receiver = "off"
    BY <1>1, <2>1, <2>3, PeerFacts DEF Stopped
  <2> QED BY <2>1, <2>2, <2>3 DEF ClosedIsQuiet
<1> QED BY Invariance, <1>1, PTL

\* When the state and net mutexes are free the receive routine runs only on a
\* device that is up: who is at bindClose owns the state mutex.
THEOREM ReceivesOnlyWhenUp == Spec => []ReceiveOnlyWhenUp
<1>1. ASSUME Inv PROVE ReceiveOnlyWhenUp
  <2>1. ASSUME NEW c \in Caller, At(c, "bindClose") PROVE mu.state = c
    BY <1>1, <2>1, CallerFacts DEF At, Owns, HoldsState, Lower
  <2>2. mu.state = None => \A c \in Caller : ~At(c, "bindClose")
    BY <2>1, SetsAssumption
  <2> QED BY <1>1, <2>2 DEF Inv, ReceiveInv, ReceiveOnlyWhenUp
<1> QED BY Invariance, <1>1, PTL
==============================================================================
