--------------------------- MODULE DeviceLifecycle ---------------------------
(***************************************************************************)
(* The life of a Device of amneziawg-go: Up, Down and Close (device.go),   *)
(* the IPC set operation that creates, starts and removes peers (uapi.go), *)
(* BindUpdate and BindClose, Peer.Start and Peer.Stop (peer.go), and the   *)
(* goroutines they start and wait for: RoutineReceiveIncoming, the         *)
(* sequential sender and receiver of a peer, the handshake workers, the    *)
(* timers, RoutineReadFromTUN, and the goroutine behind each reference     *)
(* counted queue that closes it (channels.go).                             *)
(*                                                                         *)
(* A step runs from one point where a goroutine can block (a mutex, a      *)
(* WaitGroup, a full channel) to the next.  The mutexes are those of the   *)
(* code: device.state, device.ipcMutex, device.net, device.peers and the   *)
(* state mutex of each peer.  SendBuffers holds net.RLock around a system  *)
(* call that does not block, so a reader of net is one step that waits     *)
(* for the writer to leave.                                                *)
(*                                                                         *)
(* A "mutant:" comment marks a deliberately wrong variant of the           *)
(* definition that follows it; the properties tell the two apart.          *)
(***************************************************************************)
EXTENDS Integers, Sequences, FiniteSets

CONSTANTS
    Caller,      \* goroutines that call into Device: API, UAPI, TUN events
    Peer,        \* peers that may be configured
    Keepalive,   \* those configured with a persistent keepalive
    Worker,      \* RoutineHandshake goroutines
    None,        \* no owner
    Ops,         \* operations the callers use
    InboundSize, \* QueueInboundSize, containers in a peer's inbound queue
    MaxOps,      \* bound: operations in a behaviour
    BindMayFail  \* may bind.Open, startRouteListener or SetMark fail?

ASSUME SizesAssumption ==
    /\ InboundSize \in Nat \ {0}
    /\ MaxOps \in Nat
ASSUME SetsAssumption ==
    /\ Keepalive \subseteq Peer
    /\ IsFiniteSet(Peer) /\ IsFiniteSet(Worker)
    /\ None \notin Caller \cup Peer
    /\ {"off", "reading"} \cap Peer = {}
ASSUME OpsAssumption ==
    Ops \subseteq {"Up", "Down", "Close", "Add", "Remove", "ListenPort",
                   "BindUpdate"}

VARIABLES
    state,   \* device.state.state
    mu,      \* owners of the mutexes device.state, ipcMutex and net
    peers,   \* device.peers: its writer (or the one waiting) and its readers
    keyMap,  \* device.peers.keyMap
    closed,  \* device.closed has been closed
    caller,  \* caller -> program counter and locals
    peer,    \* peer -> its state, queues, routines and timer
    io,      \* the sockets, the TUN device, and their readers
    worker,  \* worker -> program counter and the peer it works for
    refs,    \* queue -> its WaitGroup
    open,    \* queue -> its channel is not closed
    count    \* operations begun so far

dev == <<state, mu, peers, keyMap, closed>>
queues == <<refs, open>>
vars == <<dev, caller, peer, io, worker, queues, count>>

Queue == {"encryption", "decryption", "handshake"}
HandshakeSize == 1

\* recv is RoutineReceiveIncoming: off, reading, or handing packets to a peer.
IO == [bind : {"open", "closed"}, recv : {"off", "reading"} \cup Peer,
       handshakes : 0 .. HandshakeSize,
       tun : {"open", "closed"}, reader : {"off", "reading", "sending"}]
\* stopAt says where the Stop that owns the state mutex of the peer is.
PeerState == [running : BOOLEAN, mu : Caller \cup {None},
              stopAt : {"no", "timers", "signal", "wait"},
              sender : {"off", "idle", "sending"},
              receiver : {"off", "idle", "sending"},
              inbound : Seq({"packet", "stop"}), outStop : BOOLEAN,
              armed : BOOLEAN, callback : {"idle", "sending"}]

TypeOK ==
    /\ state \in {"down", "up", "closed"}
    /\ mu \in [state : Caller \cup {None}, ipc : Caller \cup {None},
               net : Caller \cup {None}]
    /\ peers \in [w : Caller \cup {None}, r : SUBSET Caller]
    /\ keyMap \subseteq Peer /\ closed \in BOOLEAN
    /\ caller \in [Caller -> [op : Ops \cup {"none"}, arg : Peer \cup {None},
                              pc : STRING, todo : SUBSET Peer]]
    /\ DOMAIN peer = Peer
    /\ \A p \in Peer : peer[p] \in PeerState /\ Len(peer[p].inbound) <= InboundSize
    /\ io \in IO
    /\ worker \in [Worker -> [pc : {"off", "idle", "lookup", "handle", "arm", "send"},
                              peer : Peer \cup {None}]]
    /\ refs \in [Queue -> Int] /\ open \in [Queue -> BOOLEAN]
    /\ count \in 0 .. MaxOps

-----------------------------------------------------------------------------
(* NewDevice: every queue has the reference Close gives up; the encryption  *)
(* queue has one more for each handshake worker and one for the TUN reader. *)

\* mutant: no reference for RoutineReadFromTUN
RefsWithoutReader ==
    [q \in Queue |-> IF q = "encryption" THEN Cardinality(Worker) + 1 ELSE 1]
InitialRefs ==
    [q \in Queue |-> IF q = "encryption" THEN Cardinality(Worker) + 2 ELSE 1]

IdleCaller == [op |-> "none", arg |-> None, pc |-> "idle", todo |-> {}]
IdleWorker == [pc |-> "idle", peer |-> None]
NewPeer == [running |-> FALSE, mu |-> None, stopAt |-> "no", sender |-> "off",
            receiver |-> "off", inbound |-> <<>>, outStop |-> FALSE,
            armed |-> FALSE, callback |-> "idle"]

Init ==
    /\ state = "down"
    /\ mu = [state |-> None, ipc |-> None, net |-> None]
    /\ peers = [w |-> None, r |-> {}]
    /\ keyMap = {} /\ closed = FALSE
    /\ caller = [c \in Caller |-> IdleCaller]
    /\ peer = [p \in Peer |-> NewPeer]
    /\ io = [bind |-> "closed", recv |-> "off", handshakes |-> 0,
             tun |-> "open", reader |-> "reading"]
    /\ worker = [w \in Worker |-> IdleWorker]
    /\ refs = InitialRefs
    /\ open = [q \in Queue |-> TRUE]
    /\ count = 0

\* wg.Add and wg.Done on a set of queues.
Add(qs) == refs' = [q \in Queue |-> IF q \in qs THEN refs[q] + 1 ELSE refs[q]]
\* mutant: wg.Done is forgotten
ReleaseNothing(qs) == UNCHANGED refs
Release(qs) == refs' = [q \in Queue |-> IF q \in qs THEN refs[q] - 1 ELSE refs[q]]

\* A Go RWMutex keeps new readers out as soon as a writer waits for it.
PeersReadable == peers.w = None

At(c, pc) == caller[c].pc = pc
Goto(c, pc) == caller' = [caller EXCEPT ![c].pc = pc]
GotoWith(c, pc, todo) == caller' = [caller EXCEPT ![c].pc = pc, ![c].todo = todo]

\* An operation returns and gives up the mutexes it owns (defer Unlock).
Return(c) ==
    /\ caller' = [caller EXCEPT ![c] = IdleCaller]
    /\ mu' = [m \in DOMAIN mu |-> IF mu[m] = c THEN None ELSE mu[m]]

EntryOf(op) == CASE op \in {"Up", "Down", "Close"} -> "lockState"
                 [] op \in {"Add", "Remove", "ListenPort"} -> "lockIpc"
                 [] op = "BindUpdate" -> "bindLock"

Begin(c) ==
    /\ At(c, "idle") /\ count < MaxOps
    /\ count' = count + 1
    /\ \E op \in Ops : \E p \in IF op \in {"Add", "Remove"} THEN Peer ELSE {None} :
          caller' = [caller EXCEPT ![c] = [op |-> op, arg |-> p, todo |-> {},
                                           pc |-> EntryOf(op)]]
    /\ UNCHANGED <<dev, peer, io, worker, queues>>

-----------------------------------------------------------------------------
(* changeState and the first part of Close.                                 *)

\* changeState: nothing to do on a closed device or in the wanted state; the
\* state variable is updated before the device itself.
ChangeState(c) ==
    LET want == IF caller[c].op = "Up" THEN "up" ELSE "down" IN
    /\ At(c, "lockState") /\ caller[c].op \in {"Up", "Down"}
    /\ mu.state = None
    /\ IF state \in {"closed", want}
       THEN Return(c) /\ UNCHANGED state
       ELSE /\ mu' = [mu EXCEPT !.state = c]
            /\ state' = want
            /\ Goto(c, IF want = "up" THEN "bindLock" ELSE "bindClose")
    /\ UNCHANGED <<peers, keyMap, closed, peer, io, worker, queues, count>>

CloseLockState(c) ==
    /\ At(c, "lockState") /\ caller[c].op = "Close"
    /\ mu.state = None
    /\ mu' = [mu EXCEPT !.state = c]
    /\ Goto(c, "closeLockIpc")
    /\ UNCHANGED <<state, peers, keyMap, closed, peer, io, worker, queues, count>>

\* Close: the state becomes closed and the TUN device is closed.
\* mutant: Close does not wait for a running IPC set
CloseDuringIpc(c) ==
    /\ At(c, "closeLockIpc") /\ state # "closed"
    /\ state' = "closed"
    /\ io' = [io EXCEPT !.tun = "closed"]
    /\ Goto(c, "bindClose")
    /\ UNCHANGED <<mu, peers, keyMap, closed, peer, worker, queues, count>>
CloseLockIpc(c) ==
    /\ At(c, "closeLockIpc")
    /\ mu.ipc = None
    /\ IF state = "closed"
       THEN Return(c) /\ UNCHANGED <<state, io>>
       ELSE /\ mu' = [mu EXCEPT !.ipc = c]
            /\ state' = "closed"
            /\ io' = [io EXCEPT !.tun = "closed"]
            /\ Goto(c, "bindClose")
    /\ UNCHANGED <<peers, keyMap, closed, peer, worker, queues, count>>

-----------------------------------------------------------------------------
(* BindUpdate and BindClose: the net mutex is held until the old receive    *)
(* routine has ended and the new one has been started.                      *)

\* closeBindLocked closes the sockets; net.stopping is waited for next, with an
\* error of Close as without one.  BindUpdate returns the error (BindFails),
\* downLocked goes on.
CloseBind(c) ==
    /\ At(c, "bindLock") \/ At(c, "bindClose")
    /\ mu.net = None
    /\ mu' = [mu EXCEPT !.net = c]
    /\ io' = [io EXCEPT !.bind = "closed"]
    /\ Goto(c, IF At(c, "bindLock") THEN "bindOpen" ELSE "bindCloseWait")
    /\ UNCHANGED <<state, peers, keyMap, closed, peer, worker, queues, count>>

BindClose(c) ==
    /\ At(c, "bindCloseWait") /\ io.recv = "off"
    /\ mu' = [mu EXCEPT !.net = None]
    /\ Goto(c, "downPeers")
    /\ UNCHANGED <<state, peers, keyMap, closed, peer, io, worker, queues, count>>

\* What the callers of BindUpdate do next: Up goes on to start the peers, or
\* brings the device all the way back down.
AfterBindUpdate(c, ok) ==
    IF caller[c].op = "Up"
    THEN /\ state' = IF ok THEN state ELSE "down"
         /\ Goto(c, IF ok THEN "upLockIpc" ELSE "bindClose")
         /\ mu' = [mu EXCEPT !.net = None]
    ELSE Return(c) /\ UNCHANGED state

\* The sockets are opened only if the device is up.
\* mutant: the state is not looked at
OpenAnyway == TRUE
IsUp == state = "up"

BindNotUp(c) ==
    /\ At(c, "bindOpen") /\ io.recv = "off" /\ ~IsUp
    /\ AfterBindUpdate(c, TRUE)
    /\ UNCHANGED <<peers, keyMap, closed, peer, io, worker, queues, count>>

BindOpen(c) ==
    /\ At(c, "bindOpen") /\ io.recv = "off" /\ IsUp
    /\ io' = [io EXCEPT !.bind = "open"]
    /\ Goto(c, "bindStart")
    /\ UNCHANGED <<dev, peer, worker, queues, count>>

\* Closing the old sockets reported an error, and nothing else is done; or the
\* device is up and Open or the route listener failed, or SetMark did and the
\* bind stays open.
BindFails(c) ==
    /\ BindMayFail
    /\ At(c, "bindOpen") /\ io.recv = "off"
    /\ \E b \in IF IsUp THEN {"open", "closed"} ELSE {"closed"} :
          io' = [io EXCEPT !.bind = b]
    /\ AfterBindUpdate(c, FALSE)
    /\ UNCHANGED <<peers, keyMap, closed, peer, worker, queues, count>>

\* The cached source addresses are cleared under peers.RLock, and the receive
\* routine is started with a reference to both queues it writes to.
BindStart(c) ==
    /\ At(c, "bindStart") /\ PeersReadable
    /\ io' = [io EXCEPT !.recv = "reading"]
    /\ Add({"decryption", "handshake"})
    /\ AfterBindUpdate(c, TRUE)
    /\ UNCHANGED <<peers, keyMap, closed, peer, worker, open, count>>

-----------------------------------------------------------------------------
(* Peer.Start, after it has seen that the device is not closed.             *)

Start(p) ==
    /\ peer[p].mu = None
    /\ IF peer[p].running
       THEN UNCHANGED <<peer, queues>>
       ELSE /\ peer[p].sender = "off" /\ peer[p].receiver = "off"
            /\ peer' = [peer EXCEPT ![p].running = TRUE, ![p].sender = "idle",
                                    ![p].receiver = "idle", ![p].inbound = <<>>]
            /\ Add({"encryption"})
            /\ UNCHANGED open

(* upLocked after BindUpdate: every peer is started and those with a        *)
(* persistent keepalive send one at once.                                   *)

UpLockIpc(c) ==
    /\ At(c, "upLockIpc")
    /\ mu.ipc = None
    /\ mu' = [mu EXCEPT !.ipc = c]
    /\ Goto(c, "upPeers")
    /\ UNCHANGED <<state, peers, keyMap, closed, peer, io, worker, queues, count>>

\* peers.RLock of upLocked and of downLocked.
ReadLockPeers(c) ==
    /\ At(c, "upPeers") \/ At(c, "downPeers")
    /\ PeersReadable
    /\ peers' = [peers EXCEPT !.r = @ \cup {c}]
    /\ GotoWith(c, IF At(c, "upPeers") THEN "upStart" ELSE "downStop", keyMap)
    /\ UNCHANGED <<state, mu, keyMap, closed, peer, io, worker, queues, count>>

UpStart(c) ==
    /\ At(c, "upStart")
    /\ \E p \in caller[c].todo :
          /\ Start(p)
          /\ GotoWith(c, IF p \in Keepalive THEN "upKeepalive" ELSE "upStart",
                      caller[c].todo \ {p})
    /\ UNCHANGED <<dev, io, worker, count>>

\* SendKeepalive starts a handshake: SendBuffers takes net.RLock.
UpKeepalive(c) ==
    /\ At(c, "upKeepalive") /\ mu.net = None
    /\ Goto(c, "upStart")
    /\ UNCHANGED <<dev, peer, io, worker, queues, count>>

\* The read lock on the peers is given up, and with it every other lock; Close
\* still has to remove the peers.
PeersDone(c) ==
    /\ At(c, "upStart") \/ At(c, "downStop")
    /\ caller[c].todo = {}
    /\ peers' = [peers EXCEPT !.r = @ \ {c}]
    /\ IF caller[c].op = "Close" THEN Goto(c, "lockPeers") /\ UNCHANGED mu
                                 ELSE Return(c)
    /\ UNCHANGED <<state, keyMap, closed, peer, io, worker, queues, count>>

-----------------------------------------------------------------------------
(* Peer.Stop, called by downLocked for every peer and by removePeerLocked.  *)

Stopping(c) ==
    /\ At(c, "downStop") \/ At(c, "removeStop")
    /\ \A p \in Peer : peer[p].mu # c

StopIdle(c) ==
    /\ Stopping(c)
    /\ \E p \in caller[c].todo :
          /\ peer[p].mu = None /\ ~peer[p].running
          /\ GotoWith(c, caller[c].pc, caller[c].todo \ {p})
    /\ UNCHANGED <<dev, peer, io, worker, queues, count>>

StopBegin(c) ==
    /\ Stopping(c)
    /\ \E p \in caller[c].todo :
          /\ peer[p].mu = None /\ peer[p].running
          /\ peer' = [peer EXCEPT ![p].mu = c, ![p].running = FALSE,
                                  ![p].stopAt = "timers"]
    /\ UNCHANGED <<dev, caller, io, worker, queues, count>>

\* timersStop: no callback is left running and the timer is not armed.
StopTimers(p) ==
    /\ peer[p].stopAt = "timers"
    /\ peer[p].callback = "idle"
    /\ peer' = [peer EXCEPT ![p].armed = FALSE, ![p].stopAt = "signal"]
    /\ UNCHANGED <<dev, caller, io, worker, queues, count>>

\* A nil is sent to both sequential queues.
HasRoom(p) == Len(peer[p].inbound) < InboundSize

StopSignal(p) ==
    /\ peer[p].stopAt = "signal"
    /\ HasRoom(p)
    /\ peer' = [peer EXCEPT ![p].inbound = Append(@, "stop"), ![p].outStop = TRUE,
                            ![p].stopAt = "wait"]
    /\ UNCHANGED <<dev, caller, io, worker, queues, count>>

\* Both routines have ended: the peer gives up its reference to the encryption
\* queue, and ZeroAndFlushAll clears its keys.
StopEnd(p) ==
    LET c == peer[p].mu IN
    /\ peer[p].stopAt = "wait"
    /\ peer[p].sender = "off" /\ peer[p].receiver = "off"
    /\ Release({"encryption"})
    /\ peer' = [peer EXCEPT ![p].mu = None, ![p].stopAt = "no"]
    /\ GotoWith(c, caller[c].pc, caller[c].todo \ {p})
    /\ UNCHANGED <<dev, io, worker, open, count>>

-----------------------------------------------------------------------------
(* NewPeer, RemovePeer and RemoveAllPeers: the write lock on the peers.     *)

AnnounceLockPeers(c) ==
    /\ At(c, "lockPeers")
    /\ peers.w = None
    /\ peers' = [peers EXCEPT !.w = c]
    /\ Goto(c, "awaitPeers")
    /\ UNCHANGED <<state, mu, keyMap, closed, peer, io, worker, queues, count>>

\* mutant: a peer is removed without being stopped
NoPeer(c) == {}
PeersToStop(c) == IF caller[c].op = "Close" THEN keyMap ELSE {caller[c].arg}

\* NewPeer adds an unknown peer, even one that a later line of the request
\* removes; the other two begin to stop peers.
LockPeers(c) ==
    /\ At(c, "awaitPeers")
    /\ peers.r = {}
    /\ IF caller[c].arg \in Peer \ keyMap
       THEN /\ keyMap' = keyMap \cup {caller[c].arg}
            /\ peers' = [peers EXCEPT !.w = None]
            /\ Goto(c, IF caller[c].op = "Add" THEN "postConfig" ELSE "lockPeers")
       ELSE /\ GotoWith(c, "removeStop", PeersToStop(c))
            /\ UNCHANGED <<keyMap, peers>>
    /\ UNCHANGED <<state, mu, closed, peer, io, worker, queues, count>>

RemovePeer(c) ==
    /\ At(c, "removeStop") /\ caller[c].op = "Remove"
    /\ caller[c].todo = {}
    /\ keyMap' = keyMap \ {caller[c].arg}
    /\ peers' = [peers EXCEPT !.w = None]
    /\ Return(c)
    /\ UNCHANGED <<state, closed, peer, io, worker, queues, count>>

\* The rest of Close: no peer is left, so the references to the queues that
\* the device kept for new peers are given up.
RemoveAllPeers(c) ==
    /\ At(c, "removeStop") /\ caller[c].op = "Close"
    /\ caller[c].todo = {}
    /\ keyMap' = {}
    /\ peers' = [peers EXCEPT !.w = None]
    /\ Release(Queue)
    /\ Goto(c, "closeWait")
    /\ UNCHANGED <<state, mu, closed, peer, io, worker, open, count>>

\* state.stopping: the TUN reader has ended.
CloseDone(c) ==
    /\ At(c, "closeWait") /\ io.reader = "off"
    /\ closed' = TRUE
    /\ Return(c)
    /\ UNCHANGED <<state, peers, keyMap, peer, io, worker, queues, count>>

-----------------------------------------------------------------------------
(* IpcSetOperation: a peer is added or configured, removed, or the listen   *)
(* port is set.                                                             *)

IpcNext(c) ==
    LET known == caller[c].arg \in keyMap IN
    CASE caller[c].op = "ListenPort" -> "bindLock"
      [] caller[c].op = "Add" /\ known -> "postConfig"
      [] caller[c].op = "Remove" /\ known -> "lockPeers"
      [] caller[c].arg \in Peer \ keyMap ->
            IF state = "closed" THEN "return" ELSE "lockPeers"

IpcSet(c) ==
    /\ At(c, "lockIpc")
    /\ mu.ipc = None
    /\ IF IpcNext(c) = "return"
       THEN Return(c)
       ELSE mu' = [mu EXCEPT !.ipc = c] /\ Goto(c, IpcNext(c))
    /\ UNCHANGED <<state, peers, keyMap, closed, peer, io, worker, queues, count>>

\* A later line of the request is invalid: the peer stays as it is.
IpcError(c) ==
    /\ At(c, "postConfig")
    /\ Return(c)
    /\ UNCHANGED <<state, peers, keyMap, closed, peer, io, worker, queues, count>>

\* handlePostConfig reads the device state without its mutex ...
PostConfig(c) ==
    /\ At(c, "postConfig")
    /\ IF state = "up" THEN Goto(c, "postStart") /\ UNCHANGED mu ELSE Return(c)
    /\ UNCHANGED <<state, peers, keyMap, closed, peer, io, worker, queues, count>>

\* ... Start returns at once on a closed device ...
PostStartCheck(c) ==
    /\ At(c, "postStart")
    /\ Goto(c, IF state = "closed" THEN "postSend" ELSE "postStartLocked")
    /\ UNCHANGED <<dev, peer, io, worker, queues, count>>

\* ... or starts the peer ...
PostStart(c) ==
    /\ At(c, "postStartLocked")
    /\ Start(caller[c].arg)
    /\ Goto(c, "postSend")
    /\ UNCHANGED <<dev, io, worker, count>>

\* ... which sends a keepalive or what was staged (SendBuffers: net.RLock).
PostSend(c) ==
    /\ At(c, "postSend") /\ mu.net = None
    /\ Return(c)
    /\ UNCHANGED <<state, peers, keyMap, closed, peer, io, worker, queues, count>>

-----------------------------------------------------------------------------
(* RoutineReceiveIncoming                                                   *)

Receive ==
    /\ io.recv = "reading" /\ io.bind = "open"
    /\ UNCHANGED <<dev, caller, peer, worker, queues, count>>

\* Transport packets are handed to a running peer ...
ReceiveTransport(p) ==
    /\ Receive
    /\ peer[p].running
    /\ io' = [io EXCEPT !.recv = p]

\* ... when its inbound queue has room; handshake messages that find the
\* queue full are dropped.
PushInbound(p) ==
    /\ io.recv = p
    /\ HasRoom(p)
    /\ peer' = [peer EXCEPT ![p].inbound = Append(@, "packet")]
    /\ io' = [io EXCEPT !.recv = "reading"]
    /\ UNCHANGED <<dev, caller, worker, queues, count>>

ReceiveHandshake ==
    /\ Receive
    /\ io.handshakes < HandshakeSize
    /\ io' = [io EXCEPT !.handshakes = @ + 1]

ReceiveEnds ==
    /\ io.recv = "reading"
    /\ io' = [io EXCEPT !.recv = "off"]
    /\ Release({"decryption", "handshake"})
    /\ UNCHANGED <<dev, caller, peer, worker, open, count>>

\* The routine ends when its socket is closed, ...
ReceiveStops == io.bind = "closed" /\ ReceiveEnds

\* ... and on an open one after an error that is not temporary, or ten in a
\* row: the device stays up and receives nothing until the next BindUpdate.
ReceiveFails == io.bind = "open" /\ ReceiveEnds

-----------------------------------------------------------------------------
(* The goroutines of a peer.  Each may have to send, and SendBuffers needs  *)
(* net.RLock; each arms timers of a running peer of an up device.           *)

PeerOnly == UNCHANGED <<dev, caller, io, worker, queues, count>>
TimersActive(p) == peer[p].running /\ state = "up"

SenderTakes(p) ==
    /\ peer[p].sender = "idle" /\ peer[p].running
    /\ peer' = [peer EXCEPT ![p].sender = "sending"]
    /\ PeerOnly

SenderSends(p) ==
    /\ peer[p].sender = "sending" /\ mu.net = None
    /\ peer' = [peer EXCEPT ![p].sender = "idle", ![p].armed = @ \/ TimersActive(p)]
    /\ PeerOnly

SenderStops(p) ==
    /\ peer[p].sender = "idle" /\ peer[p].outStop
    /\ peer' = [peer EXCEPT ![p].sender = "off", ![p].outStop = FALSE]
    /\ PeerOnly

\* The sequential receiver sends if a packet confirms a new keypair or finds
\* the current one ageing, and stops at a nil.
ReceiverTakes(p) ==
    LET inbound == peer[p].inbound IN
    /\ peer[p].receiver = "idle" /\ inbound # <<>>
    /\ \E pc \in IF Head(inbound) = "stop" THEN {"off"} ELSE {"idle", "sending"} :
          peer' = [peer EXCEPT ![p].inbound = Tail(@), ![p].receiver = pc]
    /\ PeerOnly

ReceiverSends(p) ==
    /\ peer[p].receiver = "sending" /\ mu.net = None
    /\ peer' = [peer EXCEPT ![p].receiver = "idle", ![p].armed = @ \/ TimersActive(p)]
    /\ PeerOnly

TimerFires(p) ==
    /\ peer[p].armed /\ peer[p].callback = "idle"
    /\ peer' = [peer EXCEPT ![p].armed = FALSE, ![p].callback = "sending"]
    /\ PeerOnly

TimerSends(p) ==
    /\ peer[p].callback = "sending" /\ mu.net = None
    /\ peer' = [peer EXCEPT ![p].callback = "idle", ![p].armed = @ \/ TimersActive(p)]
    /\ PeerOnly

-----------------------------------------------------------------------------
(* RoutineHandshake, RoutineReadFromTUN and the closers of the queues.      *)

\* A message is an initiation that goes on to LookupPeer, a response that finds
\* its peer through the index table, or is dropped.
WorkerTakes(w) ==
    /\ worker[w].pc = "idle" /\ io.handshakes > 0
    /\ io' = [io EXCEPT !.handshakes = @ - 1]
    /\ \/ worker' = [worker EXCEPT ![w].pc = "lookup"]
       \/ \E p \in keyMap : worker' = [worker EXCEPT ![w] = [pc |-> "handle", peer |-> p]]
       \/ UNCHANGED worker
    /\ UNCHANGED <<dev, caller, peer, queues, count>>

\* LookupPeer waits for peers.RLock; the initiation is from a peer of this
\* device and right, or is dropped.
WorkerLooksUp(w) ==
    /\ worker[w].pc = "lookup" /\ PeersReadable
    /\ \/ \E p \in keyMap : worker' = [worker EXCEPT ![w] = [pc |-> "handle", peer |-> p]]
       \/ worker' = [worker EXCEPT ![w] = IdleWorker]
    /\ UNCHANGED <<dev, caller, peer, io, queues, count>>

\* The timers of the peer are checked and armed in two steps.
WorkerHandles(w) ==
    /\ worker[w].pc = "handle"
    /\ worker' = [worker EXCEPT ![w].pc =
                    IF TimersActive(worker[w].peer) THEN "arm" ELSE "send"]
    /\ UNCHANGED <<dev, caller, peer, io, queues, count>>

WorkerArms(w) ==
    /\ worker[w].pc = "arm"
    /\ peer' = [peer EXCEPT ![worker[w].peer].armed = TRUE]
    /\ worker' = [worker EXCEPT ![w].pc = "send"]
    /\ UNCHANGED <<dev, caller, io, queues, count>>

WorkerSends(w) ==
    /\ worker[w].pc = "send" /\ mu.net = None
    /\ worker' = [worker EXCEPT ![w] = IdleWorker]
    /\ UNCHANGED <<dev, caller, peer, io, queues, count>>

WorkerStops(w) ==
    /\ worker[w].pc = "idle" /\ io.handshakes = 0 /\ ~open["handshake"]
    /\ worker' = [worker EXCEPT ![w].pc = "off"]
    /\ Release({"encryption"})
    /\ UNCHANGED <<dev, caller, peer, io, open, count>>

\* A packet from the TUN device for a running peer of a device that is up may
\* start a handshake (net.RLock).
TunReads ==
    /\ io.reader = "reading" /\ io.tun = "open" /\ state = "up"
    /\ \E p \in Peer : peer[p].running
    /\ io' = [io EXCEPT !.reader = "sending"]
    /\ UNCHANGED <<dev, caller, peer, worker, queues, count>>

TunSends ==
    /\ io.reader = "sending" /\ mu.net = None
    /\ io' = [io EXCEPT !.reader = "reading"]
    /\ UNCHANGED <<dev, caller, peer, worker, queues, count>>

\* Reading fails once the TUN device is closed.
TunStops ==
    /\ io.reader = "reading" /\ io.tun = "closed"
    /\ io' = [io EXCEPT !.reader = "off"]
    /\ Release({"encryption"})
    /\ UNCHANGED <<dev, caller, peer, worker, open, count>>

\* Reading fails on an open device (the interface is gone): "go device.Close()".
TunFails(c) ==
    /\ io.reader = "reading" /\ io.tun = "open" /\ state # "closed"
    /\ "Close" \in Ops
    /\ At(c, "idle")
    /\ caller' = [caller EXCEPT ![c] = [IdleCaller EXCEPT !.op = "Close",
                                                          !.pc = "lockState"]]
    /\ io' = [io EXCEPT !.reader = "off"]
    /\ Release({"encryption"})
    /\ UNCHANGED <<dev, peer, worker, open, count>>

\* "When the refcount hits 0, the queue's channel is closed."
CloseQueue(q) ==
    /\ open[q] /\ refs[q] = 0
    /\ open' = [open EXCEPT ![q] = FALSE]
    /\ UNCHANGED <<dev, caller, peer, io, worker, refs, count>>

-----------------------------------------------------------------------------
CallerStep(c) ==
    \/ ChangeState(c) \/ CloseLockState(c) \/ CloseLockIpc(c)
    \/ CloseBind(c) \/ BindClose(c) \/ BindNotUp(c) \/ BindOpen(c)
    \/ BindFails(c) \/ BindStart(c)
    \/ UpLockIpc(c) \/ ReadLockPeers(c) \/ UpStart(c) \/ UpKeepalive(c)
    \/ PeersDone(c) \/ StopIdle(c) \/ StopBegin(c)
    \/ AnnounceLockPeers(c) \/ LockPeers(c) \/ RemovePeer(c)
    \/ RemoveAllPeers(c) \/ CloseDone(c)
    \/ IpcSet(c) \/ IpcError(c) \/ PostConfig(c) \/ PostStartCheck(c)
    \/ PostStart(c) \/ PostSend(c)
StopStep(p) == StopTimers(p) \/ StopSignal(p) \/ StopEnd(p)
SenderStep(p) == SenderSends(p) \/ SenderStops(p)
ReceiverStep(p) == ReceiverTakes(p) \/ ReceiverSends(p)
ReceiveStep == (\E p \in Peer : PushInbound(p)) \/ ReceiveStops
WorkerStep(w) ==
    \/ WorkerTakes(w) \/ WorkerLooksUp(w) \/ WorkerHandles(w)
    \/ WorkerArms(w) \/ WorkerSends(w) \/ WorkerStops(w)
ReaderStep == TunSends \/ TunStops

Next ==
    \/ \E c \in Caller : Begin(c) \/ CallerStep(c) \/ TunFails(c)
    \/ \E p \in Peer : \/ StopStep(p) \/ SenderStep(p) \/ ReceiverStep(p)
                       \/ SenderTakes(p) \/ TimerFires(p) \/ TimerSends(p)
                       \/ ReceiveTransport(p)
    \/ ReceiveHandshake \/ ReceiveFails \/ ReceiveStep
    \/ TunReads \/ ReaderStep
    \/ \E w \in Worker : WorkerStep(w)
    \/ \E q \in Queue : CloseQueue(q)

\* Every goroutine that can run does run in the end.  Nobody has to call into
\* the device, no packet has to arrive, no timer has to expire and no open
\* socket has to fail.
Fairness ==
    /\ \A c \in Caller : WF_vars(CallerStep(c))
    /\ \A p \in Peer : /\ WF_vars(StopStep(p)) /\ WF_vars(SenderStep(p))
                       /\ WF_vars(ReceiverStep(p)) /\ WF_vars(TimerSends(p))
    /\ WF_vars(ReceiveStep) /\ WF_vars(ReaderStep)
    /\ \A w \in Worker : WF_vars(WorkerStep(w))
    /\ \A q \in Queue : WF_vars(CloseQueue(q))

Spec == Init /\ [][Next]_vars
FairSpec == Spec /\ Fairness

-----------------------------------------------------------------------------
(* Properties                                                               *)

\* A goroutine that may still write to a queue finds its channel open:
\* RoutineReceiveIncoming writes to the decryption and handshake queues, and
\* everybody who calls SendStagedPackets may write to the encryption queue.  A
\* send on a closed channel panics and takes the program down.
NoSendOnClosedChannel ==
    /\ io.recv # "off" => open["decryption"] /\ open["handshake"]
    /\ \/ io.reader # "off"
       \/ \E w \in Worker : worker[w].pc # "off"
       \/ \E p \in Peer : \/ peer[p].sender # "off" \/ peer[p].receiver # "off"
                          \/ peer[p].running /\ peer[p].callback = "sending"
       \/ \E c \in Caller : At(c, "postSend") \/ At(c, "upKeepalive")
       => open["encryption"]

\* Close has given up the references of the device itself.
Released == closed \/ \E c \in Caller : At(c, "closeWait")
Count(b) == IF b THEN 1 ELSE 0

\* The WaitGroup of each queue counts exactly the goroutines that hold it: the
\* device until Close releases it, the routines NewDevice, BindUpdate and Start
\* registered.  One too few panics in wg.Done or closes a channel in use; one
\* too many keeps the channel open and the workers alive for ever.
RefsExact ==
    /\ refs["encryption"] = Count(~Released) + Count(io.reader # "off")
                            + Cardinality({w \in Worker : worker[w].pc # "off"})
                            + Cardinality({p \in Peer : peer[p].running
                                                        \/ peer[p].stopAt # "no"})
    /\ \A q \in {"decryption", "handshake"} :
          refs[q] = Count(~Released) + Count(io.recv # "off")

\* A peer that is not in the key map has no goroutine of its own left:
\* removePeerLocked stops it before it takes it out, and nothing starts it.
NoRemovedPeerRuns ==
    \A p \in Peer \ keyMap : /\ ~peer[p].running
                             /\ peer[p].sender = "off" /\ peer[p].receiver = "off"

\* When Close has returned nothing is configured, nothing runs and nothing is
\* received, whatever was in progress when it was called.
ClosedIsQuiet ==
    closed => /\ keyMap = {}
              /\ io.recv = "off" /\ io.reader = "off"
              /\ \A p \in Peer : ~peer[p].running /\ peer[p].sender = "off"
                                                  /\ peer[p].receiver = "off"

\* Whenever nobody is changing the state or the bind, the receive routine runs
\* only on a device that is up, even after an Up that failed half way.
ReceiveOnlyWhenUp ==
    mu.state = None /\ mu.net = None /\ state # "up" => io.recv = "off"

\* device.go: "The state is thus either the current state of the device or the
\* intended future state of the device."  With no call in progress, a device
\* that says it is down has no running peer.
StateIsCurrentOrIntended ==
    (\A c \in Caller : At(c, "idle")) /\ state = "down"
        => \A p \in Peer : ~peer[p].running

\* Everything has ended: all goroutines are gone and the queues are closed.
Ended ==
    /\ closed
    /\ \A w \in Worker : worker[w].pc = "off"
    /\ \A q \in Queue : ~open[q]

\* A caller holds net and waits for the receive routine to end, which waits for
\* room in the queue of a peer, whose receiver waits for net to send.
QueueCycle ==
    /\ \E c \in Caller : mu.net = c /\ (At(c, "bindOpen") \/ At(c, "bindCloseWait"))
    /\ \E p \in Peer : io.recv = p /\ ~HasRoom(p) /\ peer[p].receiver = "sending"

\* A caller holds net and waits for peers.RLock; the one who has or awaits the
\* write lock waits, itself or through a reader, for the Stop of a peer, which
\* waits for a routine or a callback of the peer that waits for net to send.
StopNeedsNet(p) ==
    \/ peer[p].stopAt = "timers" /\ peer[p].callback = "sending"
    \/ peer[p].stopAt # "no" /\ "sending" \in {peer[p].sender, peer[p].receiver}
PeersCycle ==
    /\ \E c \in Caller : mu.net = c /\ At(c, "bindStart")
    /\ peers.w # None
    /\ \E p \in Peer : StopNeedsNet(p) /\ peer[p].mu \in peers.r \cup {peers.w}

\* The two deadlocks of BindUpdate.
NetCycle == QueueCycle \/ PeersCycle

\* Every call returns, and after Close the channels of all queues get closed and
\* with them the workers end, so no goroutine of the device leaks -- unless the
\* device is in one of those two deadlocks, and it has no other.  (A behaviour
\* has finitely many calls: when no more begin, each one has to have returned.)
AllReturned == /\ \A c \in Caller : At(c, "idle")
               /\ state = "closed" => Ended

\* device_test.go performs bind updates "concurrently with tunnel use": a call
\* of BindUpdate returns.
BindUpdateReturns == \A c \in Caller : caller[c].op = "BindUpdate" ~> At(c, "idle")
=============================================================================
