----------------------------- MODULE OutboundFlow -----------------------------
(***************************************************************************)
(* The outbound flow of one peer (device/send.go): packets are staged, get *)
(* a nonce in SendStagedPackets, which several goroutines run at once, are *)
(* sealed by the encryption workers in any order, and are sent by          *)
(* RoutineSequentialSender in the order of the peer's outbound queue.  The *)
(* mutex of a container, held from the moment it is queued until it is     *)
(* sealed, is what makes the sender wait.                                  *)
(*                                                                         *)
(* Elements (each with its message buffer) and containers come from the    *)
(* pools of device/pools.go and go back to them.  The pools have no limit  *)
(* on this system (PreallocatedBuffersPerPool is 0): the sets of names are *)
(* only as large as the bounds need.  RoutineReadFromTUN keeps a batch of  *)
(* spare elements and replaces the ones it hands on; the batch is left out *)
(* and an element is taken when a packet is read into it.                  *)
(*                                                                         *)
(* A "mutant:" comment marks a deliberately wrong variant of the           *)
(* definition that follows it; the properties tell the two apart.          *)
(***************************************************************************)
EXTENDS Integers, FiniteSets, SequencesExt

CONSTANTS
    Thread,        \* goroutines that call SendStagedPackets for the peer
    Tun,           \* the one of them that reads the TUN device
    Workers,       \* number of encryption workers
    Nil,           \* the nil container: a sentinel in the queues
    Batch,         \* packets of one read
    StagedSize,    \* QueueStagedSize
    OutboundSize,  \* QueueOutboundSize
    RejectAfter,   \* RejectAfterMessages
    Counter,       \* 2^64: the number of values of sendNonce
    MaxPackets,    \* bound: packets read
    MaxKeepalives, \* bound: keepalives
    MaxKeys,       \* bound: keypairs
    MaxStops       \* bound: stops of the peer

ASSUME OutboundAssumption ==
    /\ IsFiniteSet(Thread) /\ Tun \in Thread
    /\ {Batch, StagedSize, OutboundSize, RejectAfter, Workers, MaxKeys} \subseteq Nat \ {0}
    /\ {MaxPackets, MaxKeepalives, MaxStops} \subseteq Nat
    \* More names than goroutines: sendNonce cannot wrap between an Add and
    \* the Store that follows it.
    /\ Counter \in Nat /\ Counter > RejectAfter + Cardinality(Thread)

\* Data packets are numbered in the order in which they are read, keepalives
\* downwards.
Packet == -MaxKeepalives .. MaxPackets
Elem == 1 .. MaxPackets + MaxKeepalives
Container == 1 .. MaxPackets + MaxKeepalives + Cardinality(Thread)
Key == 1 .. MaxKeys
NoKey == 0

ASSUME NilAssumption == Nil \notin Container

VARIABLES
    elem,        \* the queue elements: packet, keypair, nonce, sealed or not
    cont,        \* the containers: elems, and whether the mutex is held
    elemPool, contPool,
    staged,      \* peer.queue.staged
    outbound,    \* peer.queue.outbound
    encryption,  \* device.queue.encryption; the workers are at the first ones
    thread,      \* variables of the goroutines in SendStagedPackets
    sender,      \* variables of RoutineSequentialSender
    keys,        \* peer.keypairs: current, next, and how many there were
    sendNonce,   \* Keypair.sendNonce of every keypair
    isRunning, isUp,
    control,     \* the goroutine that starts and stops the peer
    stops,       \* stops so far
    packets,     \* packets read and keepalives made so far
    sealed,      \* history: what was sealed, under which keypair and nonce
    queued,      \* history: packets in the order of the outbound queue
    wire         \* history: packets handed to SendBuffers

pools == <<elem, cont, elemPool, contPool>>
peerState == <<keys, sendNonce, isRunning, isUp, control, stops>>
history == <<packets, sealed, queued, wire>>
vars == <<pools, staged, outbound, encryption, thread, sender, peerState, history>>

Blank == [packet |-> 0, key |-> NoKey, nonce |-> 0, sealed |-> FALSE]
Empty == [elems |-> <<>>, locked |-> FALSE]
Idle == [pc |-> "idle", key |-> NoKey, c |-> Nil, ooo |-> Nil, i |-> 1, kept |-> <<>>]

\* The peer has been started and has no keypair yet.
Init ==
    /\ elem = [e \in Elem |-> Blank]
    /\ cont = [c \in Container |-> Empty]
    /\ elemPool = [free |-> Elem, count |-> 0]
    /\ contPool = [free |-> Container, count |-> 0]
    /\ staged = <<>> /\ outbound = <<>> /\ encryption = <<>>
    /\ thread = [t \in Thread |-> Idle]
    /\ sender = [pc |-> "idle", c |-> Nil]
    /\ keys = [current |-> NoKey, next |-> NoKey, made |-> 0]
    /\ sendNonce = [k \in Key |-> 0]
    /\ isRunning = TRUE /\ isUp = TRUE
    /\ control = "started" /\ stops = 0
    /\ packets = [read |-> 0, keepalives |-> 0]
    /\ sealed = {} /\ queued = <<>> /\ wire = <<>>

-----------------------------------------------------------------------------
(* Pools. *)

Smallest(S) == CHOOSE x \in S : \A y \in S : x <= y
GetFrom(pool, S) == [free |-> pool.free \ S, count |-> pool.count + Cardinality(S)]
PutInto(pool, S) == [free |-> pool.free \cup S, count |-> pool.count - Cardinality(S)]

Elems(c) == Range(cont[c].elems)
Packets(c) == [i \in DOMAIN cont[c].elems |-> elem[cont[c].elems[i]].packet]

\* Which elements are taken does not matter.
NewElems(n) == CHOOSE es \in [1 .. n -> elemPool.free] : IsInjective(es)

\* A new container c with new elements that hold the packets.
NewContainer(c, ps) ==
    LET es == NewElems(Len(ps)) IN
    /\ c = Smallest(contPool.free)
    /\ elemPool' = GetFrom(elemPool, Range(es))
    /\ contPool' = GetFrom(contPool, {c})
    /\ elem' = [e \in Elem |->
         IF e \in Range(es) THEN [Blank EXCEPT !.packet = ps[CHOOSE i \in DOMAIN es : es[i] = e]]
                            ELSE elem[e]]
    /\ cont' = [cont EXCEPT ![c] = [elems |-> es, locked |-> FALSE]]

\* mutant: only the container is returned.
NoElems(c) == {}
ToReturn(c) == Elems(c)

\* The elements of a container and the container go back.
PutAll(c) ==
    /\ elemPool' = PutInto(elemPool, ToReturn(c))
    /\ contPool' = PutInto(contPool, {c})
    /\ elem' = [e \in Elem |-> IF e \in Elems(c) THEN Blank ELSE elem[e]]
    /\ cont' = [cont EXCEPT ![c] = Empty]

Becomes(t, next) == thread' = [thread EXCEPT ![t] = next]
Goto(t, pc) == thread' = [thread EXCEPT ![t].pc = pc]
At(t, pc) == thread[t].pc = pc

-----------------------------------------------------------------------------
(* Staging. *)

\* RoutineReadFromTUN: a read of n packets for this peer.
ReadFromTUN(n) ==
    /\ At(Tun, "idle") /\ control # "removed"
    /\ packets.read + n <= MaxPackets
    /\ \E c \in contPool.free :
         /\ NewContainer(c, [i \in 1 .. n |-> packets.read + i])
         /\ Becomes(Tun, [Idle EXCEPT !.pc = "read", !.c = c])
    /\ packets' = [packets EXCEPT !.read = @ + n]
    /\ UNCHANGED <<staged, outbound, encryption, sender, peerState, sealed, queued, wire>>

StageIfRunning ==
    /\ At(Tun, "read")
    /\ IF isRunning THEN Goto(Tun, "stage") /\ UNCHANGED pools
                    ELSE PutAll(thread[Tun].c) /\ Becomes(Tun, Idle)
    /\ UNCHANGED <<staged, outbound, encryption, sender, peerState, history>>

HasRoom == Len(staged) < StagedSize

\* StagePackets, by the TUN reader, which then sends, and by SendStagedPackets
\* for elemsContainerOOO; the container it was at is returned if it is empty.
StagePackets(t) ==
    /\ HasRoom
    /\ \/ /\ At(t, "stage")
          /\ staged' = Append(staged, thread[t].c)
          /\ Becomes(t, [Idle EXCEPT !.pc = "top"])
          /\ UNCHANGED pools
       \/ /\ At(t, "restage")
          /\ staged' = Append(staged, thread[t].ooo)
          /\ IF thread[t].kept # <<>> THEN Goto(t, "check") /\ UNCHANGED pools
             ELSE PutAll(thread[t].c) /\ Becomes(t, [Idle EXCEPT !.pc = "top"])
    /\ UNCHANGED <<outbound, encryption, sender, peerState, history>>

DropTooOld(t) ==
    /\ At(t, "stage") \/ At(t, "restage")
    /\ ~HasRoom
    /\ staged' = Tail(staged)
    /\ PutAll(Head(staged))
    /\ UNCHANGED <<outbound, encryption, thread, sender, peerState, history>>

\* SendKeepalive: a keepalive is made when nothing is staged, and dropped when
\* the queue has become full.
SendKeepalive(t) ==
    /\ At(t, "idle") /\ control # "removed"
    /\ \/ /\ staged = <<>> /\ isRunning
          /\ packets.keepalives < MaxKeepalives
          /\ \E c \in contPool.free :
               /\ NewContainer(c, <<-(packets.keepalives + 1)>>)
               /\ Becomes(t, [Idle EXCEPT !.pc = "keepalive", !.c = c])
          /\ packets' = [packets EXCEPT !.keepalives = @ + 1]
       \/ /\ staged # <<>> \/ ~isRunning
          /\ Becomes(t, [Idle EXCEPT !.pc = "top"])
          /\ UNCHANGED <<pools, packets>>
    /\ UNCHANGED <<staged, outbound, encryption, sender, peerState, sealed, queued, wire>>

StageKeepalive(t) ==
    /\ At(t, "keepalive")
    /\ \/ HasRoom /\ staged' = Append(staged, thread[t].c) /\ UNCHANGED pools
       \/ ~HasRoom /\ PutAll(thread[t].c) /\ UNCHANGED staged
    /\ Becomes(t, [Idle EXCEPT !.pc = "top"])
    /\ UNCHANGED <<outbound, encryption, sender, peerState, history>>

\* FlushStagedPackets, run by a timer when a handshake is given up.
StartFlush(t) ==
    /\ At(t, "idle") /\ staged # <<>>
    /\ Goto(t, "flush")
    /\ UNCHANGED <<pools, staged, outbound, encryption, sender, peerState, history>>

FlushStagedPackets(t) ==
    /\ At(t, "flush")
    /\ IF staged = <<>> THEN Becomes(t, Idle) /\ UNCHANGED <<pools, staged>>
       ELSE PutAll(Head(staged)) /\ staged' = Tail(staged) /\ UNCHANGED thread
    /\ UNCHANGED <<outbound, encryption, sender, peerState, history>>

-----------------------------------------------------------------------------
(* SendStagedPackets. *)

\* top: nothing is sent if nothing is staged, if the device is down, or if
\* there is no keypair that may be used (a handshake is initiated then): a
\* keypair may be too old at any time.
Top(t) ==
    /\ At(t, "top")
    /\ \/ Becomes(t, Idle)
       \/ /\ staged # <<>> /\ isUp /\ keys.current # NoKey
          /\ sendNonce[keys.current] < RejectAfter
          /\ Becomes(t, [Idle EXCEPT !.pc = "take", !.key = keys.current])
    /\ UNCHANGED <<pools, staged, outbound, encryption, sender, peerState, history>>

Take(t) ==
    /\ At(t, "take")
    /\ IF staged = <<>> THEN Becomes(t, Idle) /\ UNCHANGED staged
       ELSE /\ staged' = Tail(staged)
            /\ Becomes(t, [Idle EXCEPT !.pc = "nonce", !.key = thread[t].key, !.c = Head(staged)])
    /\ UNCHANGED <<pools, outbound, encryption, sender, peerState, history>>

\* mutant: the limit itself is used.
UpToLimit(nonce) == nonce <= RejectAfter
Accepted(nonce) == nonce < RejectAfter

\* The element whose turn it is.
Current(t) == cont[thread[t].c].elems[thread[t].i]

\* The next element; after the last one the mutex is taken and the container
\* keeps the elements that have a nonce.
IsLast(t) == thread[t].i = Len(cont[thread[t].c].elems)
NextElem(t, kept, ooo) ==
    Becomes(t, [thread[t] EXCEPT
        !.i = @ + 1, !.kept = kept, !.ooo = ooo,
        !.pc = IF ~IsLast(t) THEN "nonce" ELSE IF ooo = Nil THEN "check" ELSE "restage"])
LockAfterLast(t, kept) ==
    IF IsLast(t) THEN [cont EXCEPT ![thread[t].c] = [elems |-> kept, locked |-> TRUE]] ELSE cont

\* elem.nonce = keypair.sendNonce.Add(1) - 1
AddNonce(t) ==
    LET k == thread[t].key
        n == sendNonce[k]
        kept == Append(thread[t].kept, Current(t))
    IN
    /\ At(t, "nonce")
    /\ sendNonce' = [sendNonce EXCEPT ![k] = (n + 1) % Counter]
    /\ elem' = [elem EXCEPT ![Current(t)].nonce = n,
                            ![Current(t)].key = IF Accepted(n) THEN k ELSE @]
    /\ IF Accepted(n)
       THEN NextElem(t, kept, thread[t].ooo) /\ cont' = LockAfterLast(t, kept)
       ELSE Goto(t, "store") /\ UNCHANGED cont
    /\ UNCHANGED <<elemPool, contPool, staged, outbound, encryption, sender,
                   keys, isRunning, isUp, control, stops, history>>

StoreLimit(k) == sendNonce' = [sendNonce EXCEPT ![k] = RejectAfter]

\* The limit is reached: the element goes to elemsContainerOOO.
StoreNonce(t) ==
    /\ At(t, "store")
    /\ StoreLimit(thread[t].key)
    /\ \E c \in IF thread[t].ooo = Nil THEN contPool.free ELSE {thread[t].ooo} :
         /\ thread[t].ooo = Nil => c = Smallest(contPool.free)
         /\ contPool' = IF thread[t].ooo = Nil THEN GetFrom(contPool, {c}) ELSE contPool
         /\ cont' = [LockAfterLast(t, thread[t].kept) EXCEPT ![c].elems = Append(@, Current(t))]
         /\ NextElem(t, thread[t].kept, c)
    /\ UNCHANGED <<elem, elemPool, staged, outbound, encryption, sender,
                   keys, isRunning, isUp, control, stops, history>>

\* What follows a container: the next one, or top if some had no nonce.
Continue(t) ==
    Becomes(t, [Idle EXCEPT !.pc = IF thread[t].ooo = Nil THEN "take" ELSE "top",
                            !.key = IF thread[t].ooo = Nil THEN thread[t].key ELSE NoKey])

CheckRunning(t) ==
    /\ At(t, "check")
    /\ IF isRunning THEN Goto(t, "outbound") /\ UNCHANGED pools
                    ELSE PutAll(thread[t].c) /\ Continue(t)
    /\ UNCHANGED <<staged, outbound, encryption, sender, peerState, history>>

PushOutbound(t) ==
    /\ At(t, "outbound")
    /\ Len(outbound) < OutboundSize
    /\ outbound' = Append(outbound, thread[t].c)
    /\ queued' = queued \o Packets(thread[t].c)
    /\ Goto(t, "encryption")
    /\ UNCHANGED <<pools, staged, encryption, sender, peerState, packets, sealed, wire>>

PushEncryption(t) ==
    /\ At(t, "encryption")
    /\ Len(encryption) < OutboundSize
    /\ encryption' = Append(encryption, thread[t].c)
    /\ Continue(t)
    /\ UNCHANGED <<pools, staged, outbound, sender, peerState, history>>

-----------------------------------------------------------------------------
(* RoutineEncryption and RoutineSequentialSender. *)

\* Each worker takes a container of the queue, seals its elements and releases
\* the mutex: any of the first ones may be ready first.
Seal(i) ==
    LET c == encryption[i] IN
    /\ i \in DOMAIN encryption
    /\ elem' = [e \in Elem |-> IF e \in Elems(c) THEN [elem[e] EXCEPT !.sealed = TRUE] ELSE elem[e]]
    /\ sealed' = sealed \cup {<<elem[e].key, elem[e].nonce, elem[e].packet>> : e \in Elems(c)}
    /\ cont' = [cont EXCEPT ![c].locked = FALSE]
    /\ encryption' = RemoveAt(encryption, i)
    /\ UNCHANGED <<elemPool, contPool, staged, outbound, thread, sender, peerState, packets, queued,
                   wire>>

Unlocked(c) == ~cont[c].locked

\* mutant: the sender takes a container that is ready.
IsReady(i) == outbound[i] # Nil => ~cont[outbound[i]].locked
IsNext(i) == i = 1

SenderTakes ==
    /\ sender.pc = "idle"
    /\ \E i \in DOMAIN outbound :
         /\ IsNext(i)
         /\ outbound' = RemoveAt(outbound, i)
         /\ sender' = IF outbound[i] = Nil THEN [pc |-> "off", c |-> Nil]
                      ELSE [pc |-> IF isRunning THEN "send" ELSE "return", c |-> outbound[i]]
    /\ UNCHANGED <<pools, staged, encryption, thread, peerState, history>>

SenderReturns ==
    /\ sender.pc = "return"
    /\ Unlocked(sender.c)
    /\ PutAll(sender.c)
    /\ sender' = [pc |-> "idle", c |-> Nil]
    /\ UNCHANGED <<staged, outbound, encryption, thread, peerState, history>>

Messages(c) == [i \in DOMAIN cont[c].elems |->
                  [packet |-> elem[cont[c].elems[i]].packet, sealed |-> elem[cont[c].elems[i]].sealed]]

SenderSends ==
    /\ sender.pc = "send"
    /\ Unlocked(sender.c)
    /\ wire' = wire \o Messages(sender.c)
    /\ PutAll(sender.c)
    /\ sender' = [pc |-> "idle", c |-> Nil]
    /\ UNCHANGED <<staged, outbound, encryption, thread, peerState, packets, sealed, queued>>

-----------------------------------------------------------------------------
(* Keypairs, stop and start. *)

\* BeginSymmetricSession (NoiseSession has the whole of it).
NewKeypair(isInitiator) ==
    /\ isRunning /\ keys.made < MaxKeys
    /\ keys' = [made |-> keys.made + 1,
                current |-> IF isInitiator THEN keys.made + 1 ELSE keys.current,
                next |-> IF isInitiator THEN NoKey ELSE keys.made + 1]
    /\ UNCHANGED <<pools, staged, outbound, encryption, thread, sender, sendNonce,
                   isRunning, isUp, control, stops, history>>

\* RoutineSequentialReceiver: a packet confirms the next keypair, and staged
\* packets are sent with it.
ReceivedWithKeypair(t) ==
    /\ At(t, "idle") /\ sender.pc # "off"
    /\ keys.next # NoKey
    /\ keys' = [keys EXCEPT !.current = keys.next, !.next = NoKey]
    /\ Becomes(t, [Idle EXCEPT !.pc = "top"])
    /\ UNCHANGED <<pools, staged, outbound, encryption, sender, sendNonce, isRunning, isUp,
                   control, stops, history>>

\* ExpireCurrentKeypairs: the private key of the device was changed.
ExpireCurrentKeypairs ==
    /\ control = "started"
    /\ keys.current # NoKey \/ keys.next # NoKey
    /\ sendNonce' = [k \in Key |-> IF k \in {keys.current, keys.next} THEN RejectAfter
                                                                      ELSE sendNonce[k]]
    /\ UNCHANGED <<pools, staged, outbound, encryption, thread, sender, keys, isRunning, isUp,
                   control, stops, history>>

\* Stop, by Down or because the peer is removed.
Stop ==
    /\ control = "started" /\ stops < MaxStops
    /\ isRunning' = FALSE
    /\ isUp' \in BOOLEAN
    /\ control' = "nil" /\ stops' = stops + 1
    /\ UNCHANGED <<pools, staged, outbound, encryption, thread, sender, keys, sendNonce,
                   history>>

StopPushesNil ==
    /\ control = "nil"
    /\ Len(outbound) < OutboundSize
    /\ outbound' = Append(outbound, Nil)
    /\ control' = "stopping"
    /\ UNCHANGED <<pools, staged, encryption, thread, sender, keys, sendNonce, isRunning,
                   isUp, stops, history>>

\* The routines have ended: ZeroAndFlushAll deletes the keypairs ...
ZeroKeys ==
    /\ control = "stopping" /\ sender.pc = "off"
    /\ keys' = [keys EXCEPT !.current = NoKey, !.next = NoKey]
    /\ control' = "flushing"
    /\ UNCHANGED <<pools, staged, outbound, encryption, thread, sender, sendNonce, isRunning,
                   isUp, stops, history>>

\* ... and flushes the staged packets.
StopFlushes ==
    /\ control = "flushing"
    /\ IF staged = <<>> THEN control' = "stopped" /\ UNCHANGED <<pools, staged>>
       ELSE PutAll(Head(staged)) /\ staged' = Tail(staged) /\ UNCHANGED control
    /\ UNCHANGED <<outbound, encryption, thread, sender, keys, sendNonce, isRunning, isUp,
                   stops, history>>

Start ==
    /\ control = "stopped" /\ ~isUp
    /\ isUp' = TRUE
    /\ control' = "starting"
    /\ UNCHANGED <<pools, staged, outbound, encryption, thread, sender, keys, sendNonce,
                   isRunning, stops, history>>

RemovePeer ==
    /\ control = "stopped" /\ isUp
    /\ control' = "removed"
    /\ UNCHANGED <<pools, staged, outbound, encryption, thread, sender, keys, sendNonce,
                   isRunning, isUp, stops, history>>

\* flushOutboundQueue: a container that was queued after the nil is returned
\* when its mutex is released.
FlushOne ==
    /\ outbound # <<>>
    /\ Unlocked(Head(outbound))
    /\ PutAll(Head(outbound))
    /\ outbound' = Tail(outbound)

\* Start flushes the queue and starts the routines.
StartFlushes ==
    /\ control = "starting"
    /\ \/ FlushOne /\ UNCHANGED <<sender, isRunning, control>>
       \/ /\ outbound = <<>>
          /\ sender' = [pc |-> "idle", c |-> Nil]
          /\ isRunning' = TRUE
          /\ control' = "started"
          /\ UNCHANGED <<pools, outbound>>
    /\ UNCHANGED <<staged, encryption, thread, keys, sendNonce, isUp, stops, history>>

\* The finalizer of the queue of a peer that nobody refers to any more.
Finalizer ==
    /\ control = "removed" /\ \A t \in Thread : At(t, "idle")
    /\ FlushOne
    /\ UNCHANGED <<staged, encryption, thread, sender, peerState, history>>

-----------------------------------------------------------------------------

\* Timers, handshake workers, RoutineSequentialReceiver.
Other == Thread \ {Tun}

\* Steps of a goroutine that is in SendStagedPackets or about to call it.
ThreadStep(t) ==
    \/ StagePackets(t) \/ DropTooOld(t) \/ StageKeepalive(t) \/ FlushStagedPackets(t)
    \/ Top(t) \/ Take(t) \/ AddNonce(t) \/ StoreNonce(t)
    \/ CheckRunning(t) \/ PushOutbound(t) \/ PushEncryption(t)

SenderStep == SenderTakes \/ SenderReturns \/ SenderSends
StopStep == StopPushesNil \/ ZeroKeys \/ StopFlushes

Next ==
    \/ \E n \in 1 .. Batch : ReadFromTUN(n)
    \/ StageIfRunning
    \/ \E t \in Other : SendKeepalive(t) \/ StartFlush(t) \/ ReceivedWithKeypair(t)
    \/ \E t \in Thread : ThreadStep(t)
    \/ \E i \in 1 .. Workers : Seal(i)
    \/ SenderStep
    \/ \E isInitiator \in BOOLEAN : NewKeypair(isInitiator)
    \/ ExpireCurrentKeypairs
    \/ Stop \/ StopStep \/ Start \/ StartFlushes \/ RemovePeer \/ Finalizer

Spec == Init /\ [][Next]_vars

\* A goroutine that can run does, and so does every worker and routine.
Fairness ==
    /\ WF_vars(StageIfRunning) /\ WF_vars(SenderStep) /\ WF_vars(StopStep)
    /\ \A t \in Thread : WF_vars(ThreadStep(t))
    /\ WF_vars(Seal(1))

FairSpec == Spec /\ Fairness

-----------------------------------------------------------------------------
(* Properties. *)

\* Every variable keeps its type, and no queue grows beyond its channel
\* (StagePackets makes room, PushOutbound and PushEncryption wait for it).
TypeOK ==
    /\ elem \in [Elem -> [packet : Packet, key : Key \cup {NoKey}, nonce : 0 .. Counter - 1,
                          sealed : BOOLEAN]]
    /\ \A c \in Container : cont[c].elems \in Seq(Elem) /\ cont[c].locked \in BOOLEAN
    /\ elemPool.free \subseteq Elem /\ contPool.free \subseteq Container
    /\ staged \in Seq(Container) /\ Len(staged) <= StagedSize
    /\ outbound \in Seq(Container \cup {Nil}) /\ Len(outbound) <= OutboundSize
    /\ encryption \in Seq(Container) /\ Len(encryption) <= OutboundSize
    /\ keys.current \in Key \cup {NoKey} /\ keys.next \in Key \cup {NoKey}
    /\ sendNonce \in [Key -> 0 .. Counter - 1]

\* A nonce is used once under a keypair, and none at the limit or above it,
\* whatever the goroutines in SendStagedPackets and ExpireCurrentKeypairs do to
\* the counter.
NonceOnce ==
    /\ \A a, b \in sealed : a[1] = b[1] /\ a[2] = b[2] => a = b
    /\ \A a \in sealed : a[2] < RejectAfter

Position(packet) == CHOOSE i \in DOMAIN queued : queued[i] = packet

\* RoutineSequentialSender sends packets in the order in which they entered the
\* outbound queue, and only once they are sealed, though the workers of
\* RoutineEncryption seal them in any order, the sender takes a container that
\* may still be in their queue, and containers are recycled.
SentAsQueued ==
    /\ \A i \in DOMAIN wire : wire[i].sealed
    /\ \A i, j \in DOMAIN wire : i < j => Position(wire[i].packet) < Position(wire[j].packet)

\* The containers that a goroutine has: elemsContainerOOO until it is staged.
InHand(t) ==
    (IF thread[t].pc \in {"nonce", "store", "restage"} THEN {thread[t].c, thread[t].ooo}
     ELSE IF At(t, "encryption") THEN {} ELSE {thread[t].c}) \ {Nil}

\* The elements of a container; while the nonces are drawn, the ones that got
\* one and the ones whose turn is to come.
Contents(c) ==
    IF \E t \in Thread : thread[t].c = c /\ thread[t].pc \in {"nonce", "store"}
    THEN LET t == CHOOSE t \in Thread : thread[t].c = c
         IN Range(thread[t].kept) \cup {cont[c].elems[j] : j \in thread[t].i .. Len(cont[c].elems)}
    ELSE Elems(c)

\* Where containers are: each in one place.  Workers only have containers that
\* are also queued or about to be.
Held == <<Range(staged), Range(outbound) \ {Nil}, {sender.c} \ {Nil}>>
PlacesOf(c) ==
    Cardinality({i \in DOMAIN Held : c \in Held[i]})
      + Cardinality({t \in Thread : c \in InHand(t)})

\* The pools are exact: every container and every element that was taken is in
\* one place, none is lost or returned twice, and what a worker has is still
\* locked.
PoolsExact ==
    /\ \A c \in Container : PlacesOf(c) = IF c \in contPool.free THEN 0 ELSE 1
    /\ \A e \in Elem :
         Cardinality({c \in Container \ contPool.free : e \in Contents(c)})
           = IF e \in elemPool.free THEN 0 ELSE 1
    /\ elemPool.count = Cardinality(Elem \ elemPool.free)
    /\ contPool.count = Cardinality(Container \ contPool.free)
    /\ \A c \in Range(encryption) : cont[c].locked

\* The order of packets of the peer is maintained (send.go:38).
OrderMaintained ==
    \A i, j \in DOMAIN wire :
        i < j /\ wire[i].packet > 0 /\ wire[j].packet > 0 => wire[i].packet < wire[j].packet

\* A container in the outbound queue of a peer that runs does not stay there:
\* RoutineSequentialSender takes it unless the peer is stopped first.
QueuedIsSent ==
    \A c \in Container : isRunning /\ c \in Range(outbound) ~> ~isRunning \/ c \notin Range(outbound)

\* Peer.Stop returns: there is room for the nil it queues, and the sender that
\* it waits for reaches that nil behind what was queued before.
StopReturns == control = "nil" ~> control = "stopped"
===============================================================================
