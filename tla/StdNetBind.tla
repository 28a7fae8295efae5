------------------------------ MODULE StdNetBind ------------------------------
(***************************************************************************)
(* The UDP bind of the device (conn/bind_std.go): one socket for each      *)
(* address family, on the same port; batches that the kernel segments when *)
(* it can, with a fallback when it refuses.  Device.BindUpdate closes and  *)
(* opens the bind under net.Lock; Peer.SendBuffers sends under net.RLock,  *)
(* SendHandshakeCookie without it.                                         *)
(*                                                                         *)
(* The kernel is external: which ports are free, which families there are, *)
(* whether a write is refused, and how received datagrams are coalesced,   *)
(* are its choice.                                                         *)
(*                                                                         *)
(* A "mutant:" comment marks a deliberately wrong variant of the           *)
(* definition that follows it; the properties tell the two apart.          *)
(***************************************************************************)
EXTENDS UdpBatch, FiniteSets

CONSTANTS
    Systems,     \* sets of families a system may have
    Port,        \* ports; 0 stands for any
    Sender,      \* goroutines that send
    Locked,      \* the ones that hold net.RLock (the others send cookies)
    Batches,     \* batches that are sent: sequences of buffers
    Incoming,    \* what a read may return: sequences of messages of the kernel
    MaxTries     \* 100: attempts to find a port that is free for both families

Family == {"v4", "v6"}
ASSUME BindAssumption ==
    /\ Systems \subseteq SUBSET Family
    /\ Port \subseteq Nat \ {0}
    /\ Locked \subseteq Sender /\ IsFiniteSet(Sender)
    /\ MaxTries \in Nat

\* With receive offload a read returns as many messages as there is room for the
\* pieces of: each is one datagram of any length, or some that the kernel has
\* coalesced, all of one size, the last may be shorter.
ASSUME IncomingAssumption ==
    \A ms \in Incoming :
        /\ ms \in Seq([buf : Seq(Int \X Int), gso : Nat])
        /\ Len(ms) <= BatchSize \div MaxDatagrams
        /\ \A i \in DOMAIN ms : ms[i].gso > 0 => Len(ms[i].buf) <= MaxDatagrams * ms[i].gso

\* Names of sockets: enough for one of each family, one that Open is at, and
\* one that each sender still refers to.
Nil == 0
Socket == 1 .. 3 + Cardinality(Sender)

VARIABLES
    sockets,     \* kernel: the port of every open socket of the process
    supported,   \* kernel: the families it has
    taken,       \* kernel: ports that other processes have, for each family
    conn,        \* ipv4 and ipv6: the socket of each family or Nil
    txOffload,   \* ipv4TxOffload, ipv6TxOffload
    port,        \* device.net.port
    update,      \* BindUpdate, which holds net.Lock
    sender       \* the senders' variables

vars == <<sockets, supported, taken, conn, txOffload, port, update, sender>>

NoUpdate == [pc |-> "idle", uport |-> 0, v4conn |-> Nil, port |-> 0, tries |-> 0]
NoSend == [pc |-> "idle", family |-> "v4", conn |-> Nil, offload |-> FALSE, bufs |-> <<>>,
           msgs |-> <<>>, retried |-> FALSE, err |-> FALSE, wire |-> <<>>]

Init ==
    /\ sockets = <<>>
    /\ supported \in Systems
    /\ taken = [f \in Family |-> {}]
    /\ conn = [f \in Family |-> Nil]
    /\ txOffload = [f \in Family |-> FALSE]
    /\ port \in Port \cup {0}
    /\ update = NoUpdate
    /\ sender = [s \in Sender |-> NoSend]

-----------------------------------------------------------------------------
(* The kernel. *)

IsOpen(socket) == socket \in DOMAIN sockets

UsedPorts(family) ==
    taken[family] \cup {sockets[s].port : s \in {t \in DOMAIN sockets : sockets[t].family = family}}

\* The ports a socket may get when it asks for p.
Bindable(family, p) ==
    IF family \notin supported THEN {}
    ELSE IF p = 0 THEN Port \ UsedPorts(family) ELSE {p} \ UsedPorts(family)

NewSocket == CHOOSE s \in Socket : s \notin DOMAIN sockets \cup {sender[t].conn : t \in Sender}

WithSocket(family, p) ==
    [s \in DOMAIN sockets \cup {NewSocket} |->
        IF s = NewSocket THEN [family |-> family, port |-> p] ELSE sockets[s]]

Without(gone) == [s \in DOMAIN sockets \ gone |-> sockets[s]]

\* Another process binds a port between two of our steps.
OtherTakesPort(family, p) ==
    /\ update.pc # "idle"
    /\ p \notin UsedPorts(family)
    /\ taken' = [taken EXCEPT ![family] = @ \cup {p}]
    /\ UNCHANGED <<sockets, supported, conn, txOffload, port, update, sender>>

-----------------------------------------------------------------------------
(* BindUpdate: Close and Open. *)

Sending(s) == sender[s].pc # "idle"

\* mutant: net.Lock is not waited for
NetUnlocked == update.pc = "idle"

NetFree == update.pc = "idle" /\ \A s \in Locked : ~Sending(s)

Closed == [f \in Family |-> Nil]

\* A listen_port line sets device.net.port before it calls BindUpdate.
Close(p) ==
    /\ NetFree
    /\ sockets' = Without({conn[f] : f \in Family})
    /\ conn' = Closed
    /\ txOffload' = [f \in Family |-> FALSE]
    /\ port' = p
    /\ update' = [NoUpdate EXCEPT !.pc = "v4", !.uport = p, !.port = p]
    /\ UNCHANGED <<supported, taken, sender>>

\* The device is down, or Close returned an error: nothing is opened.
NotUp ==
    /\ update.pc = "v4" /\ update.tries = 0
    /\ update' = NoUpdate
    /\ UNCHANGED <<sockets, supported, taken, conn, txOffload, port, sender>>

OpenFails ==
    /\ update' = NoUpdate
    /\ port' = 0

\* listenNet("udp4"): a family that is not supported is no error, but the port
\* that is asked for next is then the one listenNet returns with an error: 0.
OpenV4 ==
    /\ update.pc = "v4"
    /\ \/ \E p \in Bindable("v4", update.port) :
             /\ sockets' = WithSocket("v4", p)
             /\ update' = [update EXCEPT !.pc = "v6", !.v4conn = NewSocket, !.port = p]
             /\ UNCHANGED port
       \/ /\ "v4" \notin supported
          /\ update' = [update EXCEPT !.pc = "v6", !.v4conn = Nil, !.port = 0]
          /\ UNCHANGED <<sockets, port>>
       \/ /\ "v4" \in supported /\ Bindable("v4", update.port) = {}
          /\ OpenFails
          /\ UNCHANGED sockets
    /\ UNCHANGED <<supported, taken, conn, txOffload, sender>>

\* mutant: the socket of the attempt that failed stays open
LeaveV4Open == sockets

CloseV4 == Without({update.v4conn})

\* Both sockets go into the bind with what the kernel can do for each; the
\* port that is reported is the one listenNet returned last.
InstallSockets(v4conn, v6conn, p) ==
    /\ conn' = [v4 |-> v4conn, v6 |-> v6conn]
    /\ \E can \in [Family -> BOOLEAN] :
          txOffload' = [f \in Family |-> can[f] /\ conn'[f] # Nil]
    /\ port' = p
    /\ update' = [NoUpdate EXCEPT !.pc = "opened"]

\* mutant: the second family listens where it likes
AnyPort == 0

\* listenNet("udp6") asks for the port of the first.
SamePort == update.port

\* On an error v4conn is closed, even if it is nil because the family is not
\* supported: the process panics.
OpenV6 ==
    /\ update.pc = "v6"
    /\ \/ \E p \in Bindable("v6", SamePort) :
             /\ sockets' = WithSocket("v6", p)
             /\ InstallSockets(update.v4conn, NewSocket, p)
       \/ /\ "v6" \notin supported /\ update.v4conn # Nil
          /\ InstallSockets(update.v4conn, Nil, 0)
          /\ UNCHANGED sockets
       \/ /\ "v6" \notin supported /\ update.v4conn = Nil
          /\ OpenFails
          /\ UNCHANGED <<sockets, conn, txOffload>>
       \/ /\ "v6" \in supported /\ Bindable("v6", SamePort) = {}
          /\ sockets' = CloseV4
          /\ UNCHANGED <<conn, txOffload>>
          /\ IF update.v4conn = Nil
             THEN update' = [update EXCEPT !.pc = "panic"] /\ UNCHANGED port
             ELSE IF update.uport = 0 /\ update.tries < MaxTries
             THEN /\ update' = [update EXCEPT !.pc = "v4", !.port = 0, !.v4conn = Nil, !.tries = @ + 1]
                  /\ UNCHANGED port
             ELSE OpenFails
    /\ UNCHANGED <<supported, taken, sender>>

\* After Open: BindUpdate returns without an error, or with the one of SetMark,
\* which leaves the sockets in the bind; nobody receives from them then.
OpenDone ==
    /\ update.pc = "opened"
    /\ update' = NoUpdate
    /\ UNCHANGED <<sockets, supported, taken, conn, txOffload, port, sender>>

\* startRouteListener fails: the bind is closed again.
RouteListenerFails ==
    /\ update.pc = "opened"
    /\ sockets' = Without({conn[f] : f \in Family})
    /\ conn' = Closed
    /\ txOffload' = [f \in Family |-> FALSE]
    /\ OpenFails
    /\ UNCHANGED <<supported, taken, sender>>

-----------------------------------------------------------------------------
(* Send *)

\* Nobody holds mu, which Open keeps until it returns, nor, for a sender that
\* needs net.RLock, net.Lock.
MayLock(s) == update.pc = "idle" \/ (update.pc = "opened" /\ s \notin Locked)

\* Under mu the socket and the flag are read; the socket may be missing.
BeginSend(s, f, bufs) ==
    /\ ~Sending(s)
    /\ s \notin Locked => Len(bufs) = 1
    /\ MayLock(s)
    /\ conn[f] # Nil
    /\ sender' = [sender EXCEPT ![s] =
          [NoSend EXCEPT !.pc = "write", !.family = f, !.conn = conn[f], !.offload = txOffload[f],
             !.bufs = bufs,
             !.msgs = IF txOffload[f] THEN coalesceMessages(bufs) ELSE singleMessages(bufs)]]
    /\ UNCHANGED <<sockets, supported, taken, conn, txOffload, port, update>>

\* WriteBatch takes some of the messages; send goes on with the rest.
Write(s) ==
    /\ sender[s].pc = "write" /\ IsOpen(sender[s].conn)
    /\ \E n \in 1 .. Len(sender[s].msgs) :
          sender' = [sender EXCEPT
              ![s].wire = @ \o AllSegments(SubSeq(sender[s].msgs, 1, n)),
              ![s].msgs = SubSeq(@, n + 1, Len(@)),
              ![s].pc = IF n = Len(sender[s].msgs) THEN "done" ELSE @]
    /\ UNCHANGED <<sockets, supported, taken, conn, txOffload, port, update>>

\* The next message is refused: EIO or EINVAL, or another error, or the socket is closed.
WriteFails(s) ==
    /\ sender[s].pc = "write"
    /\ \/ /\ IsOpen(sender[s].conn) /\ sender[s].offload
          /\ sender' = [sender EXCEPT ![s].pc = "disable"]
       \/ sender' = [sender EXCEPT ![s].pc = "done", ![s].err = TRUE]
    /\ UNCHANGED <<sockets, supported, taken, conn, txOffload, port, update>>

\* The whole batch, without coalescing: the kernel does not say how far it got.
RetryAll(s) == singleMessages(sender[s].bufs)

\* The flag of the family is cleared under mu, whichever socket it has by now.
DisableOffload(s) ==
    /\ sender[s].pc = "disable"
    /\ MayLock(s)
    /\ txOffload' = [txOffload EXCEPT ![sender[s].family] = FALSE]
    /\ sender' = [sender EXCEPT ![s].pc = "write", ![s].offload = FALSE, ![s].retried = TRUE,
                                ![s].msgs = RetryAll(s)]
    /\ UNCHANGED <<sockets, supported, taken, conn, port, update>>

EndSend(s) ==
    /\ sender[s].pc = "done"
    /\ sender' = [sender EXCEPT ![s] = NoSend]
    /\ UNCHANGED <<sockets, supported, taken, conn, txOffload, port, update>>

-----------------------------------------------------------------------------
(* Receive *)

\* mutant: the messages are read into the front of the batch
ReadIntoFront(msgs) ==
    [i \in 1 .. BatchSize |-> IF i <= Len(msgs) THEN msgs[i] ELSE EmptyMessage]

\* ReadBatch reads into the last messages of the batch; putMessages has left
\* the others empty.
ReadBatch(msgs) ==
    [i \in 1 .. BatchSize |->
        IF i >= readAt /\ i - readAt < Len(msgs) THEN msgs[i - readAt + 1] ELSE EmptyMessage]

\* What receiveIP makes of the messages it reads; without receive offload they
\* are the datagrams.  It keeps no state.
receiveIP(msgs, rxOffload) ==
    LET split == splitCoalescedMessages(ReadBatch(msgs))
    IN IF rxOffload THEN [got |-> [i \in 1 .. split.n |-> split.msgs[i].buf], err |-> split.err]
                    ELSE [got |-> [i \in DOMAIN msgs |-> msgs[i].buf], err |-> FALSE]

-----------------------------------------------------------------------------

Next ==
    \/ \E p \in Port \cup {port} : Close(p)
    \/ NotUp \/ OpenV4 \/ OpenV6 \/ OpenDone \/ RouteListenerFails
    \/ \E f \in Family, p \in Port : OtherTakesPort(f, p)
    \/ \E s \in Sender : \/ Write(s) \/ WriteFails(s) \/ DisableOffload(s) \/ EndSend(s)
                         \/ \E f \in Family, bufs \in Batches : BeginSend(s, f, bufs)

Spec == Init /\ [][Next]_vars

-----------------------------------------------------------------------------
(* Properties. *)

Send == [pc : {"idle", "write", "disable", "done"}, family : Family, conn : Socket \cup {Nil},
         offload : BOOLEAN, bufs : Batches \cup {<<>>}, msgs : Seq([buf : Seq(Int \X Int), gso : Nat]),
         retried : BOOLEAN, err : BOOLEAN, wire : Seq(Seq(Int \X Int))]

\* Every variable keeps its type, and the bind only has sockets of the process.
TypeOK ==
    /\ DOMAIN sockets \subseteq Socket
    /\ \A s \in DOMAIN sockets : sockets[s] \in [family : Family, port : Port]
    /\ conn \in [Family -> DOMAIN sockets \cup {Nil}]
    /\ txOffload \in [Family -> BOOLEAN]
    /\ port \in Port \cup {0}
    /\ update \in [pc : {"idle", "v4", "v6", "opened", "panic"}, uport : Port \cup {0}, v4conn : Socket \cup {Nil},
                   port : Port \cup {0}, tries : 0 .. MaxTries]
    /\ DOMAIN sender = Sender
    /\ \A s \in Sender : sender[s] \in Send

\* Open leaves no socket behind, however often it has to try again and
\* wherever it fails: every socket is in the bind or in the attempt under way.
NoSocketLeak ==
    DOMAIN sockets = ({conn[f] : f \in Family} \cup {update.v4conn}) \ {Nil}

\* The two sockets of a bind are on one port, the one the device keeps for the
\* next Open, whatever ports were in use when Open tried.
OnePort ==
    (\A f \in Family : conn[f] # Nil) => \A f \in Family : sockets[conn[f]].port = port

\* conn/conn.go: Open "reports the actual port that it bound to".
OpenReportsPort ==
    update.pc = "idle" => \A f \in Family : conn[f] # Nil => sockets[conn[f]].port = port

\* conn/conn.go: Open returns an error when it cannot listen; it does not panic.
OpenReturns == update.pc # "panic"

\* A peer's packets are not written to a socket that BindUpdate has closed:
\* SendBuffers holds net.RLock from the choice of the socket to the last write.
PeersSendOnOpenSocket ==
    \A s \in Locked : sender[s].pc \in {"write", "disable"} => IsOpen(sender[s].conn)

\* Every datagram of the batches has bytes: coalesceMessages loses an empty one
\* in the message before it.  A packet that SendBuffers sends has at least a
\* header.
NoEmptyDatagram(batches) ==
    \A bufs \in batches :
        bufs \in Seq(Seq(Int \X Int)) /\ \A i \in DOMAIN bufs : bufs[i] # <<>>

\* A Send that reports no error has put every datagram of its batch on the
\* wire whole and in order, once; after a fallback from segmentation in the
\* middle of the batch, a first part of it goes out twice, and nothing else.
BatchArrives ==
    \A s \in Sender : sender[s].pc = "done" /\ ~sender[s].err =>
        LET w == sender[s].wire
            b == sender[s].bufs
            extra == Len(w) - Len(b)
        IN /\ extra \in 0 .. Len(b)
           /\ SubSeq(w, extra + 1, Len(w)) = b
           /\ SubSeq(w, 1, extra) = SubSeq(b, 1, extra)
           /\ extra > 0 => sender[s].retried

\* The first n messages are the ones before the first empty datagram.
BeforeEmpty(ms, n) ==
    /\ n \in 0 .. Len(ms)
    /\ \A i \in 1 .. n : ms[i].buf # <<>>
    /\ n < Len(ms) => ms[n + 1].buf = <<>>

\* What a read may return and receiveIP does not give back datagram by datagram:
\* up to the first empty one with receive offload, and all of it without.
Misread ==
    {ms \in Incoming :
        \/ \E n \in 0 .. Len(ms) :
              /\ BeforeEmpty(ms, n)
              /\ receiveIP(ms, TRUE) # [got |-> AllSegments(SubSeq(ms, 1, n)), err |-> FALSE]
        \/ /\ \A i \in DOMAIN ms : ms[i].gso = 0
           /\ receiveIP(ms, FALSE) # [got |-> AllSegments(ms), err |-> FALSE]}

\* Of whatever arrives at an open socket splitCoalescedMessages gives back the
\* datagrams up to the first empty one, whole and in order, and never runs out
\* of room, because the messages are read into the last places of the batch.
\* Messages that were read behind an empty datagram are lost.
SplitGivesBack == (\E f \in Family : conn[f] # Nil) => Misread = {}

\* A read loses no datagram, whatever arrives with it.
EveryDatagramRead ==
    (\E f \in Family : conn[f] # Nil) =>
        \A ms \in Incoming : receiveIP(ms, TRUE).got = AllSegments(ms)
===============================================================================
