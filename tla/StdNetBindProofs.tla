--------------------------- MODULE StdNetBindProofs ---------------------------
(***************************************************************************)
(* The sockets of the UDP bind and the batches it carries, for any set of  *)
(* senders, ports, systems and batches, any size of a batch and any number *)
(* of attempts.                                                            *)
(*                                                                         *)
(* The invariant of the sockets says what BindUpdate holds at each of its  *)
(* steps: while it runs the bind is empty, and the only open socket is the *)
(* one of the first family, on the port that the second is asked for;      *)
(* goroutines that hold net.RLock keep it out, so their sockets are the    *)
(* ones of the bind.                                                       *)
(*                                                                         *)
(* The invariant of the batches says that the wire and the messages still  *)
(* to be written are together the batch, after a first part of it if       *)
(* segmentation was refused on the way.  It rests on what the three loops  *)
(* of the bind do to a batch of any length: coalesceMessages puts together *)
(* datagrams the kernel takes apart again, and splitCoalescedMessages,     *)
(* which copies the pieces to the front of the batch it reads from, never  *)
(* overwrites a message it has not read.  A loop is a fold of the library; *)
(* the fold is shown to be its rounds, one after another, and the rounds   *)
(* are taken by induction over the numbers that have a property.           *)
(***************************************************************************)
EXTENDS StdNetBind, FiniteSetTheorems, SequenceTheorems, TLAPS

Update == [pc : {"idle", "v4", "v6", "opened", "panic"}, uport : Port \cup {0}, v4conn : Socket \cup {Nil},
           port : Port \cup {0}, tries : Int]

SendFields == {"pc", "family", "conn", "offload", "bufs", "msgs", "retried", "err", "wire"}
IsSend(r) == r = [x \in SendFields |-> r[x]]

BindTypes ==
    /\ sockets = [s \in DOMAIN sockets |-> sockets[s]] /\ DOMAIN sockets \subseteq Socket
    /\ \A s \in DOMAIN sockets : sockets[s] \in [family : Family, port : Port]
    /\ conn \in [Family -> Socket \cup {Nil}]
    /\ port \in Port \cup {0}
    /\ update \in Update

SenderTypes ==
    /\ sender = [s \in Sender |-> sender[s]]
    /\ \A s \in Sender : IsSend(sender[s]) /\ sender[s].conn \in Socket \cup {Nil}

\* Where BindUpdate is, and what is open there.
Opening ==
    /\ update.pc \notin {"idle", "opened"} => conn = Closed
    /\ update.pc # "v6" => update.v4conn = Nil
    /\ update.v4conn # Nil => sockets[update.v4conn].port = update.port

\* net.RLock: the socket of a peer's Send is the one of the bind.
LockedSends ==
    \A s \in Locked : Sending(s) =>
        /\ update.pc = "idle"
        /\ sender[s].conn # Nil /\ \E f \in Family : sender[s].conn = conn[f]

Inv == BindTypes /\ SenderTypes /\ NoSocketLeak /\ Opening /\ OnePort /\ LockedSends

-----------------------------------------------------------------------------
(* Operators *)

\* Names of sockets are enough and none of them is Nil.
LEMMA SocketFacts ==
    /\ Nil \notin Socket /\ Family = {"v4", "v6"} /\ 0 \notin Port
    /\ Cardinality(Sender) \in Nat /\ Cardinality(Socket) = 3 + Cardinality(Sender)
    /\ IsFiniteSet(Socket)
<1>1. Cardinality(Sender) \in Nat
  BY BindAssumption, FS_CardinalityType
<1>2. IsFiniteSet(Socket) /\ Cardinality(Socket) = 3 + Cardinality(Sender)
  BY <1>1, FS_Interval DEF Socket
<1> QED BY <1>1, <1>2, BindAssumption DEF Socket, Nil, Family

\* When BindUpdate does not run.
LEMMA NoUpdateFacts ==
    /\ NoUpdate \in Update /\ NoUpdate.pc = "idle" /\ NoUpdate.v4conn = Nil
BY BindAssumption DEF NoUpdate, Update

\* When a sender does not send.
LEMMA NoSendFacts == IsSend(NoSend) /\ NoSend.pc = "idle" /\ NoSend.conn = Nil
<1>1. DOMAIN NoSend = SendFields
  BY DEF NoSend, SendFields
<1>2. NoSend = [x \in SendFields |-> NoSend[x]]
  BY <1>1 DEF NoSend
<1> QED BY <1>2 DEF NoSend, IsSend

\* While BindUpdate opens sockets there is a name for one more.
LEMMA NewSocketExists ==
    ASSUME BindTypes, SenderTypes, DOMAIN sockets \subseteq {update.v4conn}
    PROVE  NewSocket \in Socket \ DOMAIN sockets
<1> DEFINE f == [t \in Sender |-> sender[t].conn]
           used == {f[t] : t \in Sender}
           all == used \cup {update.v4conn}
<1>1. f \in Surjection(Sender, used)
  BY DEF Surjection
<1>2. used = {sender[t].conn : t \in Sender}
  OBVIOUS
<1> HIDE DEF f
<1>3. IsFiniteSet(used) /\ Cardinality(used) <= Cardinality(Sender) /\ Cardinality(used) \in Nat
  BY <1>1, BindAssumption, FS_Surjection, FS_CardinalityType
<1> HIDE DEF used
<1>4. IsFiniteSet(all) /\ Cardinality(all) <= Cardinality(used) + 1 /\ Cardinality(all) \in Nat
  BY <1>3, FS_AddElement, FS_CardinalityType
<1>5. ~(Socket \subseteq all)
  <2> SUFFICES ASSUME Socket \subseteq all PROVE FALSE
    OBVIOUS
  <2>1. Cardinality(Socket) <= Cardinality(all)
    BY <1>4, FS_Subset
  <2> QED BY <1>3, <1>4, <2>1, SocketFacts
<1>6. \E s \in Socket : s \notin DOMAIN sockets \cup {sender[t].conn : t \in Sender}
  BY <1>2, <1>5
<1> QED BY <1>6 DEF NewSocket

\* A socket gets a port, and the one it asks for if it asks for one.
LEMMA BindablePorts ==
    ASSUME BindTypes, NEW f \in Family, NEW q \in Port \cup {0}, NEW p \in Bindable(f, q)
    PROVE  p \in Port /\ (q # 0 => p = q)
BY DEF Bindable

-----------------------------------------------------------------------------
(* Steps of BindUpdate *)

\* Close leaves nothing open.
LEMMA CloseStep ==
    ASSUME Inv, NEW p \in Port \cup {port}, Close(p)
    PROVE  Inv'
<1> DEFINE u == [NoUpdate EXCEPT !.pc = "v4", !.uport = p, !.port = p]
<1>1. /\ update.pc = "idle" /\ \A s \in Locked : ~Sending(s)
      /\ sockets' = Without({conn[f] : f \in Family}) /\ conn' = Closed /\ port' = p
      /\ update' = u /\ sender' = sender
  BY DEF Close, NetFree
<1>2. p \in Port \cup {0}
  BY DEF Inv, BindTypes
<1>3. u \in Update /\ u.pc = "v4" /\ u.v4conn = Nil
  BY <1>2, NoUpdateFacts DEF Update, NoUpdate
<1> HIDE DEF u
<1>4. DOMAIN sockets \subseteq {conn[f] : f \in Family}
  BY <1>1 DEF Inv, NoSocketLeak, Opening
<1>5. DOMAIN sockets' = {} /\ sockets' = [s \in DOMAIN sockets' |-> sockets'[s]]
  BY <1>1, <1>4 DEF Without
<1>6. conn' \in [Family -> Socket \cup {Nil}] /\ \A f \in Family : conn'[f] = Nil
  BY <1>1 DEF Closed
<1>7. BindTypes'
  BY <1>1, <1>2, <1>3, <1>5, <1>6 DEF BindTypes
<1>8. NoSocketLeak'
  BY <1>1, <1>3, <1>5, <1>6 DEF NoSocketLeak
<1>9. SenderTypes' /\ LockedSends'
  BY <1>1 DEF Inv, SenderTypes, LockedSends, Sending
<1>10. Opening' /\ OnePort'
  BY <1>1, <1>3, <1>6, SocketFacts DEF Opening, OnePort
<1> QED BY <1>7, <1>8, <1>9, <1>10 DEF Inv

\* Nothing is sent by a peer while BindUpdate runs.
LEMMA Quiet ==
    ASSUME Inv, update.pc # "idle", UNCHANGED sender
    PROVE  LockedSends' /\ SenderTypes'
BY DEF Inv, LockedSends, SenderTypes, Sending

\* An Open that ends without a socket in the bind.
LEMMA GivenUp ==
    ASSUME Inv, update.pc # "idle", DOMAIN sockets' = {}, sockets' = [s \in DOMAIN sockets' |-> sockets'[s]],
           conn' = Closed, UNCHANGED sender, port' \in Port \cup {0}, update' \in Update,
           update'.v4conn = Nil
    PROVE  Inv'
<1>1. /\ \A f \in Family : conn'[f] = Nil
      /\ conn' \in [Family -> Socket \cup {Nil}]
  BY DEF Closed
<1>2. BindTypes'
  BY <1>1 DEF Inv, BindTypes
<1>3. NoSocketLeak' /\ Opening' /\ OnePort'
  BY <1>1, SocketFacts DEF NoSocketLeak, Opening, OnePort
<1> QED BY <1>2, <1>3, Quiet DEF Inv

\* The device is down.
LEMMA NotUpStep ==
    ASSUME Inv, NotUp
    PROVE  Inv'
<1>1. update.pc = "v4" /\ update' = NoUpdate /\ UNCHANGED <<sockets, conn, port, sender>>
  BY DEF NotUp
<1>3. conn' = Closed
  BY <1>1 DEF Inv, Opening
<1>2. DOMAIN sockets = {}
  BY <1>1 DEF Inv, NoSocketLeak, Opening, Closed
<1> QED BY <1>1, <1>2, <1>3, NoUpdateFacts, GivenUp DEF Inv, BindTypes

\* The routine that listens for routes does not start.
LEMMA RouteListenerFailsStep ==
    ASSUME Inv, RouteListenerFails
    PROVE  Inv'
<1>1. /\ update.pc = "opened" /\ update' = NoUpdate /\ port' = 0 /\ conn' = Closed
      /\ sockets' = Without({conn[f] : f \in Family}) /\ UNCHANGED sender
  BY DEF RouteListenerFails, OpenFails
<1>2. DOMAIN sockets \subseteq {conn[f] : f \in Family}
  BY <1>1 DEF Inv, NoSocketLeak, Opening
<1>3. DOMAIN sockets' = {} /\ sockets' = [s \in DOMAIN sockets' |-> sockets'[s]]
  BY <1>1, <1>2 DEF Without
<1> QED BY <1>1, <1>3, NoUpdateFacts, GivenUp

\* BindUpdate returns.
LEMMA OpenDoneStep ==
    ASSUME Inv, OpenDone
    PROVE  Inv'
<1>1. update.pc = "opened" /\ update' = NoUpdate /\ UNCHANGED <<sockets, conn, port, sender>>
  BY DEF OpenDone
<1>2. BindTypes'
  BY <1>1, NoUpdateFacts DEF Inv, BindTypes
<1>3. NoSocketLeak' /\ Opening' /\ OnePort'
  BY <1>1, NoUpdateFacts DEF Inv, NoSocketLeak, Opening, OnePort
<1> QED BY <1>1, <1>2, <1>3, Quiet DEF Inv

\* The first family.
LEMMA OpenV4Step ==
    ASSUME Inv, OpenV4
    PROVE  Inv'
<1>1. update.pc = "v4" /\ UNCHANGED <<conn, sender>> /\ update.v4conn = Nil /\ conn = Closed
  BY DEF OpenV4, Inv, Opening
<1>2. DOMAIN sockets = {} /\ \A f \in Family : conn[f] = Nil
  BY <1>1 DEF Inv, NoSocketLeak, Closed
<1>3. update \in Update /\ port \in Port \cup {0} /\ update.port \in Port \cup {0}
  BY DEF Inv, BindTypes, Update
<1>4. ASSUME NEW p \in Bindable("v4", update.port), sockets' = WithSocket("v4", p),
             update' = [update EXCEPT !.pc = "v6", !.v4conn = NewSocket, !.port = p],
             UNCHANGED port
      PROVE  Inv'
  <2>1. p \in Port
    BY <1>3, BindablePorts DEF Family, Inv
  <2>2. NewSocket \in Socket \ DOMAIN sockets
    BY <1>2, NewSocketExists DEF Inv
  <2>3. /\ update' \in Update /\ update'.pc = "v6" /\ update'.v4conn = NewSocket
        /\ update'.port = p
    BY <1>3, <1>4, <2>1, <2>2 DEF Update
  <2>4. /\ sockets' = [s \in DOMAIN sockets' |-> sockets'[s]] /\ DOMAIN sockets' = {NewSocket}
        /\ \A s \in DOMAIN sockets' : sockets'[s] \in [family : Family, port : Port]
        /\ sockets'[NewSocket].port = p
    BY <1>2, <1>4, <2>1, <2>2, SocketFacts DEF WithSocket
  <2> DEFINE n == NewSocket
  <2>5. n \in Socket /\ n # Nil
    BY <2>2, SocketFacts
  <2>6. BindTypes'
    BY <1>1, <1>4, <2>3, <2>4, <2>5 DEF Inv, BindTypes
  <2>7. NoSocketLeak'
    BY <1>1, <1>2, <2>3, <2>4, <2>5, SocketFacts DEF NoSocketLeak
  <2>8. Opening' /\ OnePort'
    <3>1. conn' = Closed /\ \A f \in Family : conn'[f] = Nil
      BY <1>1, <1>2
    <3> QED BY <2>3, <2>4, <2>5, <3>1, SocketFacts DEF Opening, OnePort
  <2> QED BY <1>1, <2>6, <2>7, <2>8, Quiet DEF Inv
<1>5. CASE /\ update' = [update EXCEPT !.pc = "v6", !.v4conn = Nil, !.port = 0]
           /\ UNCHANGED <<sockets, port>>
  <2>1. update' \in Update /\ update'.v4conn = Nil
    BY <1>3, <1>5 DEF Update
  <2> QED BY <1>1, <1>2, <1>3, <1>5, <2>1, GivenUp DEF Inv, BindTypes
<1>6. CASE OpenFails /\ UNCHANGED sockets
  BY <1>1, <1>2, <1>6, NoUpdateFacts, GivenUp DEF OpenFails, Inv, BindTypes
<1> QED BY <1>4, <1>5, <1>6 DEF OpenV4

\* What Open leaves behind.
Opened == [NoUpdate EXCEPT !.pc = "opened"]

LEMMA OpenedFacts == Opened \in Update /\ Opened.pc = "opened" /\ Opened.v4conn = Nil
BY NoUpdateFacts DEF Opened, NoUpdate, Update

\* The second family.
LEMMA OpenV6Step ==
    ASSUME Inv, OpenV6
    PROVE  Inv'
<1>1. update.pc = "v6" /\ sender' = sender /\ conn = Closed
  BY DEF OpenV6, Inv, Opening
<1>2. DOMAIN sockets = {update.v4conn} \ {Nil} /\ \A f \in Family : conn[f] = Nil
  BY <1>1, SocketFacts DEF Inv, NoSocketLeak, Closed
<1>3. /\ update \in Update /\ port \in Port \cup {0} /\ update.port \in Port \cup {0}
      /\ update.v4conn \in Socket \cup {Nil}
  BY DEF Inv, BindTypes, Update
<1>4. update.v4conn # Nil => update.port \in Port /\ sockets[update.v4conn].port = update.port
  BY <1>2 DEF Inv, Opening, BindTypes
<1>5. ASSUME NEW p \in Bindable("v6", SamePort), sockets' = WithSocket("v6", p),
             InstallSockets(update.v4conn, NewSocket, p)
      PROVE  Inv'
  <2>1. p \in Port /\ (update.port # 0 => p = update.port)
    BY <1>3, BindablePorts DEF Family, SamePort, Inv
  <2> DEFINE n == NewSocket
  <2>2. n \in Socket \ DOMAIN sockets /\ n # Nil
    BY <1>2, NewSocketExists, SocketFacts DEF Inv
  <2>3. /\ sockets' = [s \in DOMAIN sockets' |-> sockets'[s]]
        /\ DOMAIN sockets' = DOMAIN sockets \cup {n} /\ DOMAIN sockets' \subseteq Socket
        /\ \A s \in DOMAIN sockets' : sockets'[s] \in [family : Family, port : Port]
        /\ sockets'[n].port = p /\ \A s \in DOMAIN sockets : sockets'[s] = sockets[s]
    BY <1>5, <2>1, <2>2, SocketFacts DEF WithSocket, Inv, BindTypes
  <2> HIDE DEF n
  <2>4. /\ conn' = [v4 |-> update.v4conn, v6 |-> n] /\ port' = p /\ update' = Opened
    BY <1>5 DEF InstallSockets, n, Opened
  <2>5. /\ conn' \in [Family -> Socket \cup {Nil}]
        /\ conn'["v4"] = update.v4conn /\ conn'["v6"] = n
    BY <1>3, <2>2, <2>4, SocketFacts
  <2>6. BindTypes'
    BY <2>1, <2>3, <2>4, <2>5, OpenedFacts DEF BindTypes
  <2>7. NoSocketLeak'
    BY <1>2, <2>2, <2>3, <2>4, <2>5, OpenedFacts, SocketFacts DEF NoSocketLeak
  <2>8. Opening'
    BY <2>4, OpenedFacts DEF Opening
  <2>9. OnePort'
    <3> SUFFICES ASSUME \A f \in Family : conn'[f] # Nil, NEW f \in Family
                 PROVE  sockets'[conn'[f]].port = p
      BY <2>4 DEF OnePort
    <3>1. update.v4conn # Nil
      BY <2>5, SocketFacts
    <3>2. sockets'[update.v4conn].port = p
      BY <1>2, <1>4, <2>1, <2>3, <3>1, SocketFacts
    <3> QED BY <2>3, <2>5, <3>2, SocketFacts
  <2> QED BY <1>1, <2>6, <2>7, <2>8, <2>9, Quiet DEF Inv
<1>6. CASE update.v4conn # Nil /\ InstallSockets(update.v4conn, Nil, 0) /\ UNCHANGED sockets
  <2>1. /\ conn' = [v4 |-> update.v4conn, v6 |-> Nil] /\ port' = 0 /\ update' = Opened
    BY <1>6 DEF InstallSockets, Opened
  <2>2. /\ conn' \in [Family -> Socket \cup {Nil}]
        /\ conn'["v4"] = update.v4conn /\ conn'["v6"] = Nil
    BY <1>3, <2>1, SocketFacts
  <2>3. BindTypes'
    BY <1>6, <2>1, <2>2, OpenedFacts DEF Inv, BindTypes
  <2>4. NoSocketLeak'
    BY <1>2, <1>6, <2>1, <2>2, OpenedFacts, SocketFacts DEF NoSocketLeak
  <2>5. Opening' /\ OnePort'
    BY <2>1, <2>2, OpenedFacts, SocketFacts DEF Opening, OnePort
  <2> QED BY <1>1, <2>3, <2>4, <2>5, Quiet DEF Inv
<1>7. CASE update.v4conn = Nil /\ OpenFails /\ UNCHANGED <<sockets, conn, txOffload>>
  BY <1>1, <1>2, <1>7, NoUpdateFacts, GivenUp DEF OpenFails, Inv, BindTypes
<1>8. CASE /\ sockets' = CloseV4 /\ UNCHANGED <<conn, txOffload>>
           /\ IF update.v4conn = Nil
              THEN update' = [update EXCEPT !.pc = "panic"] /\ UNCHANGED port
              ELSE IF update.uport = 0 /\ update.tries < MaxTries
              THEN /\ update' = [update EXCEPT !.pc = "v4", !.port = 0, !.v4conn = Nil, !.tries = @ + 1]
                   /\ UNCHANGED port
              ELSE OpenFails
  <2>1. DOMAIN sockets' = {} /\ sockets' = [s \in DOMAIN sockets' |-> sockets'[s]]
    BY <1>2, <1>8 DEF CloseV4, Without
  <2>2. update' \in Update /\ update'.v4conn = Nil /\ port' \in Port \cup {0}
    <3>1. CASE update.v4conn = Nil
      BY <1>3, <1>8, <3>1 DEF Update
    <3>2. CASE update' = [update EXCEPT !.pc = "v4", !.port = 0, !.v4conn = Nil, !.tries = @ + 1]
               /\ UNCHANGED port
      <4>1. update.tries + 1 \in Int
        BY <1>3 DEF Update
      <4> QED BY <1>3, <3>2, <4>1 DEF Update
    <3>3. CASE OpenFails
      BY <3>3, NoUpdateFacts DEF OpenFails
    <3> QED BY <1>8, <3>1, <3>2, <3>3
  <2> QED BY <1>1, <1>8, <2>1, <2>2, GivenUp
<1> QED BY <1>5, <1>6, <1>7, <1>8 DEF OpenV6

-----------------------------------------------------------------------------
(* Steps of senders and of other processes *)

\* What a sender does to its own variables, once it has its socket.
LEMMA SenderStep ==
    ASSUME Inv, UNCHANGED <<sockets, conn, port, update>>, NEW s \in Sender,
           NEW r, IsSend(r), r.conn \in Socket \cup {Nil}, sender' = [sender EXCEPT ![s] = r],
           s \in Locked /\ r.pc # "idle" =>
             update.pc = "idle" /\ r.conn # Nil /\ \E f \in Family : r.conn = conn[f]
    PROVE  Inv'
<1>1. BindTypes' /\ NoSocketLeak' /\ Opening' /\ OnePort'
  BY DEF Inv, BindTypes, NoSocketLeak, Opening, OnePort
<1>2. \A t \in Sender : sender'[t] = IF t = s THEN r ELSE sender[t]
  BY DEF Inv, SenderTypes
<1>3. SenderTypes'
  BY <1>2 DEF Inv, SenderTypes
<1>4. LockedSends'
  BY <1>2, BindAssumption DEF Inv, LockedSends, Sending
<1> QED BY <1>1, <1>3, <1>4 DEF Inv

\* A sender that goes on with its socket.
LEMMA SenderGoesOn ==
    ASSUME Inv, UNCHANGED <<sockets, conn, port, update>>, NEW s \in Sender, Sending(s),
           NEW r, IsSend(r), r.conn = sender[s].conn, sender' = [sender EXCEPT ![s] = r]
    PROVE  Inv'
BY SenderStep DEF Inv, SenderTypes, LockedSends, Sending

\* One field of the variables of a Send is set.
WithField(r, x, v) == [r EXCEPT ![x] = v]

\* It is the only one that changes.
LEMMA FieldSet ==
    ASSUME NEW r, IsSend(r), NEW x \in SendFields, NEW v
    PROVE  /\ IsSend(WithField(r, x, v)) /\ WithField(r, x, v)[x] = v
           /\ \A y \in SendFields \ {x} : WithField(r, x, v)[y] = r[y]
<1>1. DOMAIN r = SendFields
  BY DEF SendFields, IsSend
<1>2. WithField(r, x, v) = [y \in SendFields |-> IF y = x THEN v ELSE r[y]]
  BY <1>1 DEF WithField
<1> QED BY <1>1, <1>2 DEF IsSend

\* The names of its fields.
LEMMA SendFieldNames ==
    /\ "pc" \in SendFields /\ "wire" \in SendFields /\ "msgs" \in SendFields /\ "err" \in SendFields
    /\ "offload" \in SendFields /\ "retried" \in SendFields
BY DEF SendFields

\* What Write makes of the sender's variables.
LEMMA Written ==
    ASSUME Inv, NEW s \in Sender, Write(s)
    PROVE  \E n \in 1 .. Len(sender[s].msgs) : \E r :
              /\ sender' = [sender EXCEPT ![s] = r] /\ IsSend(r) /\ r.conn = sender[s].conn
              /\ r.bufs = sender[s].bufs /\ r.retried = sender[s].retried
              /\ r.offload = sender[s].offload
              /\ r.wire = sender[s].wire \o AllSegments(SubSeq(sender[s].msgs, 1, n))
              /\ r.msgs = SubSeq(sender[s].msgs, n + 1, Len(sender[s].msgs))
              /\ r.pc = IF n = Len(sender[s].msgs) THEN "done" ELSE "write"
<1>1. PICK n \in 1 .. Len(sender[s].msgs) :
          sender' = [sender EXCEPT
              ![s].wire = @ \o AllSegments(SubSeq(sender[s].msgs, 1, n)),
              ![s].msgs = SubSeq(@, n + 1, Len(@)),
              ![s].pc = IF n = Len(sender[s].msgs) THEN "done" ELSE @]
  BY Zenon DEF Write
<1> DEFINE r0 == sender[s]
           wire == r0.wire \o AllSegments(SubSeq(r0.msgs, 1, n))
           r1 == WithField(r0, "wire", wire)
           rest == SubSeq(r1.msgs, n + 1, Len(r1.msgs))
           r2 == WithField(r1, "msgs", rest)
           pc == IF n = Len(r0.msgs) THEN "done" ELSE r2.pc
           r3 == WithField(r2, "pc", pc)
<1>2. IsSend(r0) /\ r0.pc = "write"
  BY DEF Write, Inv, SenderTypes, WithField
<1>3. sender' = [sender EXCEPT ![s] = r3]
  BY <1>1, ZenonT(60) DEF Inv, SenderTypes, WithField
<1>4. IsSend(r1) /\ r1["wire"] = wire /\ \A y \in SendFields \ {"wire"} : r1[y] = r0[y]
  <2>1. r1 = WithField(r0, "wire", wire)
    OBVIOUS
  <2> HIDE DEF r1, r0, wire
  <2>2. IsSend(r0)
    BY <1>2
  <2> QED BY ONLY <2>1, <2>2, SendFieldNames, FieldSet
<1>5. IsSend(r2) /\ r2["msgs"] = rest /\ \A y \in SendFields \ {"msgs"} : r2[y] = r1[y]
  <2>1. r2 = WithField(r1, "msgs", rest)
    OBVIOUS
  <2> HIDE DEF r2, r1, rest
  <2>2. IsSend(r1)
    BY <1>4
  <2> QED BY ONLY <2>1, <2>2, SendFieldNames, FieldSet
<1>6. IsSend(r3) /\ r3["pc"] = pc /\ \A y \in SendFields \ {"pc"} : r3[y] = r2[y]
  <2>1. r3 = WithField(r2, "pc", pc)
    OBVIOUS
  <2> HIDE DEF r3, r2, pc
  <2>2. IsSend(r2)
    BY <1>5
  <2> QED BY ONLY <2>1, <2>2, SendFieldNames, FieldSet
<1>7. rest = SubSeq(r0.msgs, n + 1, Len(r0.msgs)) /\ pc = IF n = Len(r0.msgs) THEN "done" ELSE "write"
  <2>1. r1.msgs = r0.msgs /\ r2.pc = "write"
    <3> HIDE DEF r0, r1, r2, wire, rest
    <3> QED BY <1>2, <1>4, <1>5 DEF SendFields
  <2> HIDE DEF r0, r1, r2
  <2> QED BY <2>1
<1>8. /\ r3.conn = r0.conn /\ r3.bufs = r0.bufs /\ r3.retried = r0.retried /\ r3.offload = r0.offload
      /\ r3.wire = wire /\ r3.msgs = rest /\ r3.pc = pc
  <2> HIDE DEF r0, r1, r2, r3, wire, rest, pc
  <2> QED BY <1>4, <1>5, <1>6 DEF SendFields
<1> HIDE DEF r1, r2, r3, rest, pc
<1> QED BY <1>3, <1>6, <1>7, <1>8

\* What WriteFails makes of them.
LEMMA Refused ==
    ASSUME Inv, NEW s \in Sender, WriteFails(s)
    PROVE  \E r : /\ sender' = [sender EXCEPT ![s] = r] /\ IsSend(r) /\ r.conn = sender[s].conn
                  /\ r.bufs = sender[s].bufs /\ r.retried = sender[s].retried
                  /\ r.offload = sender[s].offload /\ r.wire = sender[s].wire
                  /\ r.msgs = sender[s].msgs
                  /\ \/ r.pc = "disable" /\ sender[s].offload
                     \/ r.pc = "done" /\ r.err
<1> DEFINE r0 == sender[s]
<1>1. IsSend(r0)
  BY DEF Inv, SenderTypes, WithField
<1>2. CASE r0.offload /\ sender' = [sender EXCEPT ![s].pc = "disable"]
  <2> DEFINE r == WithField(r0, "pc", "disable")
  <2>1. sender' = [sender EXCEPT ![s] = r]
    BY <1>2 DEF Inv, SenderTypes, WithField
  <2>2. IsSend(r) /\ r["pc"] = "disable" /\ \A y \in SendFields \ {"pc"} : r[y] = r0[y]
    <3>1. r = WithField(r0, "pc", "disable")
      OBVIOUS
    <3> HIDE DEF r, r0
    <3>2. IsSend(r0)
      BY <1>1
    <3> QED BY ONLY <3>1, <3>2, SendFieldNames, FieldSet
  <2>3. /\ r.conn = r0.conn /\ r.bufs = r0.bufs /\ r.retried = r0.retried /\ r.offload = r0.offload
        /\ r.wire = r0.wire /\ r.msgs = r0.msgs
    <3> HIDE DEF r0, r
    <3> QED BY <2>2 DEF SendFields
  <2> HIDE DEF r
  <2> QED BY <1>2, <2>1, <2>2, <2>3
<1>3. CASE sender' = [sender EXCEPT ![s].pc = "done", ![s].err = TRUE]
  <2> DEFINE q == WithField(r0, "pc", "done")
             yes == TRUE
             r == WithField(q, "err", yes)
  <2>1. sender' = [sender EXCEPT ![s] = r]
    BY <1>3 DEF Inv, SenderTypes, WithField
  <2>2. IsSend(q) /\ q["pc"] = "done" /\ \A y \in SendFields \ {"pc"} : q[y] = r0[y]
    <3>1. q = WithField(r0, "pc", "done")
      OBVIOUS
    <3> HIDE DEF q, r0
    <3>2. IsSend(r0)
      BY <1>1
    <3> QED BY ONLY <3>1, <3>2, SendFieldNames, FieldSet
  <2>3. IsSend(r) /\ r["err"] = yes /\ \A y \in SendFields \ {"err"} : r[y] = q[y]
    <3>1. r = WithField(q, "err", yes)
      OBVIOUS
    <3> HIDE DEF r, q, yes
    <3>2. IsSend(q)
      BY <2>2
    <3> QED BY ONLY <3>1, <3>2, SendFieldNames, FieldSet
  <2>4. /\ r.conn = r0.conn /\ r.bufs = r0.bufs /\ r.retried = r0.retried /\ r.offload = r0.offload
        /\ r.wire = r0.wire /\ r.msgs = r0.msgs /\ r.pc = "done"
    <3> HIDE DEF r0, q, r
    <3> QED BY <2>2, <2>3 DEF SendFields
  <2> HIDE DEF q, r
  <2> QED BY <2>1, <2>3, <2>4
<1> QED BY <1>2, <1>3 DEF WriteFails

\* What DisableOffload makes of them.
LEMMA Restarted ==
    ASSUME Inv, NEW s \in Sender, DisableOffload(s)
    PROVE  \E r : /\ sender' = [sender EXCEPT ![s] = r] /\ IsSend(r) /\ r.conn = sender[s].conn
                  /\ r.bufs = sender[s].bufs /\ r.retried /\ ~r.offload
                  /\ r.wire = sender[s].wire /\ r.msgs = singleMessages(sender[s].bufs)
                  /\ r.pc = "write"
<1> DEFINE r0 == sender[s]
           msgs == singleMessages(r0.bufs)
           r1 == WithField(r0, "pc", "write")
           no == FALSE
           yes == TRUE
           r2 == WithField(r1, "offload", no)
           r3 == WithField(r2, "retried", yes)
           r4 == WithField(r3, "msgs", msgs)
<1>1. IsSend(r0)
  BY DEF Inv, SenderTypes, WithField
<1>2. sender' = [sender EXCEPT ![s] = r4]
  BY DEF DisableOffload, RetryAll, Inv, SenderTypes, WithField
<1>3. IsSend(r1) /\ r1["pc"] = "write" /\ \A y \in SendFields \ {"pc"} : r1[y] = r0[y]
  <2>1. r1 = WithField(r0, "pc", "write")
    OBVIOUS
  <2> HIDE DEF r1, r0
  <2>2. IsSend(r0)
    BY <1>1
  <2> QED BY ONLY <2>1, <2>2, SendFieldNames, FieldSet
<1>4. IsSend(r2) /\ r2["offload"] = no /\ \A y \in SendFields \ {"offload"} : r2[y] = r1[y]
  <2>1. r2 = WithField(r1, "offload", no)
    OBVIOUS
  <2> HIDE DEF r2, r1, no
  <2>2. IsSend(r1)
    BY <1>3
  <2> QED BY ONLY <2>1, <2>2, SendFieldNames, FieldSet
<1>5. IsSend(r3) /\ r3["retried"] = yes /\ \A y \in SendFields \ {"retried"} : r3[y] = r2[y]
  <2>1. r3 = WithField(r2, "retried", yes)
    OBVIOUS
  <2> HIDE DEF r3, r2, yes
  <2>2. IsSend(r2)
    BY <1>4
  <2> QED BY ONLY <2>1, <2>2, SendFieldNames, FieldSet
<1>6. IsSend(r4) /\ r4["msgs"] = msgs /\ \A y \in SendFields \ {"msgs"} : r4[y] = r3[y]
  <2>1. r4 = WithField(r3, "msgs", msgs)
    OBVIOUS
  <2> HIDE DEF r4, r3, msgs
  <2>2. IsSend(r3)
    BY <1>5
  <2> QED BY ONLY <2>1, <2>2, SendFieldNames, FieldSet
<1>7. /\ r4.conn = r0.conn /\ r4.bufs = r0.bufs /\ r4.wire = r0.wire /\ r4.msgs = msgs
      /\ r4.pc = "write" /\ r4.offload = FALSE /\ r4.retried = TRUE
  <2> HIDE DEF r0, r1, r2, r3, r4, msgs
  <2> QED BY <1>3, <1>4, <1>5, <1>6 DEF SendFields
<1> HIDE DEF r1, r2, r3, r4
<1> QED BY <1>2, <1>6, <1>7

\* What BeginSend makes of them.
LEMMA Begun ==
    ASSUME NEW s \in Sender, NEW f \in Family, NEW bufs, BeginSend(s, f, bufs)
    PROVE  \E r : /\ sender' = [sender EXCEPT ![s] = r] /\ IsSend(r) /\ r.conn = conn[f]
                  /\ r.bufs = bufs /\ r.wire = <<>> /\ r.pc = "write"
                  /\ r.msgs = coalesceMessages(bufs) \/ r.msgs = singleMessages(bufs)
<1> DEFINE r == [NoSend EXCEPT !.pc = "write", !.family = f, !.conn = conn[f],
                   !.offload = txOffload[f], !.bufs = bufs,
                   !.msgs = IF txOffload[f] THEN coalesceMessages(bufs) ELSE singleMessages(bufs)]
<1>1. sender' = [sender EXCEPT ![s] = r]
  BY DEF BeginSend
<1>2. IsSend(r)
  <2>1. DOMAIN NoSend = SendFields
    BY NoSendFacts DEF IsSend
  <2>2. DOMAIN r = SendFields
    BY <2>1
  <2>3. r = [x \in DOMAIN r |-> r[x]]
    BY DEF NoSend
  <2> QED BY <2>2, <2>3 DEF IsSend
<1>3. r.conn = conn[f] /\ r.pc = "write" /\ r.bufs = bufs /\ r.wire = <<>>
  BY DEF NoSend
<1>4. r.msgs = coalesceMessages(bufs) \/ r.msgs = singleMessages(bufs)
  BY DEF NoSend
<1> HIDE DEF r
<1> QED BY <1>1, <1>2, <1>3, <1>4

\* Each action of a sender leaves it with its socket, or gives it the one of
\* the bind.
LEMMA BeginSendStep ==
    ASSUME Inv, NEW s \in Sender, NEW f \in Family, NEW bufs, BeginSend(s, f, bufs)
    PROVE  Inv'
<1>1. PICK r : sender' = [sender EXCEPT ![s] = r] /\ IsSend(r) /\ r.conn = conn[f]
  BY Begun
<1>2. /\ update.pc = "idle" \/ s \notin Locked
      /\ conn[f] # Nil /\ UNCHANGED <<sockets, conn, port, update>>
  BY DEF BeginSend, MayLock
<1>3. conn[f] \in Socket \cup {Nil}
  BY DEF Inv, BindTypes
<1> QED BY <1>1, <1>2, <1>3, SenderStep

\* WriteBatch.
LEMMA WriteStep ==
    ASSUME Inv, NEW s \in Sender, Write(s)
    PROVE  Inv'
<1>1. PICK r : sender' = [sender EXCEPT ![s] = r] /\ IsSend(r) /\ r.conn = sender[s].conn
  BY Written
<1>2. Sending(s) /\ UNCHANGED <<sockets, conn, port, update>>
  BY DEF Write, Sending
<1> QED BY <1>1, <1>2, SenderGoesOn

\* An error of WriteBatch.
LEMMA WriteFailsStep ==
    ASSUME Inv, NEW s \in Sender, WriteFails(s)
    PROVE  Inv'
<1>1. PICK r : sender' = [sender EXCEPT ![s] = r] /\ IsSend(r) /\ r.conn = sender[s].conn
  BY Refused
<1>2. Sending(s) /\ UNCHANGED <<sockets, conn, port, update>>
  BY DEF WriteFails, Sending
<1> QED BY <1>1, <1>2, SenderGoesOn

\* The fallback.
LEMMA DisableOffloadStep ==
    ASSUME Inv, NEW s \in Sender, DisableOffload(s)
    PROVE  Inv'
<1>1. PICK r : sender' = [sender EXCEPT ![s] = r] /\ IsSend(r) /\ r.conn = sender[s].conn
  BY Restarted
<1>2. Sending(s) /\ UNCHANGED <<sockets, conn, port, update>>
  BY DEF DisableOffload, Sending
<1> QED BY <1>1, <1>2, SenderGoesOn

\* The end of Send.
LEMMA EndSendStep ==
    ASSUME Inv, NEW s \in Sender, EndSend(s)
    PROVE  Inv'
BY SenderStep, NoSendFacts DEF EndSend

-----------------------------------------------------------------------------
(* Every step *)

\* The invariant holds at the start ...
LEMMA InvInit == Init => Inv
<1> SUFFICES ASSUME Init PROVE Inv
  OBVIOUS
<1>1. DOMAIN sockets = {} /\ sockets = [s \in DOMAIN sockets |-> sockets[s]]
  BY DEF Init
<1>2. update = NoUpdate /\ conn = Closed /\ \A f \in Family : conn[f] = Nil
  BY DEF Init, Closed
<1>3. BindTypes
  BY <1>1, <1>2, NoUpdateFacts DEF Init, BindTypes
<1>4. SenderTypes /\ LockedSends
  BY NoSendFacts, BindAssumption DEF Init, SenderTypes, LockedSends, Sending
<1>5. NoSocketLeak /\ Opening /\ OnePort
  BY <1>1, <1>2, NoUpdateFacts, SocketFacts DEF NoSocketLeak, Opening, OnePort
<1> QED BY <1>3, <1>4, <1>5 DEF Inv

\* ... is kept when the sockets and the senders stay as they are ...
LEMMA InvUnchanged ==
    ASSUME Inv, UNCHANGED <<sockets, conn, port, update, sender>>
    PROVE  Inv'
<1>1. BindTypes' /\ SenderTypes'
  BY DEF Inv, BindTypes, SenderTypes
<1>2. NoSocketLeak' /\ Opening' /\ OnePort'
  BY DEF Inv, NoSocketLeak, Opening, OnePort
<1>3. LockedSends'
  BY DEF Inv, LockedSends, Sending
<1> QED BY <1>1, <1>2, <1>3 DEF Inv

\* ... and by every step.
LEMMA InvStep == Inv /\ [Next]_vars => Inv'
<1> SUFFICES ASSUME Inv, [Next]_vars PROVE Inv'
  OBVIOUS
<1>1. ASSUME NEW p \in Port \cup {port}, Close(p) PROVE Inv'
  BY <1>1, CloseStep
<1>2. CASE NotUp
  BY <1>2, NotUpStep
<1>3. CASE OpenV4
  BY <1>3, OpenV4Step
<1>4. CASE OpenV6
  BY <1>4, OpenV6Step
<1>5. ASSUME NEW f \in Family, NEW p \in Port, OtherTakesPort(f, p) PROVE Inv'
  BY <1>5, InvUnchanged DEF OtherTakesPort
<1>6. ASSUME NEW s \in Sender, Write(s) PROVE Inv'
  BY <1>6, WriteStep
<1>7. ASSUME NEW s \in Sender, WriteFails(s) PROVE Inv'
  BY <1>7, WriteFailsStep
<1>8. ASSUME NEW s \in Sender, DisableOffload(s) PROVE Inv'
  BY <1>8, DisableOffloadStep
<1>9. ASSUME NEW s \in Sender, EndSend(s) PROVE Inv'
  BY <1>9, EndSendStep
<1>10. ASSUME NEW s \in Sender, NEW f \in Family, NEW bufs \in Batches, BeginSend(s, f, bufs)
       PROVE  Inv'
  BY <1>10, BeginSendStep
<1>11. CASE UNCHANGED vars
  BY <1>11, InvUnchanged DEF vars
<1>12. CASE OpenDone
  BY <1>12, OpenDoneStep
<1>13. CASE RouteListenerFails
  BY <1>13, RouteListenerFailsStep
<1> QED BY <1>1, <1>2, <1>3, <1>4, <1>5, <1>6, <1>7, <1>8, <1>9, <1>10, <1>11, <1>12, <1>13 DEF Next

\* The invariant holds in every state: the process owns the sockets of the bind
\* and of the attempt of Open that is under way, and no others.
THEOREM Invariance == Spec => []Inv
BY InvInit, InvStep, PTL DEF Spec

-----------------------------------------------------------------------------
(* The results *)

\* Open and Close leave no socket of the process open that is in neither the
\* bind nor the attempt under way, after any number of attempts.
THEOREM SocketsDoNotLeak == Spec => []NoSocketLeak
<1>1. Inv => NoSocketLeak
  BY DEF Inv
<1> QED BY Invariance, <1>1, PTL

\* When Open has a socket for each family they are on the port of the device.
THEOREM SocketsOnOnePort == Spec => []OnePort
<1>1. Inv => OnePort
  BY DEF Inv
<1> QED BY Invariance, <1>1, PTL

\* Peer.SendBuffers never writes to a socket that BindUpdate has closed.
THEOREM PeersUseOpenSockets == Spec => []PeersSendOnOpenSocket
<1>1. Inv => PeersSendOnOpenSocket
  <2> SUFFICES ASSUME Inv, NEW s \in Locked, sender[s].pc \in {"write", "disable"}
               PROVE  IsOpen(sender[s].conn)
    BY DEF PeersSendOnOpenSocket
  <2>1. sender[s].conn # Nil /\ \E f \in Family : sender[s].conn = conn[f]
    BY DEF Inv, LockedSends, Sending
  <2> QED BY <2>1 DEF Inv, NoSocketLeak, IsOpen
<1> QED BY Invariance, <1>1, PTL

-----------------------------------------------------------------------------
(* Induction.  The library states it for an operator; a set of numbers will do: *)
(* one that is not empty has a least element.                                   *)

\* The set has a least element.
LEMMA LeastNat == ASSUME NEW T, T \subseteq Nat, T # {} PROVE \E x \in T : \A y \in T : ~(y < x)
<1>1. IsWellFoundedOn(OpToRel(<, Nat), Nat) BY NatLessThanWellFounded, Zenon
<1>2. \E x \in T : \A y \in T : ~ (<<y, x>> \in OpToRel(<, Nat)) BY <1>1, WFMin, Zenon
<1> QED BY <1>2 DEF OpToRel

\* Induction, for the set of the numbers that have the property.
LEMMA SetInduction ==
    ASSUME NEW S, 0 \in S, \A n \in Nat : n \in S => n + 1 \in S
    PROVE  \A n \in Nat : n \in S
<1>1. SUFFICES ASSUME NEW n \in Nat, n \notin S PROVE FALSE
  OBVIOUS
<1> DEFINE T == {k \in Nat : k \notin S}
<1>2. T \subseteq Nat /\ T # {}
  BY <1>1
<1>3. PICK x \in T : \A y \in T : ~(y < x)
  <2> HIDE DEF T
  <2> QED BY <1>2, LeastNat
<1>4. x # 0 /\ x - 1 \in Nat
  OBVIOUS
<1>5. x - 1 \notin T
  BY <1>3, <1>4
<1> QED BY <1>4, <1>5, x - 1 + 1 = x

-----------------------------------------------------------------------------
(* Loops: a fold of the library is a function of the sets of places. *)

\* One round of coalesceMessages.
Add(bufs, s, i) ==
    IF i > 1 /\ Fits(s, bufs[i]) THEN AppendToBase(s, bufs[i], i = Len(bufs))
    ELSE NewBase(s, bufs[i])

\* One round of the copying of a message's pieces.
Copy(p, t, j) ==
    IF t.err \/ Overflows(t.n + 1, p.i) THEN [t EXCEPT !.err = TRUE]
    ELSE [t EXCEPT !.msgs[t.n + 1] = [buf |-> p.pieces[j], gso |-> 0], !.n = @ + 1]

\* One round of splitCoalescedMessages.
Split(s, i) ==
    IF s.err \/ s.done \/ i < readAt THEN s
    ELSE IF s.msgs[i].buf = <<>> THEN [s EXCEPT !.done = TRUE]
    ELSE splitMessage(s, i)

Loops == {"coalesce", "copy", "split"}
Round(loop, x, s, i) ==
    IF loop = "coalesce" THEN Add(x, s, i)
    ELSE IF loop = "copy" THEN Copy(x, s, i) ELSE Split(s, i)

Visits(loop, x, base, list, N, g) ==
    /\ g = [S \in SUBSET (1 .. N) |-> g[S]]
    /\ \A S \in SUBSET (1 .. N) :
          g[S] = IF S = {} THEN base ELSE Round(loop, x, g[S \ {Max(S)}], list[Max(S)])
HasVisits(loop, x, base, list, N) == \E g : Visits(loop, x, base, list, N, g)

\* The last place of a set of places.
LEMMA MaxIs ==
    ASSUME NEW n \in Nat, NEW S \in SUBSET (1 .. n + 1), n + 1 \in S
    PROVE  Max(S) = n + 1
<1> DEFINE P(x) == x \in S /\ \A y \in S : x >= y
<1>1. P(n + 1) OBVIOUS
<1>2. \A x : P(x) => x = n + 1 OBVIOUS
<1>3. Max(S) = CHOOSE x \in S : \A y \in S : x >= y BY DEF Max
<1>4. P(Max(S)) BY <1>1, <1>3
<1> QED BY <1>2, <1>4

\* The values of a fold on all sets of places exist together.
LEMMA FoldExists ==
    ASSUME NEW loop, NEW x, NEW base, NEW list, NEW N \in Nat
    PROVE  HasVisits(loop, x, base, list, N)
<1> DEFINE T == {n \in Nat : HasVisits(loop, x, base, list, n)}
<1>1. 0 \in T
  <2> DEFINE g == [S \in SUBSET (1 .. 0) |-> base]
  <2>1. (\A S \in SUBSET (1 .. 0) : S = {}) /\ g = [S \in SUBSET (1 .. 0) |-> g[S]]
    OBVIOUS
  <2>2. Visits(loop, x, base, list, 0, g)
    BY <2>1 DEF Visits
  <2> QED BY <2>2 DEF HasVisits
<1>2. ASSUME NEW n \in Nat, n \in T PROVE n + 1 \in T
  <2>1. PICK g : Visits(loop, x, base, list, n, g)
    BY <1>2 DEF HasVisits
  <2> DEFINE h == [S \in SUBSET (1 .. n + 1) |->
                      IF n + 1 \in S THEN Round(loop, x, g[S \ {n + 1}], list[n + 1]) ELSE g[S]]
  <2>2. h = [S \in SUBSET (1 .. n + 1) |-> h[S]]
    OBVIOUS
  <2>3. \A S \in SUBSET (1 .. n) : S \in SUBSET (1 .. n + 1) /\ n + 1 \notin S
    OBVIOUS
  <2>4. \A S \in SUBSET (1 .. n) : h[S] = g[S]
    BY <2>3
  <2>5. \A S \in SUBSET (1 .. n + 1) : n + 1 \in S => h[S] = Round(loop, x, g[S \ {n + 1}], list[n + 1])
    OBVIOUS
  <2> HIDE DEF h
  <2>6. ASSUME NEW S \in SUBSET (1 .. n + 1)
        PROVE  h[S] = IF S = {} THEN base ELSE Round(loop, x, h[S \ {Max(S)}], list[Max(S)])
    <3>1. CASE n + 1 \in S
      <4>1. Max(S) = n + 1
        BY <3>1, MaxIs
      <4>2. S \ {n + 1} \in SUBSET (1 .. n)
        OBVIOUS
      <4>3. h[S] = Round(loop, x, h[S \ {n + 1}], list[n + 1])
        BY <3>1, <4>2, <2>4, <2>5
      <4> QED BY <3>1, <4>1, <4>3
    <3>2. CASE n + 1 \notin S
      <4>0. \A y \in S : y \in 1 .. n
        BY <3>2
      <4>1. S \in SUBSET (1 .. n) /\ S \ {Max(S)} \in SUBSET (1 .. n)
        BY <4>0
      <4>2. h[S] = g[S] /\ h[S \ {Max(S)}] = g[S \ {Max(S)}]
        BY <4>1, <2>4
      <4>3. g[S] = IF S = {} THEN base ELSE Round(loop, x, g[S \ {Max(S)}], list[Max(S)])
        BY <4>1, <2>1 DEF Visits
      <4> QED BY <4>2, <4>3
    <3> QED BY <3>1, <3>2
  <2>7. Visits(loop, x, base, list, n + 1, h)
    BY <2>2, <2>6 DEF Visits
  <2> QED BY <2>7 DEF HasVisits
<1>3. N \in T
  <2> HIDE DEF T
  <2> QED BY <1>1, <1>2, SetInduction
<1> QED BY <1>3

\* The rounds of a loop, one after another.
Rounds(loop, x, base, list, N, w) ==
    w[0] = base /\ \A k \in 0 .. N - 1 : w[k + 1] = Round(loop, x, w[k], list[k + 1])
Runs(loop, x, base, list, N, r) == \E w : Rounds(loop, x, base, list, N, w) /\ w[N] = r

\* On the sets of the first places they are the rounds of the loop.
LEMMA VisitsRounds ==
    ASSUME NEW loop, NEW x, NEW base, NEW list, NEW N \in Nat, NEW g, Visits(loop, x, base, list, N, g)
    PROVE  Runs(loop, x, base, list, N, g[1 .. N])
<1> DEFINE w == [k \in 0 .. N |-> g[1 .. k]]
<1>1. w[0] = base
  <2>1. 1 .. 0 = {} /\ {} \in SUBSET (1 .. N)
    OBVIOUS
  <2>2. g[{}] = base
    BY <2>1 DEF Visits
  <2> QED BY <2>1, <2>2
<1>2. ASSUME NEW k \in 0 .. N - 1 PROVE w[k + 1] = Round(loop, x, w[k], list[k + 1])
  <2> DEFINE S == 1 .. k + 1
  <2>0. k \in Nat /\ k + 1 <= N
    OBVIOUS
  <2>1. S \in SUBSET (1 .. N) /\ S # {} /\ k + 1 \in S /\ S \in SUBSET (1 .. k + 1)
    <3>1. \A y \in S : y \in 1 .. N /\ y \in 1 .. k + 1
      BY <2>0
    <3>2. k + 1 \in S
      BY <2>0
    <3> HIDE DEF S
    <3> QED BY <3>1, <3>2
  <2>2. S \ {k + 1} = 1 .. k
    OBVIOUS
  <2>w. w[k + 1] = g[S] /\ w[k] = g[1 .. k]
    OBVIOUS
  <2> HIDE DEF S, w
  <2>3. Max(S) = k + 1
    BY <2>0, <2>1, MaxIs
  <2>4. g[S] = Round(loop, x, g[S \ {Max(S)}], list[Max(S)])
    BY <2>1 DEF Visits
  <2> QED BY <2>2, <2>3, <2>4, <2>w
<1>3. w[N] = g[1 .. N]
  OBVIOUS
<1> HIDE DEF w
<1> QED BY <1>1, <1>2, <1>3 DEF Rounds, Runs

\* The function a fold chooses is the one of the visits.
LEMMA ChosenVisits ==
    ASSUME NEW loop, NEW x, NEW base, NEW list, NEW N \in Nat, NEW w,
           w = CHOOSE g : g = [S \in SUBSET (1 .. N) |->
                  IF S = {} THEN base ELSE Round(loop, x, g[S \ {Max(S)}], list[Max(S)])]
    PROVE  Runs(loop, x, base, list, N, w[1 .. N])
<1> DEFINE F(g) == [S \in SUBSET (1 .. N) |->
                  IF S = {} THEN base ELSE Round(loop, x, g[S \ {Max(S)}], list[Max(S)])]
<1>1. PICK g : Visits(loop, x, base, list, N, g)
  BY FoldExists DEF HasVisits
<1>2. g = F(g)
  BY <1>1 DEF Visits
<1>3. w = CHOOSE h : h = F(h)
  BY Zenon
<1>4. w = F(w)
  <2> HIDE DEF F
  <2> QED BY <1>2, <1>3
<1>5. Visits(loop, x, base, list, N, w)
  BY <1>4 DEF Visits
<1> QED BY <1>5, VisitsRounds

\* The places of a sequence, in order.
Places(N) == [i \in 1 .. N |-> i]

\* When the list of places is the numbers themselves.
LEMMA PlaceRounds ==
    ASSUME NEW loop, NEW x, NEW base, NEW N \in Nat, NEW r, Runs(loop, x, base, Places(N), N, r)
    PROVE  \E w : /\ w[0] = base /\ w[N] = r
                  /\ \A k \in 0 .. N - 1 : w[k + 1] = Round(loop, x, w[k], k + 1)
<1>1. PICK w : Rounds(loop, x, base, Places(N), N, w) /\ w[N] = r
  BY DEF Runs
<1>2. ASSUME NEW k \in 0 .. N - 1 PROVE w[k + 1] = Round(loop, x, w[k], k + 1)
  <2>1. Places(N)[k + 1] = k + 1
    BY DEF Places
  <2> QED BY <1>1, <2>1 DEF Rounds
<1> QED BY <1>1, <1>2 DEF Rounds

\* coalesceMessages is such a loop over the buffers ...
LEMMA CoalesceRuns ==
    ASSUME NEW bufs, NEW N \in Nat, DOMAIN bufs = 1 .. N
    PROVE  \E r : Runs("coalesce", bufs, Started, Places(N), N, r) /\ coalesceMessages(bufs) = r.msgs
<1> DEFINE places == [i \in DOMAIN bufs |-> i]
           w == CHOOSE g : g = [S \in SUBSET DOMAIN places |->
                  IF S = {} THEN Started ELSE Add(bufs, g[S \ {Max(S)}], places[Max(S)])]
<1>1. coalesceMessages(bufs) = w[DOMAIN places].msgs
  BY Zenon DEF coalesceMessages, FoldLeftDomain, FoldLeft, MapThenFoldSet, Add
<1>2. DOMAIN places = 1 .. N /\ places = Places(N)
  BY DEF Places
<1>3. w = CHOOSE g : g = [S \in SUBSET (1 .. N) |->
             IF S = {} THEN Started ELSE Round("coalesce", bufs, g[S \ {Max(S)}], Places(N)[Max(S)])]
  <2> HIDE DEF places
  <2> QED BY <1>2 DEF Round
<1> HIDE DEF w
<1>4. Runs("coalesce", bufs, Started, Places(N), N, w[1 .. N])
  BY <1>3, ChosenVisits
<1> QED BY <1>1, <1>2, <1>4

\* ... the copying of a message runs over its pieces ...
LEMMA SplitMessageRuns ==
    ASSUME NEW s, NEW i, NEW N \in Nat, DOMAIN Segments(s.msgs[i]) = 1 .. N
    PROVE  \E a : /\ Runs("copy", [pieces |-> Segments(s.msgs[i]), i |-> i], s, Places(N), N, a)
                  /\ splitMessage(s, i) =
                        IF ~a.err /\ a.n # i THEN [a EXCEPT !.msgs[i] = EmptyMessage] ELSE a
<1> DEFINE p == [pieces |-> Segments(s.msgs[i]), i |-> i]
           places == [j \in DOMAIN Segments(s.msgs[i]) |-> j]
           Take(t, j) == IF t.err \/ Overflows(t.n + 1, i) THEN [t EXCEPT !.err = TRUE]
                         ELSE [t EXCEPT !.msgs[t.n + 1] = [buf |-> Segments(s.msgs[i])[j], gso |-> 0], !.n = @ + 1]
           w == CHOOSE g : g = [S \in SUBSET DOMAIN places |->
                  IF S = {} THEN s ELSE Take(g[S \ {Max(S)}], places[Max(S)])]
           a == w[DOMAIN places]
<1>1. splitMessage(s, i) = IF ~a.err /\ a.n # i THEN [a EXCEPT !.msgs[i] = EmptyMessage] ELSE a
  BY Zenon DEF splitMessage, FoldLeftDomain, FoldLeft, MapThenFoldSet
<1>2. DOMAIN places = 1 .. N /\ places = Places(N)
  BY DEF Places
<1>3. p.pieces = Segments(s.msgs[i]) /\ p.i = i
  OBVIOUS
<1> HIDE DEF p
<1>4. w = CHOOSE g : g = [S \in SUBSET (1 .. N) |->
             IF S = {} THEN s ELSE Round("copy", p, g[S \ {Max(S)}], Places(N)[Max(S)])]
  <2> HIDE DEF places
  <2> QED BY <1>2, <1>3 DEF Round, Copy
<1> HIDE DEF w
<1>5. Runs("copy", p, s, Places(N), N, w[1 .. N])
  BY <1>4, ChosenVisits
<1> QED BY <1>1, <1>2, <1>5 DEF p

\* ... and splitCoalescedMessages over the messages.
LEMMA SplitRuns ==
    ASSUME NEW msgs, NEW N \in Nat, DOMAIN msgs = 1 .. N
    PROVE  Runs("split", msgs, [msgs |-> msgs, n |-> 0, err |-> FALSE, done |-> FALSE], Places(N), N,
                splitCoalescedMessages(msgs))
<1> DEFINE places == [i \in DOMAIN msgs |-> i]
           base == [msgs |-> msgs, n |-> 0, err |-> FALSE, done |-> FALSE]
           w == CHOOSE g : g = [S \in SUBSET DOMAIN places |->
                  IF S = {} THEN base ELSE Split(g[S \ {Max(S)}], places[Max(S)])]
<1>1. splitCoalescedMessages(msgs) = w[DOMAIN places]
  BY Zenon DEF splitCoalescedMessages, FoldLeftDomain, FoldLeft, MapThenFoldSet, Split
<1>2. DOMAIN places = 1 .. N /\ places = Places(N)
  BY DEF Places
<1> HIDE DEF base
<1>3. w = CHOOSE g : g = [S \in SUBSET (1 .. N) |->
             IF S = {} THEN base ELSE Round("split", msgs, g[S \ {Max(S)}], Places(N)[Max(S)])]
  <2> HIDE DEF places
  <2> QED BY <1>2 DEF Round
<1> HIDE DEF w
<1>4. Runs("split", msgs, base, Places(N), N, w[1 .. N])
  BY <1>3, ChosenVisits
<1> QED BY <1>1, <1>2, <1>4 DEF base

-----------------------------------------------------------------------------
(* Segments *)

Buffer == Seq(Int \X Int)
Message == [buf : Buffer, gso : Nat]

\* The lists FlattenSeq concatenates one by one.
Flat(ss, n, w) == \A i \in 1 .. n : w[i] = IF i = 1 THEN ss[i] ELSE w[i - 1] \o ss[i]

\* Those lists exist ...
LEMMA FlatExists ==
    ASSUME NEW ss, NEW N \in Nat
    PROVE  \E w : w = [i \in 1 .. N |-> w[i]] /\ Flat(ss, N, w)
<1> DEFINE T == {n \in Nat : \E w : w = [i \in 1 .. n |-> w[i]] /\ Flat(ss, n, w)}
<1>1. 0 \in T
  <2> DEFINE v == [i \in 1 .. 0 |-> ss]
  <2>1. v = [i \in 1 .. 0 |-> v[i]] /\ Flat(ss, 0, v)
    BY DEF Flat
  <2> QED BY <2>1
<1>2. ASSUME NEW n \in Nat, n \in T PROVE n + 1 \in T
  <2>1. PICK w : w = [i \in 1 .. n |-> w[i]] /\ Flat(ss, n, w)
    BY <1>2
  <2> DEFINE last == IF n = 0 THEN ss[1] ELSE w[n] \o ss[n + 1]
  <2> HIDE DEF last
  <2> DEFINE v == [i \in 1 .. n + 1 |-> IF i = n + 1 THEN last ELSE w[i]]
  <2>2. v = [i \in 1 .. n + 1 |-> v[i]]
    OBVIOUS
  <2>3. v[n + 1] = last /\ \A i \in 1 .. n : v[i] = w[i]
    OBVIOUS
  <2> HIDE DEF v
  <2>4. ASSUME NEW i \in 1 .. n + 1
        PROVE  v[i] = IF i = 1 THEN ss[i] ELSE v[i - 1] \o ss[i]
    <3>1. CASE i = n + 1
      <4>1. n # 0 => v[n] = w[n]
        BY <2>3
      <4>2. i = 1 <=> n = 0
        BY <3>1
      <4>3. i - 1 = n
        BY <3>1
      <4> QED BY <3>1, <4>1, <4>2, <4>3, <2>3 DEF last
    <3>2. CASE i # n + 1
      <4>1. i \in 1 .. n /\ (i # 1 => i - 1 \in 1 .. n)
        BY <3>2
      <4>2. w[i] = IF i = 1 THEN ss[i] ELSE w[i - 1] \o ss[i]
        BY <2>1, <4>1 DEF Flat
      <4> QED BY <4>1, <4>2, <2>3
    <3> QED BY <3>1, <3>2
  <2>5. Flat(ss, n + 1, v)
    BY <2>4 DEF Flat
  <2> QED BY <2>2, <2>5
<1>3. N \in T
  <2> HIDE DEF T
  <2> QED BY <1>1, <1>2, SetInduction
<1> QED BY <1>3

\* ... and FlattenSeq is the last of them.
LEMMA FlattenIs ==
    ASSUME NEW ss, Len(ss) \in Nat \ {0}
    PROVE  \E w : Flat(ss, Len(ss), w) /\ FlattenSeq(ss) = w[Len(ss)]
<1> DEFINE F(w) == [i \in 1 .. Len(ss) |-> IF i = 1 THEN ss[i] ELSE w[i - 1] \o ss[i]]
           flatten == CHOOSE w : w = F(w)
<1>1. FlattenSeq(ss) = flatten[Len(ss)]
  BY Zenon DEF FlattenSeq
<1>2. PICK w : w = [i \in 1 .. Len(ss) |-> w[i]] /\ Flat(ss, Len(ss), w)
  BY FlatExists
<1>3. w = F(w)
  BY <1>2 DEF Flat
<1>4. flatten = F(flatten)
  <2> HIDE DEF F
  <2> QED BY <1>3
<1> HIDE DEF flatten
<1>5. Flat(ss, Len(ss), flatten)
  BY <1>4 DEF Flat
<1> QED BY <1>1, <1>5

\* FlattenSeq of one list more.
LEMMA FlattenAppend ==
    ASSUME NEW B, NEW ss \in Seq(Seq(B)), NEW t \in Seq(B)
    PROVE  FlattenSeq(Append(ss, t)) = FlattenSeq(ss) \o t
<1> DEFINE st == Append(ss, t)
           N == Len(ss)
<1>1. /\ st \in Seq(Seq(B)) /\ Len(st) = N + 1 /\ N \in Nat
      /\ st[N + 1] = t /\ \A i \in 1 .. N : st[i] = ss[i]
  BY AppendProperties
<1> HIDE DEF st
<1>2. PICK w : Flat(st, N + 1, w) /\ FlattenSeq(st) = w[N + 1]
  <2>1. Len(st) \in Nat \ {0}
    BY <1>1
  <2>2. \E w : Flat(st, Len(st), w) /\ FlattenSeq(st) = w[Len(st)]
    BY ONLY <2>1, FlattenIs
  <2> QED BY <1>1, <2>2
<1>3. CASE N = 0
  <2>1. FlattenSeq(ss) = <<>>
    BY <1>3, EmptySeq DEF FlattenSeq
  <2>2. w[1] = t
    BY <1>1, <1>2, <1>3 DEF Flat
  <2> QED BY <1>2, <1>3, <2>1, <2>2, ConcatEmptySeq DEF st
<1>4. CASE N # 0
  <2>1. PICK v : Flat(ss, N, v) /\ FlattenSeq(ss) = v[N]
    BY <1>1, <1>4, FlattenIs
  <2> DEFINE T == {n \in Nat : n + 1 <= N => w[n + 1] = v[n + 1]}
  <2>2. 0 \in T
    <3>1. 1 \in 1 .. N + 1 /\ 1 \in 1 .. N
      BY <1>1, <1>4
    <3>2. w[1] = v[1]
      BY <1>1, <1>2, <2>1, <3>1 DEF Flat
    <3> QED BY <3>2
  <2>3. ASSUME NEW n \in Nat, n \in T PROVE n + 1 \in T
    <3>1. SUFFICES ASSUME n + 1 + 1 <= N PROVE w[n + 1 + 1] = v[n + 1 + 1]
      OBVIOUS
    <3> DEFINE i == n + 1 + 1
    <3>2. i \in 1 .. N + 1 /\ i \in 1 .. N /\ i # 1 /\ i - 1 = n + 1
      BY <3>1, <1>1
    <3>3. w[n + 1] = v[n + 1]
      BY <2>3, <3>1, <1>1
    <3> HIDE DEF i
    <3>4. w[i] = w[i - 1] \o st[i] /\ v[i] = v[i - 1] \o ss[i]
      BY <1>2, <2>1, <3>2 DEF Flat
    <3>5. w[i] = v[i]
      BY <3>2, <3>3, <3>4, <1>1
    <3> QED BY <3>5 DEF i
  <2>4. N - 1 \in T
    <3>1. N - 1 \in Nat
      BY <1>1, <1>4
    <3> HIDE DEF T
    <3> QED BY <2>2, <2>3, <3>1, SetInduction
  <2>5. w[N] = v[N]
    BY <2>4, <1>1, <1>4
  <2>6. w[N + 1] = w[N] \o t
    <3> DEFINE i == N + 1
    <3>1. i \in 1 .. N + 1 /\ i # 1 /\ i - 1 = N
      BY <1>1, <1>4
    <3>2. st[i] = t
      BY <1>1
    <3> HIDE DEF i
    <3>3. w[i] = w[i - 1] \o st[i]
      BY <1>2, <3>1 DEF Flat
    <3> QED BY <3>1, <3>2, <3>3 DEF i
  <2> QED BY <1>2, <2>1, <2>5, <2>6 DEF st
<1> QED BY <1>3, <1>4

\* How many pieces of g bytes a length makes.
LEMMA Quotient ==
    ASSUME NEW g \in Nat \ {0}, NEW m \in Nat, NEW l \in 1 .. g
    PROVE  /\ (m * g + l + g - 1) \div g = m + 1
           /\ (m * g + g - 1) \div g = m
<1>1. ASSUME NEW k \in Nat, NEW a \in 0 .. g - 1 PROVE (k * g + a) \div g = k
  <2> DEFINE c == k * g + a
             q == c \div g
  <2>1. c \in Nat /\ q \in Nat /\ c % g \in 0 .. g - 1 /\ c = q * g + (c % g)
    <3>1. k * g \in Nat
      OBVIOUS
    <3>2. c \in Nat
      BY <3>1
    <3> HIDE DEF c
    <3> QED BY <3>2
  <2> DEFINE b == c % g
  <2>2. q * g + b = k * g + a
    BY <2>1
  <2>3. q \in Nat /\ b \in 0 .. g - 1
    BY <2>1
  <2> HIDE DEF q, b, c
  <2>4. ~(q < k)
    <3>1. SUFFICES ASSUME q < k PROVE FALSE
      OBVIOUS
    <3>2. k * g >= (q + 1) * g /\ (q + 1) * g = q * g + g
      BY <2>3, <3>1
    <3> QED BY <2>2, <2>3, <3>2
  <2>5. ~(k < q)
    <3>1. SUFFICES ASSUME k < q PROVE FALSE
      OBVIOUS
    <3>2. q * g >= (k + 1) * g /\ (k + 1) * g = k * g + g
      BY <2>3, <3>1
    <3> QED BY <2>2, <2>3, <3>2
  <2>6. q = k
    BY <2>4, <2>5, <2>3
  <2> QED BY <2>6 DEF q, c
<1>2. m * g \in Nat
  OBVIOUS
<1>3. (m + 1) * g + (l - 1) = m * g + l + g - 1
  BY <1>2
<1>4. m * g + (g - 1) = m * g + g - 1
  BY <1>2
<1>5. m + 1 \in Nat /\ l - 1 \in 0 .. g - 1 /\ g - 1 \in 0 .. g - 1
  OBVIOUS
<1>6. ((m + 1) * g + (l - 1)) \div g = m + 1
  BY <1>1, <1>5
<1>7. (m * g + (g - 1)) \div g = m
  BY <1>1, <1>5
<1> QED BY <1>3, <1>4, <1>6, <1>7

\* The number of pieces.
PieceCount(buf, g) == (Len(buf) + g - 1) \div g

\* The pieces of a buffer are buffers, as many as PieceCount says.
LEMMA PiecesType ==
    ASSUME NEW buf \in Buffer, NEW g \in Nat \ {0}
    PROVE  /\ PieceCount(buf, g) \in Nat
           /\ Pieces(buf, g) \in Seq(Buffer) /\ Len(Pieces(buf, g)) = PieceCount(buf, g)
<1> DEFINE n == PieceCount(buf, g)
           last(j) == IF j * g > Len(buf) THEN Len(buf) ELSE j * g
           piece(j) == SubSeq(buf, (j - 1) * g + 1, last(j))
<1>1. Len(buf) \in Nat /\ \A i \in 1 .. Len(buf) : buf[i] \in Int \X Int
  BY LenProperties DEF Buffer
<1>2. n \in Nat
  <2> DEFINE x == Len(buf) + g - 1
  <2>1. x \in Nat
    BY <1>1
  <2> HIDE DEF x
  <2>2. x \div g \in Nat
    BY <2>1
  <2> QED BY <2>2 DEF x, PieceCount
<1>3. Pieces(buf, g) = [j \in 1 .. n |-> piece(j)]
  BY DEF Pieces, PieceCount
<1>4. ASSUME NEW j \in 1 .. n PROVE piece(j) \in Buffer
  <2>1. (j - 1) * g \in Nat /\ j * g \in Nat
    <3>1. j - 1 \in Nat /\ j \in Nat
      BY <1>2
    <3> QED BY <3>1
  <2>2. last(j) \in Nat /\ last(j) <= Len(buf)
    BY <2>1, <1>1
  <2> DEFINE a == (j - 1) * g + 1
             b == last(j)
  <2>3. a \in Int /\ b \in Int /\ a >= 1 /\ b <= Len(buf)
    BY <2>1, <2>2
  <2> HIDE DEF a, b
  <2>4. \A i \in a .. b : buf[i] \in Int \X Int
    BY <2>3, <1>1
  <2>5. SubSeq(buf, a, b) \in Seq(Int \X Int)
    BY <2>3, <2>4, SubSeqProperties
  <2> QED BY <2>5 DEF a, b, Buffer
<1> HIDE DEF piece, n
<1>5. [j \in 1 .. n |-> piece(j)] \in [1 .. n -> Buffer]
  BY <1>4
<1>6. [j \in 1 .. n |-> piece(j)] \in Seq(Buffer)
  BY <1>2, <1>5, SeqDef
<1>7. Len(Pieces(buf, g)) = n
  BY <1>2, <1>3
<1> QED BY <1>2, <1>3, <1>6, <1>7 DEF n

\* A buffer of one piece.
LEMMA OnePiece ==
    ASSUME NEW buf \in Buffer, buf # <<>>
    PROVE  Pieces(buf, Len(buf)) = <<buf>> /\ PieceCount(buf, Len(buf)) = 1
<1> DEFINE g == Len(buf)
<1>1. g \in Nat \ {0}
  BY EmptySeq DEF Buffer
<1>2. SubSeq(buf, 1, g) = buf
  BY SubSeqFull DEF Buffer
<1>3. (0 * g + g + g - 1) \div g = 0 + 1
  <2> HIDE DEF g
  <2>1. 0 \in Nat /\ g \in 1 .. g
    BY <1>1
  <2> QED BY <1>1, <2>1, Quotient
<1>4. (Len(buf) + g - 1) \div g = 1
  <2>1. 0 * g + g + g - 1 = g + g - 1
    BY <1>1
  <2> QED BY <1>3, <2>1
<1>5. Pieces(buf, g) = [j \in 1 .. 1 |-> SubSeq(buf, (j - 1) * g + 1, IF j * g > g THEN g ELSE j * g)]
  BY <1>4 DEF Pieces
<1>6. \A j \in 1 .. 1 : (j - 1) * g + 1 = 1 /\ (IF j * g > g THEN g ELSE j * g) = g
  <2> HIDE DEF g
  <2> QED BY <1>1
<1>7. Pieces(buf, g) = [j \in 1 .. 1 |-> SubSeq(buf, 1, g)]
  BY <1>5, <1>6
<1>8. [j \in 1 .. 1 |-> buf] = <<buf>>
  OBVIOUS
<1> QED BY <1>2, <1>4, <1>7, <1>8 DEF PieceCount

\* A piece more at the end of full ones.
LEMMA PieceMore ==
    ASSUME NEW buf \in Buffer, NEW g \in Nat \ {0}, NEW m \in Nat, Len(buf) = m * g,
           NEW b \in Buffer, Len(b) \in 1 .. g
    PROVE  /\ Pieces(buf \o b, g) = Append(Pieces(buf, g), b)
           /\ PieceCount(buf, g) = m /\ PieceCount(buf \o b, g) = m + 1
<1> DEFINE l == Len(b)
           c == buf \o b
           upto(j) == IF j * g > Len(c) THEN Len(c) ELSE j * g
<1>0. buf \in Seq(Int \X Int) /\ b \in Seq(Int \X Int)
  BY DEF Buffer
<1>1. /\ l \in 1 .. g /\ l \in Nat /\ m * g \in Nat
      /\ c \in Buffer /\ Len(c) = m * g + l
  <2>1. c \in Seq(Int \X Int) /\ Len(c) = Len(buf) + Len(b)
    BY <1>0, ConcatProperties
  <2>2. m * g \in Nat
    OBVIOUS
  <2> HIDE DEF c
  <2> QED BY <2>1, <2>2 DEF Buffer
<1>2. PieceCount(buf, g) = m /\ PieceCount(c, g) = m + 1
  <2> HIDE DEF l, c
  <2> QED BY <1>1, Quotient DEF PieceCount
<1>3. /\ Pieces(buf, g) \in Seq(Buffer) /\ Len(Pieces(buf, g)) = m
      /\ Pieces(c, g) \in Seq(Buffer) /\ Len(Pieces(c, g)) = m + 1
  BY <1>1, <1>2, PiecesType
<1>4. ASSUME NEW j \in 1 .. m PROVE Pieces(c, g)[j] = Pieces(buf, g)[j]
  <2>1. j * g <= m * g /\ (j - 1) * g \in Nat /\ (j - 1) * g + 1 <= j * g /\ j * g \in Nat
    <3>1. (m - j) * g >= 0 /\ (m - j) * g = m * g - j * g
      <4>1. m - j \in Nat
        OBVIOUS
      <4> QED BY <4>1
    <3>2. (j - 1) * g = j * g - g
      OBVIOUS
    <3>3. (j - 1) * g \in Nat /\ j * g \in Nat
      <4>1. j - 1 \in Nat /\ j \in Nat
        OBVIOUS
      <4> QED BY <4>1
    <3> QED BY <3>1, <3>2, <3>3, <1>1
  <2>2. upto(j) = j * g
    <3> HIDE DEF c, l
    <3> QED BY <2>1, <1>1
  <2>3. (IF j * g > Len(buf) THEN Len(buf) ELSE j * g) = j * g
    BY <2>1
  <2>4. Pieces(c, g)[j] = SubSeq(c, (j - 1) * g + 1, j * g)
    <3>1. j \in 1 .. m + 1
      OBVIOUS
    <3> HIDE DEF c
    <3>2. Pieces(c, g) = [i \in 1 .. m + 1 |-> SubSeq(c, (i - 1) * g + 1, upto(i))]
      BY <1>2 DEF Pieces, PieceCount
    <3> HIDE DEF upto
    <3> QED BY <2>2, <3>1, <3>2
  <2>5. Pieces(buf, g)[j] = SubSeq(buf, (j - 1) * g + 1, j * g)
    BY <1>2, <2>3 DEF Pieces, PieceCount
  <2> DEFINE x == (j - 1) * g + 1
             y == j * g
  <2>6. x \in 1 .. Len(buf) /\ y \in 1 .. Len(buf)
    BY <2>1
  <2> HIDE DEF x, y
  <2>7. SubSeq(c, x, y) = SubSeq(buf, x, y)
    BY <1>0, <2>6, SubSeqOfConcat1
  <2> QED BY <2>4, <2>5, <2>7 DEF x, y
<1>5. Pieces(c, g)[m + 1] = b
  <2>1. upto(m + 1) = m * g + l
    <3>1. (m + 1) * g = m * g + g
      OBVIOUS
    <3> HIDE DEF c, l
    <3> QED BY <3>1, <1>1
  <2>2. ((m + 1) - 1) * g = m * g
    OBVIOUS
  <2>3. m + 1 \in 1 .. m + 1
    OBVIOUS
  <2>4. Pieces(c, g)[m + 1] = SubSeq(c, m * g + 1, m * g + l)
    <3> HIDE DEF c, l
    <3> DEFINE f(i) == SubSeq(c, (i - 1) * g + 1, upto(i))
    <3>1. Pieces(c, g) = [i \in 1 .. m + 1 |-> f(i)]
      BY <1>2 DEF Pieces, PieceCount
    <3>2. f(m + 1) = SubSeq(c, m * g + 1, m * g + l)
      <4> HIDE DEF upto
      <4> QED BY <2>1, <2>2
    <3> HIDE DEF f
    <3>3. Pieces(c, g)[m + 1] = f(m + 1)
      BY <2>3, <3>1
    <3> QED BY <3>2, <3>3
  <2> DEFINE x == m * g + 1
             y == m * g + l
  <2>5. /\ x \in Len(buf) + 1 .. Len(buf) + Len(b) /\ y \in Len(buf) + 1 .. Len(buf) + Len(b)
        /\ x - Len(buf) = 1 /\ y - Len(buf) = Len(b)
    BY <1>1
  <2> HIDE DEF x, y
  <2>6. SubSeq(c, x, y) = SubSeq(b, x - Len(buf), y - Len(buf))
    BY ONLY <1>0, <2>5, SubSeqOfConcat2
  <2> QED BY <1>0, <2>4, <2>5, <2>6, SubSeqFull DEF x, y
<1> HIDE DEF c, l
<1> DEFINE p == Append(Pieces(buf, g), b)
<1>6. /\ p \in Seq(Buffer) /\ Len(p) = m + 1 /\ p[m + 1] = b
      /\ \A j \in 1 .. m : p[j] = Pieces(buf, g)[j]
  BY <1>3, AppendProperties
<1>7. \A j \in 1 .. Len(p) : Pieces(c, g)[j] = p[j]
  BY <1>4, <1>5, <1>6
<1>8. Pieces(c, g) = p
  <2> HIDE DEF p
  <2> QED BY <1>3, <1>6, <1>7, SeqEqual
<1> QED BY <1>2, <1>8 DEF c

\* The segments of a message are buffers.
LEMMA SegmentsType ==
    ASSUME NEW m \in Message
    PROVE  Segments(m) \in Seq(Buffer) /\ (m.gso = 0 => Len(Segments(m)) = 1)
<1>1. m.buf \in Buffer /\ m.gso \in Nat
  BY DEF Message
<1>2. CASE m.gso = 0
  BY <1>1, <1>2 DEF Segments
<1>3. CASE m.gso # 0
  <2>1. m.gso \in Nat \ {0}
    BY <1>1, <1>3
  <2> QED BY <1>1, <1>3, <2>1, PiecesType DEF Segments
<1> QED BY <1>2, <1>3

\* The lists of segments of some messages.
SegmentLists(ms) == [i \in DOMAIN ms |-> Segments(ms[i])]

\* The lists of segments of some messages.
LEMMA SegmentListsType ==
    ASSUME NEW ms \in Seq(Message)
    PROVE  SegmentLists(ms) \in Seq(Seq(Buffer)) /\ Len(SegmentLists(ms)) = Len(ms)
<1>1. DOMAIN ms = 1 .. Len(ms) /\ Len(ms) \in Nat /\ \A i \in 1 .. Len(ms) : ms[i] \in Message
  BY LenProperties
<1>2. \A i \in 1 .. Len(ms) : Segments(ms[i]) \in Seq(Buffer)
  BY <1>1, SegmentsType
<1>3. SegmentLists(ms) = [i \in 1 .. Len(ms) |-> Segments(ms[i])]
  BY <1>1 DEF SegmentLists
<1>4. SegmentLists(ms) \in [1 .. Len(ms) -> Seq(Buffer)]
  BY <1>2, <1>3
<1>5. SegmentLists(ms) \in Seq(Seq(Buffer))
  BY <1>1, <1>4, SeqDef
<1> QED BY <1>1, <1>3, <1>5

\* No messages have no segments.
LEMMA AllSegmentsEmpty == AllSegments(<<>>) = <<>>
BY DEF AllSegments, FlattenSeq

\* One message more.
LEMMA AllSegmentsAppend ==
    ASSUME NEW ms \in Seq(Message), NEW m \in Message
    PROVE  AllSegments(Append(ms, m)) = AllSegments(ms) \o Segments(m)
<1> DEFINE mm == Append(ms, m)
           n == Len(ms)
<1>1. /\ mm \in Seq(Message) /\ Len(mm) = n + 1 /\ n \in Nat
      /\ mm[n + 1] = m /\ \A i \in 1 .. n : mm[i] = ms[i]
  BY AppendProperties
<1>2. DOMAIN mm = 1 .. n + 1 /\ DOMAIN ms = 1 .. n
  BY <1>1, LenProperties
<1>3. SegmentLists(ms) \in Seq(Seq(Buffer)) /\ Len(SegmentLists(ms)) = n
  BY SegmentListsType
<1>4. SegmentLists(mm) \in Seq(Seq(Buffer)) /\ Len(SegmentLists(mm)) = n + 1
  BY <1>1, SegmentListsType
<1>5. Segments(m) \in Seq(Buffer)
  BY SegmentsType
<1> HIDE DEF mm
<1> DEFINE t == Append(SegmentLists(ms), Segments(m))
<1>6. t \in Seq(Seq(Buffer)) /\ Len(t) = n + 1 /\ t[n + 1] = Segments(m)
      /\ \A i \in 1 .. n : t[i] = SegmentLists(ms)[i]
  BY <1>3, <1>5, AppendProperties
<1> HIDE DEF t
<1>7. \A i \in 1 .. n + 1 : SegmentLists(mm)[i] = t[i]
  <2>1. \A i \in 1 .. n : SegmentLists(mm)[i] = Segments(ms[i]) /\ SegmentLists(ms)[i] = Segments(ms[i])
    BY <1>1, <1>2 DEF SegmentLists
  <2>2. SegmentLists(mm)[n + 1] = Segments(m)
    BY <1>1, <1>2 DEF SegmentLists
  <2>3. SUFFICES ASSUME NEW i \in 1 .. n + 1 PROVE SegmentLists(mm)[i] = t[i]
    OBVIOUS
  <2>4. CASE i = n + 1
    BY <1>6, <2>2, <2>4
  <2>5. CASE i # n + 1
    <3>1. i \in 1 .. n
      BY <1>1, <2>5
    <3> QED BY <1>6, <2>1, <3>1
  <2> QED BY <2>4, <2>5
<1>8. SegmentLists(mm) = t
  BY <1>1, <1>4, <1>6, <1>7, SeqEqual
<1>9. FlattenSeq(t) = FlattenSeq(SegmentLists(ms)) \o Segments(m)
  BY <1>3, <1>5, FlattenAppend DEF t
<1> QED BY <1>8, <1>9 DEF AllSegments, SegmentLists, mm

\* A part of a sequence and its next element.
LEMMA SubSeqNext ==
    ASSUME NEW S, NEW s \in Seq(S), NEW a \in 1 .. Len(s) + 1, NEW k \in a - 1 .. Len(s) - 1
    PROVE  SubSeq(s, a, k + 1) = Append(SubSeq(s, a, k), s[k + 1])
<1>1. Len(s) \in Nat /\ \A i \in 1 .. Len(s) : s[i] \in S
  BY LenProperties
<1>2. a \in Int /\ k \in Int /\ a >= 1 /\ k <= Len(s) - 1 /\ a <= k + 1 /\ k + 1 \in Int
  BY <1>1
<1> DEFINE x == SubSeq(s, a, k + 1)
           y == SubSeq(s, a, k)
<1>3. x \in Seq(S) /\ Len(x) = k + 2 - a /\ \A i \in 1 .. k + 2 - a : x[i] = s[a + i - 1]
  <2>1. \A i \in a .. k + 1 : s[i] \in S
    BY <1>1, <1>2
  <2>2. /\ x \in Seq(S)
        /\ Len(x) = IF a <= k + 1 THEN (k + 1) - a + 1 ELSE 0
        /\ \A i \in 1 .. (k + 1) - a + 1 : x[i] = s[a + i - 1]
    <3>1. /\ SubSeq(s, a, k + 1) \in Seq(S)
          /\ Len(SubSeq(s, a, k + 1)) = IF a <= k + 1 THEN (k + 1) - a + 1 ELSE 0
          /\ \A i \in 1 .. (k + 1) - a + 1 : SubSeq(s, a, k + 1)[i] = s[a + i - 1]
      BY ONLY <1>2, <2>1, SubSeqProperties, SMTT(30)
    <3> QED BY <3>1
  <2> HIDE DEF x
  <2> QED BY <1>2, <2>2
<1>4. y \in Seq(S) /\ Len(y) = k + 1 - a /\ \A i \in 1 .. k + 1 - a : y[i] = s[a + i - 1]
  <2>1. \A i \in a .. k : s[i] \in S
    BY <1>1, <1>2
  <2>2. /\ y \in Seq(S)
        /\ Len(y) = IF a <= k THEN k - a + 1 ELSE 0
        /\ \A i \in 1 .. k - a + 1 : y[i] = s[a + i - 1]
    <3>1. /\ SubSeq(s, a, k) \in Seq(S)
          /\ Len(SubSeq(s, a, k)) = IF a <= k THEN k - a + 1 ELSE 0
          /\ \A i \in 1 .. k - a + 1 : SubSeq(s, a, k)[i] = s[a + i - 1]
      BY ONLY <1>2, <2>1, SubSeqProperties
    <3> QED BY <3>1
  <2> HIDE DEF y
  <2> QED BY <1>2, <2>2
<1>5. s[k + 1] \in S
  BY <1>1, <1>2
<1> DEFINE z == Append(y, s[k + 1])
<1>6. z \in Seq(S) /\ Len(z) = k + 2 - a /\ z[k + 2 - a] = s[k + 1]
      /\ \A i \in 1 .. k + 1 - a : z[i] = y[i]
  <2> HIDE DEF x, y
  <2>1. /\ z \in Seq(S) /\ Len(z) = Len(y) + 1 /\ z[Len(y) + 1] = s[k + 1]
        /\ \A i \in 1 .. Len(y) : z[i] = y[i]
    BY <1>4, <1>5, AppendProperties
  <2> HIDE DEF z
  <2> QED BY <1>2, <1>4, <2>1
<1> HIDE DEF x, y, z
<1>7. \A i \in 1 .. k + 2 - a : x[i] = z[i]
  <2>1. SUFFICES ASSUME NEW i \in 1 .. k + 2 - a PROVE x[i] = z[i]
    OBVIOUS
  <2>2. x[i] = s[a + i - 1]
    BY <1>3
  <2>3. CASE i = k + 2 - a
    <3>1. a + i - 1 = k + 1
      BY <1>2, <2>3
    <3> QED BY <1>6, <2>2, <2>3, <3>1
  <2>4. CASE i # k + 2 - a
    <3>1. i \in 1 .. k + 1 - a
      BY <1>2, <2>4
    <3> QED BY <1>4, <1>6, <2>2, <3>1
  <2> QED BY <2>3, <2>4
<1>8. x = z
  BY <1>3, <1>6, <1>7, SeqEqual
<1> QED BY <1>8 DEF x, y, z

\* A part of a sequence is a sequence, of the length its bounds say.
LEMMA SubSeqType ==
    ASSUME NEW S, NEW s \in Seq(S), NEW a \in 1 .. Len(s) + 1, NEW k \in a - 1 .. Len(s)
    PROVE  SubSeq(s, a, k) \in Seq(S) /\ Len(SubSeq(s, a, k)) = k + 1 - a
<1>1. Len(s) \in Nat /\ \A i \in 1 .. Len(s) : s[i] \in S
  BY LenProperties
<1>2. a \in Int /\ k \in Int /\ a >= 1 /\ k <= Len(s) /\ a <= k + 1
  BY <1>1
<1>3. \A i \in a .. k : s[i] \in S
  BY <1>1, <1>2
<1>4. SubSeq(s, a, k) \in Seq(S) /\ Len(SubSeq(s, a, k)) = IF a <= k THEN k - a + 1 ELSE 0
  BY <1>2, <1>3, SubSeqProperties
<1> QED BY <1>2, <1>4

\* The segments of messages are buffers.
LEMMA AllSegmentsType ==
    ASSUME NEW ms \in Seq(Message)
    PROVE  AllSegments(ms) \in Seq(Buffer)
<1> DEFINE T == {k \in Nat : k <= Len(ms) => AllSegments(SubSeq(ms, 1, k)) \in Seq(Buffer)}
<1>1. Len(ms) \in Nat /\ \A i \in 1 .. Len(ms) : ms[i] \in Message
  BY LenProperties
<1>2. 0 \in T
  <2>1. SubSeq(ms, 1, 0) = <<>>
    BY SubSeqEmpty
  <2>2. AllSegments(SubSeq(ms, 1, 0)) \in Seq(Buffer)
    BY <2>1, AllSegmentsEmpty, EmptySeq, Zenon
  <2> QED BY <2>2
<1>3. ASSUME NEW k \in Nat, k \in T PROVE k + 1 \in T
  <2>1. SUFFICES ASSUME k + 1 <= Len(ms) PROVE AllSegments(SubSeq(ms, 1, k + 1)) \in Seq(Buffer)
    OBVIOUS
  <2>2. 1 \in 1 .. Len(ms) + 1 /\ k \in 1 - 1 .. Len(ms) - 1 /\ k \in 1 - 1 .. Len(ms) /\ k + 1 \in 1 .. Len(ms)
    BY <1>1, <2>1
  <2>3. SubSeq(ms, 1, k + 1) = Append(SubSeq(ms, 1, k), ms[k + 1])
    BY <2>2, SubSeqNext
  <2>4. SubSeq(ms, 1, k) \in Seq(Message) /\ ms[k + 1] \in Message
    BY <1>1, <2>2, SubSeqType
  <2>5. AllSegments(SubSeq(ms, 1, k + 1)) = AllSegments(SubSeq(ms, 1, k)) \o Segments(ms[k + 1])
    BY <2>3, <2>4, AllSegmentsAppend
  <2>6. AllSegments(SubSeq(ms, 1, k)) \in Seq(Buffer)
    BY <1>3, <2>1, <1>1
  <2> QED BY <2>4, <2>5, <2>6, SegmentsType, ConcatProperties
<1>4. Len(ms) \in T
  <2> HIDE DEF T
  <2> QED BY <1>1, <1>2, <1>3, SetInduction
<1>5. SubSeq(ms, 1, Len(ms)) = ms
  BY SubSeqFull
<1>6. AllSegments(SubSeq(ms, 1, Len(ms))) \in Seq(Buffer)
  BY <1>1, <1>4
<1> QED BY <1>5, <1>6, Zenon

\* The segments of the first messages and of the others.
LEMMA AllSegmentsSplit ==
    ASSUME NEW ms \in Seq(Message), NEW n \in 0 .. Len(ms)
    PROVE  /\ SubSeq(ms, 1, n) \in Seq(Message) /\ SubSeq(ms, n + 1, Len(ms)) \in Seq(Message)
           /\ AllSegments(ms) = AllSegments(SubSeq(ms, 1, n)) \o AllSegments(SubSeq(ms, n + 1, Len(ms)))
<1> DEFINE A == AllSegments(SubSeq(ms, 1, n))
           T == {j \in Nat : n + j <= Len(ms) =>
                   AllSegments(SubSeq(ms, 1, n + j)) = A \o AllSegments(SubSeq(ms, n + 1, n + j))}
<1>1. Len(ms) \in Nat /\ \A i \in 1 .. Len(ms) : ms[i] \in Message
  BY LenProperties
<1>2. /\ 1 \in 1 .. Len(ms) + 1 /\ n + 1 \in 1 .. Len(ms) + 1 /\ n \in Nat
      /\ n \in 1 - 1 .. Len(ms) /\ Len(ms) \in (n + 1) - 1 .. Len(ms)
  BY <1>1
<1>3. SubSeq(ms, 1, n) \in Seq(Message) /\ SubSeq(ms, n + 1, Len(ms)) \in Seq(Message)
  BY <1>2, SubSeqType
<1>4. A \in Seq(Buffer)
  BY <1>3, AllSegmentsType
<1> HIDE DEF A
<1>5. 0 \in T
  <2>1. SubSeq(ms, n + 1, n) = <<>>
    BY <1>2, SubSeqEmpty
  <2>2. n + 0 = n
    BY <1>2
  <2>3. A \o <<>> = A
    BY <1>4, ConcatEmptySeq
  <2> QED BY <2>1, <2>2, <2>3, AllSegmentsEmpty DEF A
<1>6. ASSUME NEW j \in Nat, j \in T PROVE j + 1 \in T
  <2> DEFINE k == n + j
  <2>1. n + (j + 1) = k + 1 /\ k \in Nat
    BY <1>2
  <2>2. SUFFICES ASSUME k + 1 <= Len(ms)
                 PROVE  AllSegments(SubSeq(ms, 1, k + 1)) = A \o AllSegments(SubSeq(ms, n + 1, k + 1))
    BY <2>1
  <2>3. /\ k \in 1 - 1 .. Len(ms) - 1 /\ k \in 1 - 1 .. Len(ms) /\ k + 1 \in 1 .. Len(ms)
        /\ k \in (n + 1) - 1 .. Len(ms) - 1 /\ k \in (n + 1) - 1 .. Len(ms)
    BY <1>1, <1>2, <2>2
  <2>4. AllSegments(SubSeq(ms, 1, k)) = A \o AllSegments(SubSeq(ms, n + 1, k))
    BY <1>6, <2>2, <1>1, <2>1
  <2> HIDE DEF k
  <2>5. SubSeq(ms, 1, k + 1) = Append(SubSeq(ms, 1, k), ms[k + 1]) /\ SubSeq(ms, 1, k) \in Seq(Message)
    BY <1>2, <2>3, SubSeqNext, SubSeqType
  <2>6. SubSeq(ms, n + 1, k + 1) = Append(SubSeq(ms, n + 1, k), ms[k + 1]) /\ SubSeq(ms, n + 1, k) \in Seq(Message)
    <3> DEFINE a == n + 1
    <3>1. /\ ms \in Seq(Message) /\ a \in 1 .. Len(ms) + 1
          /\ k \in a - 1 .. Len(ms) - 1 /\ k \in a - 1 .. Len(ms)
      BY <1>1, <1>2, <2>3
    <3> HIDE DEF a
    <3>2. SubSeq(ms, a, k + 1) = Append(SubSeq(ms, a, k), ms[k + 1])
      BY ONLY <3>1, SubSeqNext
    <3>3. SubSeq(ms, a, k) \in Seq(Message)
      BY ONLY <3>1, SubSeqType
    <3> QED BY <3>2, <3>3 DEF a
  <2>7. ms[k + 1] \in Message /\ Segments(ms[k + 1]) \in Seq(Buffer)
    BY <1>1, <2>3, SegmentsType
  <2>8. AllSegments(SubSeq(ms, 1, k + 1)) = (A \o AllSegments(SubSeq(ms, n + 1, k))) \o Segments(ms[k + 1])
    BY <2>4, <2>5, <2>7, AllSegmentsAppend
  <2>9. AllSegments(SubSeq(ms, n + 1, k + 1)) = AllSegments(SubSeq(ms, n + 1, k)) \o Segments(ms[k + 1])
    BY <2>6, <2>7, AllSegmentsAppend
  <2>10. AllSegments(SubSeq(ms, n + 1, k)) \in Seq(Buffer)
    BY <2>6, AllSegmentsType
  <2>11. (A \o AllSegments(SubSeq(ms, n + 1, k))) \o Segments(ms[k + 1])
           = A \o (AllSegments(SubSeq(ms, n + 1, k)) \o Segments(ms[k + 1]))
    <3> DEFINE u == AllSegments(SubSeq(ms, n + 1, k))
               v == Segments(ms[k + 1])
    <3>1. A \in Seq(Buffer) /\ u \in Seq(Buffer) /\ v \in Seq(Buffer)
      BY <1>4, <2>7, <2>10
    <3> HIDE DEF u, v
    <3>2. (A \o u) \o v = A \o (u \o v)
      BY ONLY <3>1, ConcatAssociative, SMTT(30)
    <3> QED BY <3>2 DEF u, v
  <2> QED BY ONLY <2>8, <2>9, <2>11
<1>7. Len(ms) - n \in Nat
  BY <1>1
<1>8. Len(ms) - n \in T
  <2> HIDE DEF T
  <2> QED BY <1>5, <1>6, <1>7, SetInduction
<1>9. n + (Len(ms) - n) = Len(ms)
  BY <1>1, <1>2
<1>10. AllSegments(SubSeq(ms, 1, Len(ms))) = A \o AllSegments(SubSeq(ms, n + 1, Len(ms)))
  BY <1>1, <1>8, <1>9
<1>11. SubSeq(ms, 1, Len(ms)) = ms
  BY SubSeqFull
<1> QED BY <1>3, <1>10, <1>11 DEF A

\* Messages of one buffer each.
LEMMA SingleSegments ==
    ASSUME NEW bufs \in Seq(Buffer)
    PROVE  singleMessages(bufs) \in Seq(Message) /\ AllSegments(singleMessages(bufs)) = bufs
<1> DEFINE ms == singleMessages(bufs)
           N == Len(bufs)
           T == {k \in Nat : k <= N => AllSegments(SubSeq(ms, 1, k)) = SubSeq(bufs, 1, k)}
<1>1. N \in Nat /\ DOMAIN bufs = 1 .. N /\ \A i \in 1 .. N : bufs[i] \in Buffer
  BY LenProperties
<1>2. ms = [i \in 1 .. N |-> [buf |-> bufs[i], gso |-> 0]]
  BY <1>1 DEF singleMessages
<1>3. ms \in Seq(Message) /\ Len(ms) = N /\ \A i \in 1 .. N : ms[i] = [buf |-> bufs[i], gso |-> 0]
  <2>1. ms \in [1 .. N -> Message]
    BY <1>1, <1>2 DEF Message
  <2>2. ms \in Seq(Message)
    BY <1>1, <2>1, SeqDef
  <2> QED BY <1>1, <1>2, <2>2
<1> HIDE DEF ms
<1>4. 0 \in T
  <2>1. SubSeq(ms, 1, 0) = <<>> /\ SubSeq(bufs, 1, 0) = <<>>
    BY SubSeqEmpty
  <2>2. AllSegments(SubSeq(ms, 1, 0)) = SubSeq(bufs, 1, 0)
    BY <2>1, AllSegmentsEmpty, Zenon
  <2> QED BY <2>2
<1>5. ASSUME NEW k \in Nat, k \in T PROVE k + 1 \in T
  <2>1. SUFFICES ASSUME k + 1 <= N PROVE AllSegments(SubSeq(ms, 1, k + 1)) = SubSeq(bufs, 1, k + 1)
    OBVIOUS
  <2>2. 1 \in 1 .. N + 1 /\ k \in 1 - 1 .. N - 1 /\ k \in 1 - 1 .. N /\ k + 1 \in 1 .. N
    BY <1>1, <2>1
  <2>3. /\ SubSeq(ms, 1, k + 1) = Append(SubSeq(ms, 1, k), ms[k + 1]) /\ SubSeq(ms, 1, k) \in Seq(Message)
    BY <1>3, <2>2, SubSeqNext, SubSeqType
  <2>4. /\ SubSeq(bufs, 1, k + 1) = Append(SubSeq(bufs, 1, k), bufs[k + 1]) /\ SubSeq(bufs, 1, k) \in Seq(Buffer)
    BY <2>2, SubSeqNext, SubSeqType
  <2>5. ms[k + 1] = [buf |-> bufs[k + 1], gso |-> 0] /\ bufs[k + 1] \in Buffer
    BY <1>1, <1>3, <2>2
  <2>6. ms[k + 1] \in Message /\ Segments(ms[k + 1]) = <<bufs[k + 1]>>
    BY <2>5 DEF Message, Segments
  <2>7. AllSegments(SubSeq(ms, 1, k + 1)) = AllSegments(SubSeq(ms, 1, k)) \o Segments(ms[k + 1])
    BY <2>3, <2>6, AllSegmentsAppend
  <2>8. AllSegments(SubSeq(ms, 1, k)) = SubSeq(bufs, 1, k)
    BY <1>1, <1>5, <2>1
  <2>9. Append(SubSeq(bufs, 1, k), bufs[k + 1]) = SubSeq(bufs, 1, k) \o <<bufs[k + 1]>>
    BY <2>4, <2>5, AppendIsConcat
  <2> QED BY <2>4, <2>6, <2>7, <2>8, <2>9
<1>6. N \in T
  <2> HIDE DEF T
  <2> QED BY <1>1, <1>4, <1>5, SetInduction
<1>7. SubSeq(ms, 1, N) = ms /\ SubSeq(bufs, 1, N) = bufs
  BY <1>3, SubSeqFull
<1>8. AllSegments(SubSeq(ms, 1, N)) = SubSeq(bufs, 1, N)
  BY <1>1, <1>6
<1>9. AllSegments(ms) = bufs
  BY <1>7, <1>8, Zenon
<1> QED BY <1>3, <1>9 DEF ms

\* A message the kernel can segment and has not coalesced more datagrams into
\* than it may.
Good(m) == m.buf # <<>> /\ Len(Segments(m)) \in 1 .. MaxDatagrams

\* coalesceMessages with base as the last of its messages.
Building(front, base, g, c, e) ==
    [msgs |-> Append(front, base), gsoSize |-> g, dgramCnt |-> c, endBatch |-> e]

\* After k of the buffers.
Coalescing(bufs, k, front, base, g, c, e) ==
    /\ front \in Seq(Message) /\ \A i \in 1 .. Len(front) : Good(front[i])
    /\ base \in Message /\ base.buf # <<>>
    /\ g \in Nat \ {0} /\ c \in 1 .. MaxDatagrams /\ e \in BOOLEAN
    /\ AllSegments(front) \o Pieces(base.buf, g) = SubSeq(bufs, 1, k)
    /\ PieceCount(base.buf, g) = c
    /\ c = 1 => Pieces(base.buf, g) = <<base.buf>>
    /\ e = FALSE => Len(base.buf) = c * g
    /\ base.gso = IF k = Len(bufs) /\ c > 1 THEN g ELSE 0

CoalesceInv(bufs, k, s) ==
    \E front, base, g, c, e :
        Coalescing(bufs, k, front, base, g, c, e) /\ s = Building(front, base, g, c, e)

\* The last message of a list is replaced.
LEMMA LastReplaced ==
    ASSUME NEW front \in Seq(Message), NEW base \in Message, NEW new \in Message
    PROVE  /\ Len(Append(front, base)) = Len(front) + 1 /\ Append(front, base)[Len(front) + 1] = base
           /\ [Append(front, base) EXCEPT ![Len(front) + 1] = new] = Append(front, new)
<1> DEFINE n == Len(front)
           a == Append(front, base)
           b == Append(front, new)
           x == [a EXCEPT ![n + 1] = new]
<1>1. /\ a \in Seq(Message) /\ Len(a) = n + 1 /\ n \in Nat /\ a[n + 1] = base
      /\ \A i \in 1 .. n : a[i] = front[i]
  BY AppendProperties
<1>2. b \in Seq(Message) /\ Len(b) = n + 1 /\ b[n + 1] = new /\ \A i \in 1 .. n : b[i] = front[i]
  BY AppendProperties
<1> HIDE DEF a, b, n
<1>3. n + 1 \in 1 .. Len(a)
  BY <1>1
<1>4. x \in Seq(Message) /\ Len(x) = n + 1 /\ \A j \in 1 .. n + 1 : x[j] = IF j = n + 1 THEN new ELSE a[j]
  <2>1. /\ x \in Seq(Message) /\ Len(x) = Len(a)
        /\ \A j \in 1 .. Len(a) : x[j] = IF j = n + 1 THEN new ELSE a[j]
    BY <1>1, <1>3, ExceptSeq
  <2> HIDE DEF x
  <2> QED BY <1>1, <2>1
<1> HIDE DEF x
<1>5. ASSUME NEW j \in 1 .. n + 1 PROVE x[j] = b[j]
  <2>1. CASE j = n + 1
    BY <1>2, <1>4, <2>1
  <2>2. CASE j # n + 1
    <3>1. j \in 1 .. n
      BY <1>1, <2>2
    <3> QED BY <1>1, <1>2, <1>4, <2>2, <3>1
  <2> QED BY <2>1, <2>2
<1>6. x = b
  BY <1>2, <1>4, <1>5, SeqEqual
<1> QED BY <1>1, <1>6 DEF a, b, x, n

\* SetGSO marks the base.
LEMMA SetGSOIs ==
    ASSUME NEW front \in Seq(Message), NEW base \in Message, NEW g \in Nat, NEW c, NEW e
    PROVE  /\ [buf |-> base.buf, gso |-> g] \in Message
           /\ SetGSO(Building(front, base, g, c, e)) =
                Building(front, [buf |-> base.buf, gso |-> g], g, c, e)
<1> DEFINE s == Building(front, base, g, c, e)
           n == Len(front) + 1
           new == [buf |-> base.buf, gso |-> g]
<1>1. /\ s.msgs = Append(front, base) /\ s.gsoSize = g /\ s.dgramCnt = c /\ s.endBatch = e
      /\ s = [msgs |-> s.msgs, gsoSize |-> g, dgramCnt |-> c, endBatch |-> e]
  BY DEF Building
<1>2. new \in Message
  BY DEF Message
<1>3. Len(s.msgs) = n /\ s.msgs[n] = base /\ [s.msgs EXCEPT ![n] = new] = Append(front, new)
  <2> HIDE DEF s, new
  <2> QED BY <1>1, <1>2, LastReplaced
<1>4. [base EXCEPT !.gso = g] = new
  BY DEF Message
<1> HIDE DEF s, n, new
<1>5. SetGSO(s) = [s EXCEPT !.msgs = [s.msgs EXCEPT ![n] = [s.msgs[n] EXCEPT !.gso = g]]]
  BY <1>1, <1>3 DEF SetGSO
<1>6. SetGSO(s) = [s EXCEPT !.msgs = Append(front, new)]
  BY <1>3, <1>4, <1>5
<1>7. SetGSO(s) = [msgs |-> Append(front, new), gsoSize |-> g, dgramCnt |-> c, endBatch |-> e]
  BY <1>1, <1>6
<1> QED BY <1>2, <1>7 DEF s, new, Building

\* AppendToBase, before the last buffer.
LEMMA AppendToBaseIs ==
    ASSUME NEW front \in Seq(Message), NEW base \in Message, NEW g \in Nat, NEW c \in Int,
           NEW b \in Buffer
    PROVE  \E f :
              /\ f \in BOOLEAN /\ (f = FALSE => Len(b) >= g)
              /\ AppendToBase(Building(front, base, g, c, FALSE), b, FALSE) =
                   Building(front, [buf |-> base.buf \o b, gso |-> base.gso], g, c + 1, f)
<1> DEFINE s == Building(front, base, g, c, FALSE)
           n == Len(front) + 1
           new == [buf |-> base.buf \o b, gso |-> base.gso]
           a == AppendToBase(s, b, FALSE)
<1>1. /\ s.msgs = Append(front, base) /\ s.gsoSize = g /\ s.dgramCnt = c /\ s.endBatch = FALSE
      /\ s = [msgs |-> s.msgs, gsoSize |-> s.gsoSize, dgramCnt |-> s.dgramCnt, endBatch |-> s.endBatch]
  BY DEF Building
<1>2. new \in Message
  <2>1. base.buf \in Buffer /\ base.gso \in Nat
    BY DEF Message
  <2>2. base.buf \o b \in Buffer
    BY <2>1, ConcatProperties DEF Buffer
  <2> QED BY <2>1, <2>2 DEF Message
<1>3. Len(s.msgs) = n /\ s.msgs[n] = base /\ [s.msgs EXCEPT ![n] = new] = Append(front, new)
  <2> HIDE DEF s, new
  <2> QED BY <1>1, <1>2, LastReplaced
<1>4. [base EXCEPT !.buf = base.buf \o b] = new
  <2> DEFINE v == base.buf \o b
  <2> HIDE DEF v
  <2>1. [base EXCEPT !.buf = v] = [buf |-> v, gso |-> base.gso]
    BY DEF Message
  <2> QED BY <2>1 DEF v
<1> HIDE DEF s, n, new
<1>5. /\ a.msgs = [s.msgs EXCEPT ![n] = [s.msgs[n] EXCEPT !.buf = s.msgs[n].buf \o b]]
      /\ a.gsoSize = g /\ a.dgramCnt = c + 1
      /\ a.endBatch = (s.endBatch \/ Len(b) < s.gsoSize)
      /\ a = [msgs |-> a.msgs, gsoSize |-> a.gsoSize, dgramCnt |-> a.dgramCnt, endBatch |-> a.endBatch]
  BY <1>1, <1>3 DEF AppendToBase
<1> HIDE DEF a
<1>6. a.msgs = Append(front, new)
  BY <1>3, <1>4, <1>5
<1>7. a.endBatch \in BOOLEAN /\ (a.endBatch = FALSE => Len(b) >= g)
  <2>1. Len(b) \in Nat
    BY LenProperties DEF Buffer
  <2>2. CASE Len(b) < g
    BY <1>1, <1>5, <2>2
  <2>3. CASE ~(Len(b) < g)
    <3>1. a.endBatch = FALSE
      BY <1>1, <1>5, <2>3
    <3>2. Len(b) >= g
      BY <2>1, <2>3
    <3> QED BY <3>1, <3>2
  <2> QED BY <2>2, <2>3
<1>8. a = Building(front, new, g, c + 1, a.endBatch)
  BY <1>5, <1>6 DEF Building
<1> QED BY <1>7, <1>8 DEF s, new, a

\* What Send gets: datagrams, none of them empty.
Datagrams(bufs) == bufs \in Seq(Buffer) /\ \A i \in 1 .. Len(bufs) : bufs[i] # <<>>

\* A new base with one buffer.
LEMMA StartBase ==
    ASSUME NEW bufs, Datagrams(bufs), NEW k \in 0 .. Len(bufs) - 1,
           NEW front \in Seq(Message), \A i \in 1 .. Len(front) : Good(front[i]),
           AllSegments(front) = SubSeq(bufs, 1, k)
    PROVE  CoalesceInv(bufs, k + 1, [msgs |-> Append(front, [buf |-> bufs[k + 1], gso |-> 0]),
                                     gsoSize |-> Len(bufs[k + 1]), dgramCnt |-> 1, endBatch |-> FALSE])
<1> DEFINE b == bufs[k + 1]
           base == [buf |-> b, gso |-> 0]
           g == Len(b)
<1>1. Len(bufs) \in Nat /\ k + 1 \in 1 .. Len(bufs)
  BY LenProperties DEF Datagrams
<1>2. b \in Buffer /\ b # <<>>
  BY <1>1, LenProperties DEF Datagrams
<1>3. g \in Nat \ {0}
  BY <1>2, EmptySeq DEF Buffer
<1>4. base \in Message /\ base.buf = b /\ base.gso = 0
  BY <1>2 DEF Message
<1>5. Pieces(b, g) = <<b>> /\ PieceCount(b, g) = 1
  BY <1>2, OnePiece
<1>6. AllSegments(front) \o Pieces(b, g) = SubSeq(bufs, 1, k + 1)
  <2>1. 1 \in 1 .. Len(bufs) + 1 /\ k \in 1 - 1 .. Len(bufs) - 1 /\ k \in 1 - 1 .. Len(bufs)
    BY <1>1
  <2>2. SubSeq(bufs, 1, k + 1) = Append(SubSeq(bufs, 1, k), b) /\ SubSeq(bufs, 1, k) \in Seq(Buffer)
    BY <2>1, SubSeqNext, SubSeqType DEF Datagrams
  <2> HIDE DEF b
  <2>3. Append(SubSeq(bufs, 1, k), b) = SubSeq(bufs, 1, k) \o <<b>>
    BY <1>2, <2>2, AppendIsConcat
  <2> QED BY <1>5, <2>2, <2>3
<1>7. 1 \in 1 .. MaxDatagrams
  BY BatchAssumption
<1> HIDE DEF base, b, g
<1>8. 1 * g = Len(b)
  BY <1>3 DEF g
<1>9. Coalescing(bufs, k + 1, front, base, g, 1, FALSE)
  BY <1>2, <1>3, <1>4, <1>5, <1>6, <1>7, <1>8 DEF Coalescing
<1>10. CoalesceInv(bufs, k + 1, Building(front, base, g, 1, FALSE))
  BY <1>9 DEF CoalesceInv
<1> QED BY <1>10 DEF Building, base, b, g

\* The segments of the base.
LEMMA BaseSegments ==
    ASSUME NEW bufs, NEW k, NEW front, NEW base, NEW g, NEW c, NEW e,
           Coalescing(bufs, k, front, base, g, c, e),
           NEW m, m = [buf |-> base.buf, gso |-> IF c > 1 THEN g ELSE 0]
    PROVE  /\ m \in Message /\ Good(m)
           /\ Append(front, m) \in Seq(Message)
           /\ \A i \in 1 .. Len(Append(front, m)) : Good(Append(front, m)[i])
           /\ AllSegments(Append(front, m)) = SubSeq(bufs, 1, k)
<1> DEFINE gso == IF c > 1 THEN g ELSE 0
<1>1. /\ front \in Seq(Message) /\ (\A i \in 1 .. Len(front) : Good(front[i]))
      /\ base \in Message /\ base.buf # <<>> /\ g \in Nat \ {0} /\ c \in 1 .. MaxDatagrams
      /\ AllSegments(front) \o Pieces(base.buf, g) = SubSeq(bufs, 1, k)
      /\ PieceCount(base.buf, g) = c
      /\ (c = 1 => Pieces(base.buf, g) = <<base.buf>>)
  BY DEF Coalescing
<1>2. base.buf \in Buffer /\ MaxDatagrams \in Nat
  BY <1>1, BatchAssumption DEF Message
<1>3. m \in Message /\ m.buf = base.buf /\ m.gso = gso
  BY <1>1, <1>2 DEF Message
<1>4. Segments(m) = Pieces(base.buf, g)
  <2>1. CASE c > 1
    BY <1>1, <1>3, <2>1 DEF Segments
  <2>2. CASE ~(c > 1)
    <3>1. c = 1
      BY <1>1, <1>2, <2>2
    <3> QED BY <1>1, <1>3, <2>2, <3>1 DEF Segments
  <2> QED BY <2>1, <2>2
<1>5. Len(Segments(m)) = c
  BY <1>1, <1>2, <1>4, PiecesType
<1>6. Good(m)
  BY <1>1, <1>3, <1>5 DEF Good
<1> DEFINE f == Append(front, m)
<1>7. /\ f \in Seq(Message) /\ Len(f) = Len(front) + 1 /\ f[Len(front) + 1] = m /\ Len(front) \in Nat
      /\ \A i \in 1 .. Len(front) : f[i] = front[i]
  BY <1>1, <1>3, AppendProperties
<1>8. AllSegments(f) = SubSeq(bufs, 1, k)
  BY <1>1, <1>3, <1>4, AllSegmentsAppend
<1> HIDE DEF f
<1>9. ASSUME NEW i \in 1 .. Len(f) PROVE Good(f[i])
  <2>1. CASE i = Len(front) + 1
    BY <1>6, <1>7, <2>1
  <2>2. CASE i # Len(front) + 1
    <3>1. i \in 1 .. Len(front)
      BY <1>7, <2>2
    <3> QED BY <1>1, <1>7, <3>1
  <2> QED BY <2>1, <2>2
<1> QED BY <1>3, <1>6, <1>7, <1>8, <1>9 DEF f

\* The buffer fits: it becomes the next datagram of the base.
LEMMA CoalesceMore ==
    ASSUME NEW bufs, Datagrams(bufs), NEW k \in 1 .. Len(bufs) - 1,
           NEW front, NEW base, NEW g, NEW c, NEW e,
           Coalescing(bufs, k, front, base, g, c, e),
           Fits(Building(front, base, g, c, e), bufs[k + 1])
    PROVE  CoalesceInv(bufs, k + 1, AppendToBase(Building(front, base, g, c, e), bufs[k + 1],
                                                 k + 1 = Len(bufs)))
<1> DEFINE b == bufs[k + 1]
           last == k + 1 = Len(bufs)
           gso == IF last THEN g ELSE base.gso
           new == [buf |-> base.buf \o b, gso |-> gso]
<1>1. /\ front \in Seq(Message) /\ (\A i \in 1 .. Len(front) : Good(front[i]))
      /\ base \in Message /\ base.buf # <<>> /\ g \in Nat \ {0} /\ c \in 1 .. MaxDatagrams /\ e \in BOOLEAN
      /\ AllSegments(front) \o Pieces(base.buf, g) = SubSeq(bufs, 1, k)
      /\ PieceCount(base.buf, g) = c
      /\ (e = FALSE => Len(base.buf) = c * g)
      /\ base.gso = IF k = Len(bufs) /\ c > 1 THEN g ELSE 0
  BY DEF Coalescing
<1>2. Len(bufs) \in Nat /\ k + 1 \in 1 .. Len(bufs) /\ k \in Nat /\ k # Len(bufs) /\ MaxDatagrams \in Nat
  BY LenProperties, BatchAssumption DEF Datagrams
<1>3. b \in Buffer /\ b # <<>> /\ Len(b) \in Nat \ {0}
  <2>1. b \in Buffer /\ b # <<>>
    BY <1>2, LenProperties DEF Datagrams
  <2> QED BY <2>1, EmptySeq DEF Buffer
<1>4. base.buf \in Buffer /\ base.gso = 0
  BY <1>1, <1>2 DEF Message
<1> HIDE DEF b
<1>5. Len(b) <= g /\ c < MaxDatagrams /\ e = FALSE
  BY <1>1 DEF Fits, Building, b
<1>6. PICK f :
         /\ f \in BOOLEAN /\ (f = FALSE => Len(b) >= g)
         /\ AppendToBase(Building(front, base, g, c, e), b, last) = Building(front, new, g, c + 1, f)
  <2> DEFINE s == Building(front, base, g, c, FALSE)
             m == [buf |-> base.buf \o b, gso |-> base.gso]
             a == AppendToBase(s, b, FALSE)
  <2>1. s = Building(front, base, g, c, e)
    BY <1>1, <1>5
  <2>2. g \in Nat
    BY <1>1
  <2>3. PICK f : f \in BOOLEAN /\ (f = FALSE => Len(b) >= g) /\ a = Building(front, m, g, c + 1, f)
    <3>1. front \in Seq(Message) /\ base \in Message /\ g \in Nat /\ c \in Int /\ b \in Buffer
      BY <1>1, <1>2, <1>3, <2>2
    <3> QED BY ONLY <3>1, AppendToBaseIs
  <2>4. AppendToBase(s, b, last) = IF last THEN SetGSO(a) ELSE a
    BY DEF AppendToBase
  <2>5. m \in Message /\ m.buf = base.buf \o b /\ m.gso = base.gso
    <3> DEFINE v == base.buf \o b
    <3>1. v \in Buffer
      BY <1>3, <1>4, ConcatProperties DEF Buffer
    <3> HIDE DEF v
    <3>2. [buf |-> v, gso |-> base.gso] \in Message
      BY <1>4, <3>1 DEF Message
    <3> QED BY <3>2 DEF v
  <2> HIDE DEF m, s, a, last
  <2>6. SetGSO(a) = Building(front, [buf |-> m.buf, gso |-> g], g, c + 1, f)
    <3> DEFINE d == c + 1
    <3> HIDE DEF d
    <3>1. SetGSO(Building(front, m, g, d, f)) = Building(front, [buf |-> m.buf, gso |-> g], g, d, f)
      <4>1. front \in Seq(Message) /\ m \in Message /\ g \in Nat
        BY <1>1, <2>2, <2>5
      <4> QED BY ONLY <4>1, SetGSOIs
    <3> QED BY <2>3, <3>1 DEF d
  <2>7. CASE last
    BY <2>1, <2>3, <2>4, <2>5, <2>6, <2>7
  <2>8. CASE ~last
    BY <2>1, <2>3, <2>4, <2>5, <2>8 DEF m
  <2> QED BY <2>7, <2>8
<1>7. /\ Pieces(base.buf \o b, g) = Append(Pieces(base.buf, g), b)
      /\ PieceCount(base.buf \o b, g) = c + 1
  <2>1. Len(b) \in 1 .. g /\ c \in Nat /\ Len(base.buf) = c * g
    BY <1>1, <1>2, <1>3, <1>5
  <2> DEFINE v == base.buf
  <2>2. v \in Buffer /\ Len(v) = c * g
    BY <1>4, <2>1
  <2> HIDE DEF v
  <2>3. /\ Pieces(v \o b, g) = Append(Pieces(v, g), b)
        /\ PieceCount(v \o b, g) = c + 1
    BY ONLY <1>1, <1>3, <2>1, <2>2, PieceMore
  <2> QED BY <2>3 DEF v
<1>8. base.buf \o b \in Buffer /\ Len(base.buf \o b) = Len(base.buf) + Len(b) /\ base.buf \o b # <<>>
  <2>1. base.buf \o b \in Buffer /\ Len(base.buf \o b) = Len(base.buf) + Len(b)
    BY <1>3, <1>4, ConcatProperties DEF Buffer
  <2>2. Len(base.buf) \in Nat
    BY <1>4, LenProperties DEF Buffer
  <2>3. Len(base.buf \o b) # 0
    BY <1>3, <2>1, <2>2
  <2> QED BY <2>1, <2>3, EmptySeq
<1>9. new \in Message /\ new.buf = base.buf \o b /\ new.gso = gso
  <2> DEFINE v == base.buf \o b
  <2> HIDE DEF v
  <2>1. gso \in Nat
    BY <1>1, <1>4
  <2>2. [buf |-> v, gso |-> gso] \in Message
    BY <1>8, <2>1 DEF v, Message
  <2> QED BY <2>2 DEF v
<1>10. AllSegments(front) \o Pieces(base.buf \o b, g) = SubSeq(bufs, 1, k + 1)
  <2> DEFINE x == AllSegments(front)
             p == Pieces(base.buf, g)
             y == SubSeq(bufs, 1, k)
  <2>1. 1 \in 1 .. Len(bufs) + 1 /\ k \in 1 - 1 .. Len(bufs) - 1 /\ k \in 1 - 1 .. Len(bufs)
    BY <1>2
  <2>2. SubSeq(bufs, 1, k + 1) = Append(y, b) /\ y \in Seq(Buffer)
    BY <2>1, SubSeqNext, SubSeqType DEF Datagrams, b
  <2>3. x \in Seq(Buffer) /\ p \in Seq(Buffer)
    BY <1>1, <1>4, AllSegmentsType, PiecesType
  <2>4. x \o p = y
    BY <1>1
  <2> HIDE DEF x, p, y
  <2>5. Append(y, b) = y \o <<b>> /\ Append(p, b) = p \o <<b>> /\ <<b>> \in Seq(Buffer)
    BY <1>3, <2>2, <2>3, AppendIsConcat
  <2>6. (x \o p) \o <<b>> = x \o (p \o <<b>>)
    <3> DEFINE t == <<b>>
    <3>1. t \in Seq(Buffer)
      BY <2>5
    <3> HIDE DEF t
    <3>2. (x \o p) \o t = x \o (p \o t)
      BY ONLY <2>3, <3>1, ConcatAssociative, SMTT(30)
    <3> QED BY <3>2 DEF t
  <2>7. x \o Append(p, b) = Append(y, b)
    BY <2>4, <2>5, <2>6
  <2> QED BY <1>7, <2>2, <2>7 DEF x, p
<1>11. c + 1 \in 1 .. MaxDatagrams /\ c + 1 # 1 /\ c + 1 > 1
  BY <1>1, <1>2, <1>5
<1>12. f = FALSE => Len(base.buf \o b) = (c + 1) * g
  <2>1. (c + 1) * g = c * g + g
    <3>1. c \in Nat
      BY <1>1, <1>2
    <3> QED BY <1>1, <3>1
  <2>2. f = FALSE => Len(b) = g
    BY <1>1, <1>3, <1>5, <1>6
  <2>3. Len(base.buf) = c * g /\ Len(base.buf) \in Nat
    BY <1>1, <1>4, <1>5, LenProperties DEF Buffer
  <2> QED BY <1>1, <1>3, <1>8, <2>1, <2>2, <2>3
<1>13. gso = IF k + 1 = Len(bufs) /\ c + 1 > 1 THEN g ELSE 0
  BY <1>4, <1>11
<1> HIDE DEF new, gso
<1>14. Coalescing(bufs, k + 1, front, new, g, c + 1, f)
  <2> DEFINE d == c + 1
             v == base.buf \o b
             m == k + 1
  <2>1. d \in 1 .. MaxDatagrams /\ d # 1
    BY <1>11
  <2>2. new.gso = IF m = Len(bufs) /\ d > 1 THEN g ELSE 0
    BY <1>9, <1>13
  <2>3. PieceCount(v, g) = d
    BY <1>7
  <2>4. AllSegments(front) \o Pieces(v, g) = SubSeq(bufs, 1, m)
    BY <1>10
  <2>5. new \in Message /\ new.buf = v /\ v # <<>>
    BY <1>8, <1>9
  <2>6. f = FALSE => Len(v) = d * g
    BY <1>12
  <2>7. f \in BOOLEAN
    BY <1>6
  <2> HIDE DEF d, v, m
  <2>8. Coalescing(bufs, m, front, new, g, d, f)
    BY <1>1, <2>1, <2>2, <2>3, <2>4, <2>5, <2>6, <2>7 DEF Coalescing
  <2> QED BY <2>8 DEF d, m
<1>15. CoalesceInv(bufs, k + 1, Building(front, new, g, c + 1, f))
  BY <1>14 DEF CoalesceInv
<1> QED BY <1>6, <1>15 DEF b

\* It does not: it starts a message of its own.
LEMMA CoalesceNew ==
    ASSUME NEW bufs, Datagrams(bufs), NEW k \in 1 .. Len(bufs) - 1,
           NEW front, NEW base, NEW g, NEW c, NEW e,
           Coalescing(bufs, k, front, base, g, c, e)
    PROVE  CoalesceInv(bufs, k + 1, NewBase(Building(front, base, g, c, e), bufs[k + 1]))
<1> DEFINE s == Building(front, base, g, c, e)
           gso == IF c > 1 THEN g ELSE 0
           m == [buf |-> base.buf, gso |-> gso]
           a == IF s.dgramCnt > 1 THEN SetGSO(s) ELSE s
<1>1. /\ front \in Seq(Message) /\ base \in Message /\ g \in Nat \ {0} /\ e \in BOOLEAN
      /\ base.gso = IF k = Len(bufs) /\ c > 1 THEN g ELSE 0
  BY DEF Coalescing
<1>2. Len(bufs) \in Nat /\ k # Len(bufs) /\ k \in 0 .. Len(bufs) - 1
  BY LenProperties DEF Datagrams
<1>3. base.gso = 0
  BY <1>1, <1>2
<1>4. a.msgs = Append(front, m)
  <2>0. s.dgramCnt = c /\ s.msgs = Append(front, base)
    BY DEF Building
  <2>1. CASE c > 1
    <3>1. SetGSO(s) = Building(front, [buf |-> base.buf, gso |-> g], g, c, e)
      BY <1>1, SetGSOIs
    <3>2. SetGSO(s).msgs = Append(front, [buf |-> base.buf, gso |-> g])
      <4> HIDE DEF s
      <4> QED BY <3>1 DEF Building
    <3> HIDE DEF s
    <3> QED BY <2>0, <2>1, <3>2
  <2>2. CASE ~(c > 1)
    <3>1. base = m
      BY <1>1, <1>3, <2>2 DEF Message
    <3> HIDE DEF s, m
    <3> QED BY <2>0, <2>2, <3>1
  <2> QED BY <2>1, <2>2
<1>5. /\ Append(front, m) \in Seq(Message)
      /\ \A i \in 1 .. Len(Append(front, m)) : Good(Append(front, m)[i])
      /\ AllSegments(Append(front, m)) = SubSeq(bufs, 1, k)
  <2>1. m = [buf |-> base.buf, gso |-> IF c > 1 THEN g ELSE 0]
    OBVIOUS
  <2> HIDE DEF m
  <2> QED BY <2>1, BaseSegments
<1> DEFINE f == Append(front, m)
<1>6. NewBase(s, bufs[k + 1]) = [msgs |-> Append(a.msgs, [buf |-> bufs[k + 1], gso |-> 0]),
                                 gsoSize |-> Len(bufs[k + 1]), dgramCnt |-> 1, endBatch |-> FALSE]
  BY DEF NewBase
<1> HIDE DEF f, a, s
<1> QED BY <1>2, <1>4, <1>5, <1>6, StartBase DEF f, s

\* coalesceMessages loses, changes and reorders nothing: the segments of the
\* messages it makes are the buffers it gets, and each message is one that
\* the kernel may segment.
LEMMA Coalesce ==
    ASSUME NEW bufs, Datagrams(bufs)
    PROVE  /\ coalesceMessages(bufs) \in Seq(Message)
           /\ AllSegments(coalesceMessages(bufs)) = bufs
           /\ \A i \in 1 .. Len(coalesceMessages(bufs)) : Good(coalesceMessages(bufs)[i])
<1> DEFINE N == Len(bufs)
<1>1. N \in Nat /\ DOMAIN bufs = 1 .. N /\ bufs \in Seq(Buffer)
  BY LenProperties DEF Datagrams
<1>2. PICK r : Runs("coalesce", bufs, Started, Places(N), N, r) /\ coalesceMessages(bufs) = r.msgs
  BY <1>1, CoalesceRuns
<1>3. PICK w : /\ w[0] = Started /\ w[N] = r
               /\ \A k \in 0 .. N - 1 : w[k + 1] = Round("coalesce", bufs, w[k], k + 1)
  BY <1>1, <1>2, PlaceRounds
<1>4. CASE N = 0
  <2>1. bufs = <<>>
    BY <1>1, <1>4, EmptySeq
  <2>2. coalesceMessages(bufs) = <<>>
    BY <1>2, <1>3, <1>4 DEF Started
  <2>3. <<>> \in Seq(Message) /\ Len(<<>>) = 0
    BY EmptySeq
  <2> DEFINE ms == coalesceMessages(bufs)
  <2> HIDE DEF ms
  <2>4. ms = <<>>
    BY <2>2 DEF ms
  <2>5. ms \in Seq(Message) /\ \A i \in 1 .. Len(ms) : Good(ms[i])
    BY <2>3, <2>4
  <2>6. AllSegments(ms) = bufs
    BY <2>1, <2>4, AllSegmentsEmpty, Zenon
  <2> QED BY <2>5, <2>6 DEF ms
<1>5. CASE N # 0
  <2> DEFINE T == {n \in Nat : n + 1 <= N => CoalesceInv(bufs, n + 1, w[n + 1])}
  <2>1. 0 \in T
    <3>1. w[1] = NewBase(Started, bufs[1])
      <4>1. w[0 + 1] = Round("coalesce", bufs, w[0], 0 + 1)
        BY <1>1, <1>3, <1>5
      <4>2. w[1] = Add(bufs, Started, 1)
        BY <1>3, <4>1 DEF Round
      <4> QED BY <4>2 DEF Add
    <3>2. NewBase(Started, bufs[1]) = [msgs |-> Append(<<>>, [buf |-> bufs[1], gso |-> 0]),
                                       gsoSize |-> Len(bufs[1]), dgramCnt |-> 1, endBatch |-> FALSE]
      BY DEF NewBase, Started
    <3>3. <<>> \in Seq(Message) /\ Len(<<>>) = 0
      BY EmptySeq
    <3>4. AllSegments(<<>>) = SubSeq(bufs, 1, 0)
      <4>1. SubSeq(bufs, 1, 0) = <<>>
        BY SubSeqEmpty
      <4> QED BY <4>1, AllSegmentsEmpty, Zenon
    <3>5. 0 \in 0 .. Len(bufs) - 1 /\ \A i \in 1 .. Len(<<>>) : Good((<<>>)[i])
      BY <1>1, <1>5, <3>3
    <3>6. CoalesceInv(bufs, 0 + 1, [msgs |-> Append(<<>>, [buf |-> bufs[0 + 1], gso |-> 0]),
                                    gsoSize |-> Len(bufs[0 + 1]), dgramCnt |-> 1, endBatch |-> FALSE])
      BY ONLY Datagrams(bufs), <3>3, <3>4, <3>5, StartBase
    <3> QED BY <3>1, <3>2, <3>6
  <2>2. ASSUME NEW n \in Nat, n \in T PROVE n + 1 \in T
    <3> DEFINE k == n + 1
    <3>1. SUFFICES ASSUME k + 1 <= N PROVE CoalesceInv(bufs, k + 1, w[k + 1])
      OBVIOUS
    <3>2. CoalesceInv(bufs, k, w[k])
      BY <1>1, <2>2, <3>1
    <3>3. k \in 1 .. Len(bufs) - 1 /\ k \in 0 .. N - 1 /\ k + 1 > 1
      BY <1>1, <3>1
    <3> HIDE DEF k
    <3>4. PICK front, base, g, c, e :
             Coalescing(bufs, k, front, base, g, c, e) /\ w[k] = Building(front, base, g, c, e)
      BY <3>2 DEF CoalesceInv
    <3>5. w[k + 1] = Add(bufs, w[k], k + 1)
      BY <1>3, <3>3 DEF Round
    <3>6. CASE Fits(w[k], bufs[k + 1])
      BY <3>3, <3>4, <3>5, <3>6, CoalesceMore DEF Add
    <3>7. CASE ~Fits(w[k], bufs[k + 1])
      BY <3>3, <3>4, <3>5, <3>7, CoalesceNew DEF Add
    <3> QED BY <3>6, <3>7
  <2>3. N - 1 \in Nat
    BY <1>1, <1>5
  <2>4. N - 1 \in T
    <3> HIDE DEF T
    <3> QED BY <2>1, <2>2, <2>3, SetInduction
  <2>5. CoalesceInv(bufs, N, w[N])
    <3>1. (N - 1) + 1 = N
      BY <1>1
    <3> QED BY <1>1, <2>4, <3>1
  <2>6. PICK front, base, g, c, e :
           Coalescing(bufs, N, front, base, g, c, e) /\ r = Building(front, base, g, c, e)
    BY <1>3, <2>5 DEF CoalesceInv
  <2>7. r.msgs = Append(front, base)
    BY <2>6 DEF Building
  <2>8. base.gso = (IF c > 1 THEN g ELSE 0) /\ base = [buf |-> base.buf, gso |-> base.gso]
    BY <2>6 DEF Coalescing, Message
  <2>9. /\ Append(front, base) \in Seq(Message)
        /\ \A i \in 1 .. Len(Append(front, base)) : Good(Append(front, base)[i])
        /\ AllSegments(Append(front, base)) = SubSeq(bufs, 1, N)
    <3>1. base = [buf |-> base.buf, gso |-> IF c > 1 THEN g ELSE 0]
      BY <2>8
    <3> HIDE DEF N
    <3> QED BY <2>6, <3>1, BaseSegments
  <2>10. SubSeq(bufs, 1, N) = bufs
    BY <1>1, SubSeqFull
  <2> HIDE DEF N
  <2> QED BY <1>2, <2>7, <2>9, <2>10
<1> QED BY <1>4, <1>5

-----------------------------------------------------------------------------
(* Splitting *)

\* The places that are read into.
Room == BatchSize \div MaxDatagrams

\* There are places in front of the ones that are read into for every piece.
LEMMA RoomFacts ==
    /\ Room \in Nat \ {0} /\ MaxDatagrams \in Nat \ {0} /\ BatchSize = Room * MaxDatagrams
    /\ readAt = BatchSize - Room + 1 /\ readAt \in 1 .. BatchSize
    /\ \A u \in 1 .. Room : u * MaxDatagrams <= BatchSize - Room + u
<1> DEFINE D == MaxDatagrams
           B == BatchSize
           M == Room
<1>1. D \in Nat \ {0} /\ B \in Nat \ {0} /\ B % D = 0 /\ M = B \div D
  BY BatchAssumption DEF Room
<1>2. readAt = B - M + 1
  BY DEF readAt, Room
<1> HIDE DEF D, B, M
<1>3. M \in Nat /\ B = M * D
  <2>1. B \div D \in Nat /\ B = (B \div D) * D + (B % D)
    BY <1>1
  <2>2. (B \div D) * D \in Nat
    BY <1>1, <2>1
  <2> QED BY <1>1, <2>1, <2>2
<1>4. M # 0
  <2>1. M = 0 => M * D = 0
    BY <1>1
  <2> QED BY <1>1, <1>3, <2>1
<1>5. M * D >= M
  <2>1. M * (D - 1) = M * D - M
    BY <1>1, <1>3
  <2>2. M * (D - 1) \in Nat
    <3>1. D - 1 \in Nat
      BY <1>1
    <3> QED BY <1>3, <3>1
  <2> QED BY <1>3, <2>1, <2>2
<1>6. ASSUME NEW u \in 1 .. M PROVE u * D <= B - M + u
  <2>1. (M - u) * (D - 1) = M * D - M - u * D + u
    BY <1>1, <1>3
  <2>2. (M - u) * (D - 1) \in Nat
    <3>1. D - 1 \in Nat /\ M - u \in Nat
      BY <1>1, <1>3
    <3> QED BY <3>1
  <2>3. u * D \in Nat
    BY <1>1, <1>3
  <2> QED BY <1>3, <2>1, <2>2, <2>3
<1>7. readAt \in 1 .. B
  BY <1>1, <1>2, <1>3, <1>4, <1>5
<1> QED BY <1>1, <1>2, <1>3, <1>4, <1>6, <1>7 DEF D, B, M

\* A state of the loops of splitCoalescedMessages.
SplitState(s) ==
    /\ s = [msgs |-> s.msgs, n |-> s.n, err |-> s.err, done |-> s.done]
    /\ s.msgs = [j \in 1 .. BatchSize |-> s.msgs[j]]

\* After j pieces of the message at place i, from s.
Copying(s, i, pieces, j, t) ==
    /\ SplitState(t) /\ t.n = s.n + j /\ t.err = FALSE /\ t.done = s.done
    /\ \A x \in 1 .. s.n : t.msgs[x] = s.msgs[x]
    /\ \A x \in 1 .. j : t.msgs[s.n + x].buf = pieces[x]
    /\ \A x \in 1 .. BatchSize : x > i => t.msgs[x] = s.msgs[x]

\* One piece more.
LEMMA CopyStep ==
    ASSUME NEW s, s.n \in Nat, NEW i \in 1 .. BatchSize, NEW pieces, NEW j \in Nat,
           s.n + j + 1 <= i,
           NEW t, Copying(s, i, pieces, j, t)
    PROVE  Copying(s, i, pieces, j + 1, Copy([pieces |-> pieces, i |-> i], t, j + 1))
<1> DEFINE p == [pieces |-> pieces, i |-> i]
           u == Copy(p, t, j + 1)
           y == s.n + j + 1
           m == [buf |-> pieces[j + 1], gso |-> 0]
<1>0. BatchSize \in Nat
  BY BatchAssumption
<1>1. /\ SplitState(t) /\ t.n = s.n + j /\ t.err = FALSE /\ t.done = s.done
      /\ \A x \in 1 .. s.n : t.msgs[x] = s.msgs[x]
      /\ \A x \in 1 .. j : t.msgs[s.n + x].buf = pieces[x]
      /\ \A x \in 1 .. BatchSize : x > i => t.msgs[x] = s.msgs[x]
  BY DEF Copying
<1>2. y \in 1 .. BatchSize /\ y <= i /\ t.n + 1 = y
  BY <1>0, <1>1
<1>3. m.buf = pieces[j + 1]
  OBVIOUS
<1>4. u = [t EXCEPT !.msgs[t.n + 1] = m, !.n = @ + 1]
  <2>1. p.i = i /\ p.pieces = pieces
    OBVIOUS
  <2>2. ~Overflows(t.n + 1, i)
    BY <1>0, <1>2 DEF Overflows
  <2> HIDE DEF p
  <2> QED BY <1>1, <2>1, <2>2 DEF Copy
<1> HIDE DEF u, m, y
<1>5. u = [t EXCEPT !.msgs = [t.msgs EXCEPT ![y] = m], !.n = y]
  BY <1>2, <1>4
<1>6. /\ u = [msgs |-> u.msgs, n |-> u.n, err |-> u.err, done |-> u.done]
      /\ u.n = y /\ u.err = FALSE /\ u.done = s.done
      /\ u.msgs = [t.msgs EXCEPT ![y] = m]
  BY <1>1, <1>5 DEF SplitState
<1>7. /\ u.msgs = [x \in 1 .. BatchSize |-> u.msgs[x]]
      /\ \A x \in 1 .. BatchSize : u.msgs[x] = IF x = y THEN m ELSE t.msgs[x]
  BY <1>1, <1>2, <1>6 DEF SplitState
<1>8. SplitState(u)
  BY <1>6, <1>7 DEF SplitState
<1>9. y = s.n + (j + 1)
  BY DEF y
<1>10. \A x \in 1 .. s.n : u.msgs[x] = s.msgs[x]
  <2>1. \A x \in 1 .. s.n : x \in 1 .. BatchSize /\ x # y
    BY <1>0, <1>2 DEF y
  <2> QED BY <1>1, <1>7, <2>1
<1>11. ASSUME NEW x \in 1 .. j + 1 PROVE u.msgs[s.n + x].buf = pieces[x]
  <2>1. CASE x = j + 1
    <3>1. s.n + x = y
      BY <2>1, <1>9
    <3> QED BY <1>2, <1>3, <1>7, <2>1, <3>1
  <2>2. CASE x # j + 1
    <3>1. x \in 1 .. j /\ s.n + x # y /\ s.n + x \in 1 .. BatchSize
      BY <1>0, <1>2, <1>9, <2>2
    <3> QED BY <1>1, <1>7, <3>1
  <2> QED BY <2>1, <2>2
<1>12. \A x \in 1 .. BatchSize : x > i => u.msgs[x] = s.msgs[x]
  BY <1>0, <1>1, <1>2, <1>7
<1>13. Copying(s, i, pieces, j + 1, u)
  BY <1>6, <1>8, <1>9, <1>10, <1>11, <1>12 DEF Copying
<1> QED BY <1>13 DEF u

\* splitMessage puts the pieces behind the ones that are there, if they all
\* fit before the end of the message they come from.
LEMMA SplitMessageIs ==
    ASSUME NEW s, SplitState(s), s.n \in Nat, s.err = FALSE,
           NEW i \in 1 .. BatchSize, NEW np \in Nat,
           s.msgs[i] \in Message, Len(Segments(s.msgs[i])) = np, s.n + np <= i
    PROVE  LET a == splitMessage(s, i)
           IN /\ SplitState(a) /\ a.n = s.n + np /\ a.err = FALSE /\ a.done = s.done
              /\ \A x \in 1 .. s.n : a.msgs[x] = s.msgs[x]
              /\ \A x \in 1 .. np : a.msgs[s.n + x].buf = Segments(s.msgs[i])[x]
              /\ \A x \in 1 .. BatchSize : x > i => a.msgs[x] = s.msgs[x]
<1> DEFINE pieces == Segments(s.msgs[i])
           p == [pieces |-> pieces, i |-> i]
           a == splitMessage(s, i)
<1>0. BatchSize \in Nat
  BY BatchAssumption
<1>1. DOMAIN pieces = 1 .. np
  BY SegmentsType, LenProperties
<1>2. PICK r : /\ Runs("copy", p, s, Places(np), np, r)
               /\ a = IF ~r.err /\ r.n # i THEN [r EXCEPT !.msgs[i] = EmptyMessage] ELSE r
  BY <1>1, SplitMessageRuns
<1>3. PICK w : /\ w[0] = s /\ w[np] = r
               /\ \A k \in 0 .. np - 1 : w[k + 1] = Round("copy", p, w[k], k + 1)
  <2> HIDE DEF p
  <2>1. Runs("copy", p, s, Places(np), np, r)
    BY <1>2
  <2> QED BY ONLY <2>1, np \in Nat, PlaceRounds
<1> HIDE DEF pieces, a
<1> DEFINE T == {j \in Nat : j <= np => Copying(s, i, pieces, j, w[j])}
<1>4. 0 \in T
  BY <1>3 DEF Copying
<1>5. ASSUME NEW j \in Nat, j \in T PROVE j + 1 \in T
  <2>1. SUFFICES ASSUME j + 1 <= np PROVE Copying(s, i, pieces, j + 1, w[j + 1])
    OBVIOUS
  <2>2. Copying(s, i, pieces, j, w[j]) /\ j \in 0 .. np - 1 /\ s.n + j + 1 <= i
    BY <1>5, <2>1
  <2>3. w[j + 1] = Copy(p, w[j], j + 1)
    BY <1>3, <2>2 DEF Round
  <2> QED BY <2>2, <2>3, CopyStep
<1>6. np \in T
  <2> HIDE DEF T
  <2> QED BY <1>4, <1>5, SetInduction
<1>7. Copying(s, i, pieces, np, r)
  BY <1>3, <1>6
<1>8. /\ SplitState(r) /\ r.n = s.n + np /\ r.err = FALSE /\ r.done = s.done
      /\ \A x \in 1 .. s.n : r.msgs[x] = s.msgs[x]
      /\ \A x \in 1 .. np : r.msgs[s.n + x].buf = pieces[x]
      /\ \A x \in 1 .. BatchSize : x > i => r.msgs[x] = s.msgs[x]
  BY <1>7 DEF Copying
<1>9. CASE r.n = i
  BY <1>2, <1>8, <1>9 DEF a, pieces
<1>10. CASE r.n # i
  <2>1. a = [r EXCEPT !.msgs = [r.msgs EXCEPT ![i] = EmptyMessage]]
    BY <1>2, <1>8, <1>10
  <2>2. /\ a = [msgs |-> a.msgs, n |-> a.n, err |-> a.err, done |-> a.done]
        /\ a.n = s.n + np /\ a.err = FALSE /\ a.done = s.done
        /\ a.msgs = [r.msgs EXCEPT ![i] = EmptyMessage]
    BY <1>8, <2>1 DEF SplitState
  <2>3. /\ a.msgs = [x \in 1 .. BatchSize |-> a.msgs[x]]
        /\ \A x \in 1 .. BatchSize : x # i => a.msgs[x] = r.msgs[x]
    BY <1>8, <2>2 DEF SplitState
  <2>4. SplitState(a)
    BY <2>2, <2>3 DEF SplitState
  <2>5. \A x \in 1 .. s.n : a.msgs[x] = s.msgs[x]
    <3>1. \A x \in 1 .. s.n : x \in 1 .. BatchSize /\ x # i
      BY <1>0, <1>8, <1>10
    <3> QED BY <1>8, <2>3, <3>1
  <2>6. \A x \in 1 .. np : a.msgs[s.n + x].buf = pieces[x]
    <3>1. \A x \in 1 .. np : s.n + x \in 1 .. BatchSize /\ s.n + x # i
      BY <1>0, <1>8, <1>10
    <3> QED BY <1>8, <2>3, <3>1
  <2>7. \A x \in 1 .. BatchSize : x > i => a.msgs[x] = s.msgs[x]
    BY <1>0, <1>8, <2>3
  <2> QED BY <2>2, <2>4, <2>5, <2>6, <2>7 DEF a, pieces
<1> QED BY <1>9, <1>10

\* After the first k places of a batch that has messages ms in its last places,
\* the first q of them are split.
Splitting(ms, k, q, s) ==
    /\ SplitState(s) /\ s.err = FALSE /\ s.done \in BOOLEAN
    /\ s.n = Len(AllSegments(SubSeq(ms, 1, q))) /\ s.n <= q * MaxDatagrams
    /\ \A x \in 1 .. s.n : s.msgs[x].buf = AllSegments(SubSeq(ms, 1, q))[x]
    /\ \A x \in 1 .. BatchSize : x > k => s.msgs[x] = ReadBatch(ms)[x]
    /\ q \in 0 .. Len(ms)
    /\ \A x \in 1 .. q : ms[x].buf # <<>>
    /\ IF s.done = TRUE THEN (q < Len(ms) => ms[q + 1].buf = <<>>) /\ k >= readAt
       ELSE q = IF k < readAt THEN 0 ELSE k - readAt + 1

SplitInv(ms, k, s) == \E q : Splitting(ms, k, q, s)

\* Messages a system call may read.
Readable(ms) ==
    /\ ms \in Seq(Message) /\ Len(ms) <= Room
    /\ \A i \in 1 .. Len(ms) : ms[i].buf # <<>> => Good(ms[i])

\* A place that nothing is read into, or a batch that is over.
LEMMA SplitIdle ==
    ASSUME NEW ms, Readable(ms), NEW k \in 0 .. BatchSize - 1, NEW q, NEW s,
           Splitting(ms, k, q, s), s.done = TRUE \/ k + 1 < readAt
    PROVE  SplitInv(ms, k + 1, Split(s, k + 1))
<1>1. Split(s, k + 1) = s
  BY DEF Split
<1>2. readAt \in Int /\ k \in Int /\ BatchSize \in Nat
  BY RoomFacts, BatchAssumption
<1>3. \A x \in 1 .. BatchSize : x > k + 1 => s.msgs[x] = ReadBatch(ms)[x]
  BY <1>2 DEF Splitting
<1>4. IF s.done = TRUE THEN (q < Len(ms) => ms[q + 1].buf = <<>>) /\ k + 1 >= readAt
      ELSE q = IF k + 1 < readAt THEN 0 ELSE k + 1 - readAt + 1
  BY <1>2 DEF Splitting
<1> DEFINE i == k + 1
<1> HIDE DEF i
<1>5. Splitting(ms, i, q, s)
  BY <1>3, <1>4 DEF Splitting, i
<1>6. SplitInv(ms, i, s)
  BY <1>5 DEF SplitInv
<1> QED BY <1>1, <1>6 DEF i

\* A place that is read into.
LEMMA SplitPlace ==
    ASSUME NEW ms, Readable(ms), NEW k \in 0 .. BatchSize - 1, NEW q, NEW s,
           Splitting(ms, k, q, s), s.done # TRUE, ~(k + 1 < readAt)
    PROVE  SplitInv(ms, k + 1, Split(s, k + 1))
<1> DEFINE i == k + 1
           P == AllSegments(SubSeq(ms, 1, q))
<1>1. /\ SplitState(s) /\ s.err = FALSE /\ s.done = FALSE
      /\ s.n = Len(P) /\ s.n <= q * MaxDatagrams
      /\ \A x \in 1 .. s.n : s.msgs[x].buf = P[x]
      /\ \A x \in 1 .. BatchSize : x > k => s.msgs[x] = ReadBatch(ms)[x]
      /\ q \in 0 .. Len(ms)
      /\ q = IF k < readAt THEN 0 ELSE k - readAt + 1
      /\ \A x \in 1 .. q : ms[x].buf # <<>>
  BY DEF Splitting
<1>2. /\ readAt \in Int /\ k \in Int /\ BatchSize \in Nat /\ Len(ms) \in Nat /\ ms \in Seq(Message)
      /\ Len(ms) <= Room /\ Room \in Nat /\ readAt = BatchSize - Room + 1
  BY RoomFacts, BatchAssumption, LenProperties DEF Readable
<1>3. i \in 1 .. BatchSize /\ i >= readAt /\ i - readAt = q /\ i > k /\ i \in Int /\ q \in Nat
  BY <1>1, <1>2
<1> HIDE DEF i
<1>4. s.msgs[i] = IF q < Len(ms) THEN ms[q + 1] ELSE EmptyMessage
  <2>1. ReadBatch(ms)[i] = IF i >= readAt /\ i - readAt < Len(ms) THEN ms[i - readAt + 1] ELSE EmptyMessage
    BY <1>3 DEF ReadBatch
  <2>2. s.msgs[i] = ReadBatch(ms)[i]
    BY <1>1, <1>3
  <2>3. i - readAt + 1 = q + 1
    BY <1>2, <1>3
  <2> QED BY <1>3, <2>1, <2>2, <2>3
<1>5. Split(s, i) = IF s.msgs[i].buf = <<>> THEN [s EXCEPT !.done = TRUE] ELSE splitMessage(s, i)
  BY <1>1, <1>2, <1>3 DEF Split
<1>6. CASE q < Len(ms) /\ ms[q + 1].buf # <<>>
  <2> DEFINE m == ms[q + 1]
             np == Len(Segments(m))
             a == splitMessage(s, i)
             u == q + 1
  <2>1. u \in 1 .. Len(ms) /\ u \in 1 .. Room /\ u = q + 1
    BY <1>2, <1>3, <1>6
  <2>2. m \in Message /\ m.buf # <<>> /\ np \in 1 .. MaxDatagrams /\ s.msgs[i] = m
    BY <1>2, <1>4, <1>6, <2>1, LenProperties DEF Readable, Good
  <2> HIDE DEF m, u
  <2>3. Split(s, i) = a
    BY <1>5, <2>2
  <2>4. MaxDatagrams \in Nat /\ np \in Nat /\ np <= MaxDatagrams
    BY <2>2, BatchAssumption
  <2>5. u * MaxDatagrams = q * MaxDatagrams + MaxDatagrams
    BY <1>3, <2>1, <2>4
  <2>6. s.n \in Nat
    <3>1. P \in Seq(Buffer)
      <4>1. 1 \in 1 .. Len(ms) + 1 /\ q \in 1 - 1 .. Len(ms)
        BY <1>1, <1>2
      <4>2. SubSeq(ms, 1, q) \in Seq(Message)
        BY ONLY <1>2, <4>1, SubSeqType
      <4> QED BY <4>2, AllSegmentsType
    <3> QED BY <1>1, <3>1, LenProperties
  <2>7. s.n + np <= u * MaxDatagrams /\ u * MaxDatagrams <= i
    <3>1. u * MaxDatagrams <= BatchSize - Room + u
      BY <2>1, RoomFacts
    <3>2. BatchSize - Room + u = i
      BY <1>2, <1>3, <2>1
    <3>3. q * MaxDatagrams \in Nat
      BY <1>3, <2>4
    <3> HIDE DEF np, P
    <3> QED BY <1>1, <1>3, <2>4, <2>5, <2>6, <3>1, <3>2, <3>3
  <2>8. s.n + np <= i
    <3>1. u * MaxDatagrams \in Int
      BY <2>1, <2>4
    <3> HIDE DEF np
    <3> QED BY <1>3, <2>4, <2>6, <2>7, <3>1
  <2>9. /\ SplitState(a) /\ a.n = s.n + np /\ a.err = FALSE /\ a.done = s.done
        /\ \A x \in 1 .. s.n : a.msgs[x] = s.msgs[x]
        /\ \A x \in 1 .. np : a.msgs[s.n + x].buf = Segments(m)[x]
        /\ \A x \in 1 .. BatchSize : x > i => a.msgs[x] = s.msgs[x]
    <3>1. s.msgs[i] \in Message /\ Len(Segments(s.msgs[i])) = np
      BY <2>2
    <3>2. /\ SplitState(s) /\ s.n \in Nat /\ s.err = FALSE /\ i \in 1 .. BatchSize /\ np \in Nat
          /\ s.n + np <= i
      BY <1>1, <1>3, <2>4, <2>6, <2>8
    <3> HIDE DEF a, np
    <3>3. /\ SplitState(a) /\ a.n = s.n + np /\ a.err = FALSE /\ a.done = s.done
          /\ \A x \in 1 .. s.n : a.msgs[x] = s.msgs[x]
          /\ \A x \in 1 .. np : a.msgs[s.n + x].buf = Segments(s.msgs[i])[x]
          /\ \A x \in 1 .. BatchSize : x > i => a.msgs[x] = s.msgs[x]
      BY ONLY <3>1, <3>2, SplitMessageIs, ZenonT(60) DEF a
    <3> QED BY <2>2, <3>3
  <2> DEFINE Q == AllSegments(SubSeq(ms, 1, u))
  <2>10. /\ Q = P \o Segments(m) /\ P \in Seq(Buffer) /\ Segments(m) \in Seq(Buffer)
    <3>1. 1 \in 1 .. Len(ms) + 1 /\ q \in 1 - 1 .. Len(ms) - 1 /\ q \in 1 - 1 .. Len(ms)
      BY <1>1, <1>2, <1>3, <1>6
    <3>2. SubSeq(ms, 1, q + 1) = Append(SubSeq(ms, 1, q), ms[q + 1])
      BY ONLY <1>2, <3>1, SubSeqNext
    <3>3. SubSeq(ms, 1, q) \in Seq(Message)
      BY ONLY <1>2, <3>1, SubSeqType
    <3>4. SubSeq(ms, 1, u) = Append(SubSeq(ms, 1, q), m)
      BY <3>2 DEF u, m
    <3>5. AllSegments(SubSeq(ms, 1, u)) = AllSegments(SubSeq(ms, 1, q)) \o Segments(m)
      BY <2>2, <3>3, <3>4, AllSegmentsAppend
    <3> QED BY <2>2, <3>3, <3>5, AllSegmentsType, SegmentsType
  <2> HIDE DEF a, P, Q
  <2>11. Len(Q) = s.n + np /\ \A x \in 1 .. s.n + np : Q[x] = IF x <= s.n THEN P[x] ELSE Segments(m)[x - s.n]
    BY <1>1, <2>10, ConcatProperties
  <2> HIDE DEF np
  <2>12. ASSUME NEW x \in 1 .. a.n PROVE a.msgs[x].buf = Q[x]
    <3>1. CASE x <= s.n
      <4>1. x \in 1 .. s.n /\ x \in 1 .. s.n + np
        BY <2>4, <2>6, <2>9, <3>1
      <4>2. Q[x] = P[x]
        BY <2>11, <3>1, <4>1
      <4> QED BY <1>1, <2>9, <4>1, <4>2
    <3>2. CASE ~(x <= s.n)
      <4> DEFINE y == x - s.n
      <4>1. y \in 1 .. np /\ s.n + y = x /\ x \in 1 .. s.n + np
        BY <2>4, <2>6, <2>9, <3>2
      <4>2. Q[x] = Segments(m)[y]
        BY <2>11, <3>2, <4>1
      <4> HIDE DEF y
      <4>3. a.msgs[s.n + y].buf = Segments(m)[y]
        BY <2>9, <4>1
      <4> QED BY <4>1, <4>2, <4>3
    <3> QED BY <3>1, <3>2
  <2>13. \A x \in 1 .. BatchSize : x > i => a.msgs[x] = ReadBatch(ms)[x]
    BY <1>1, <1>2, <1>3, <2>9
  <2>14. u \in 0 .. Len(ms) /\ u = (IF i < readAt THEN 0 ELSE i - readAt + 1) /\ a.done = FALSE
    BY <1>1, <1>2, <1>3, <2>1, <2>9
  <2>17. \A x \in 1 .. u : ms[x].buf # <<>>
    <3>1. \A x \in 1 .. u : x \in 1 .. q \/ x = q + 1
      BY <1>3, <2>1
    <3> QED BY <1>1, <1>6, <3>1
  <2>15. Splitting(ms, i, u, a)
    BY <2>7, <2>9, <2>11, <2>12, <2>13, <2>14, <2>17 DEF Splitting, Q
  <2>16. SplitInv(ms, i, a)
    BY <2>15 DEF SplitInv
  <2> QED BY <2>3, <2>16 DEF i
<1>7. CASE ~(q < Len(ms) /\ ms[q + 1].buf # <<>>)
  <2> DEFINE a == [s EXCEPT !.done = TRUE]
  <2>1. q < Len(ms) => ms[q + 1].buf = <<>>
    BY <1>7
  <2>2. Split(s, i) = a
    BY <1>4, <1>5, <1>7 DEF EmptyMessage
  <2>3. /\ a = [msgs |-> a.msgs, n |-> a.n, err |-> a.err, done |-> a.done]
        /\ a.msgs = s.msgs /\ a.n = s.n /\ a.err = s.err /\ a.done = TRUE
    <3>1. DOMAIN a = {"msgs", "n", "err", "done"}
      BY <1>1 DEF SplitState
    <3>2. a.msgs = s.msgs /\ a.n = s.n /\ a.err = s.err
      BY <1>1 DEF SplitState
    <3>3. a.done = TRUE
      <4>1. "done" \in DOMAIN s
        BY <1>1 DEF SplitState
      <4> QED BY <4>1, Zenon
    <3>4. a = [x \in DOMAIN a |-> a[x]]
      BY <1>1 DEF SplitState
    <3>5. a = [msgs |-> a.msgs, n |-> a.n, err |-> a.err, done |-> a.done]
      <4> HIDE DEF a
      <4> QED BY <3>1, <3>4
    <3> QED BY <3>2, <3>3, <3>5, Zenon
  <2> HIDE DEF a
  <2>4. SplitState(a)
    BY <1>1, <2>3 DEF SplitState
  <2>5. \A x \in 1 .. BatchSize : x > i => a.msgs[x] = ReadBatch(ms)[x]
    BY <1>1, <1>2, <1>3, <2>3
  <2>6. Splitting(ms, i, q, a)
    BY <1>1, <1>3, <2>1, <2>3, <2>4, <2>5 DEF Splitting
  <2>7. SplitInv(ms, i, a)
    BY <2>6 DEF SplitInv
  <2> QED BY <2>2, <2>7 DEF i
<1> QED BY <1>6, <1>7

\* splitCoalescedMessages takes the messages apart, up to the first empty one.
LEMMA SplitAll ==
    ASSUME NEW ms, Readable(ms), NEW p, BeforeEmpty(ms, p)
    PROVE  LET r == splitCoalescedMessages(ReadBatch(ms))
           IN /\ r.err = FALSE /\ r.n = Len(AllSegments(SubSeq(ms, 1, p)))
              /\ \A x \in 1 .. r.n : r.msgs[x].buf = AllSegments(SubSeq(ms, 1, p))[x]
<1> DEFINE R == ReadBatch(ms)
           base == [msgs |-> R, n |-> 0, err |-> FALSE, done |-> FALSE]
           r == splitCoalescedMessages(R)
           N == BatchSize
<1>1. N \in Nat /\ DOMAIN R = 1 .. N /\ R = [x \in 1 .. N |-> R[x]]
  BY BatchAssumption DEF ReadBatch
<1>2. /\ readAt \in 1 .. N /\ readAt = N - Room + 1 /\ Room \in Nat /\ MaxDatagrams \in Nat
      /\ Len(ms) <= Room /\ Len(ms) \in Nat /\ ms \in Seq(Message)
  BY RoomFacts, LenProperties DEF Readable
<1> HIDE DEF R
<1>3. Runs("split", R, base, Places(N), N, r)
  BY <1>1, SplitRuns
<1> HIDE DEF r
<1>4. PICK w : /\ w[0] = base /\ w[N] = r
               /\ \A k \in 0 .. N - 1 : w[k + 1] = Round("split", R, w[k], k + 1)
  <2> HIDE DEF base, N
  <2> QED BY ONLY <1>1, <1>3, PlaceRounds
<1> DEFINE T == {k \in Nat : k <= N => SplitInv(ms, k, w[k])}
<1>5. 0 \in T
  <2>1. SubSeq(ms, 1, 0) = <<>>
    BY SubSeqEmpty
  <2>2. AllSegments(SubSeq(ms, 1, 0)) = <<>>
    BY <2>1, AllSegmentsEmpty, Zenon
  <2>3. SplitState(base) /\ base.n = 0 /\ base.err = FALSE /\ base.done = FALSE /\ base.msgs = R
    BY <1>1 DEF SplitState
  <2>4. Len(AllSegments(SubSeq(ms, 1, 0))) = 0 /\ 0 <= 0 * MaxDatagrams /\ 0 \in 0 .. Len(ms)
    BY <1>2, <2>2, EmptySeq
  <2> HIDE DEF base
  <2>5. Splitting(ms, 0, 0, base)
    <3>1. SplitState(base) /\ base.err = FALSE /\ base.done \in BOOLEAN
      BY <2>3
    <3>2. base.n = Len(AllSegments(SubSeq(ms, 1, 0))) /\ base.n <= 0 * MaxDatagrams
      BY <2>3, <2>4
    <3>3. \A x \in 1 .. base.n : base.msgs[x].buf = AllSegments(SubSeq(ms, 1, 0))[x]
      BY <2>3
    <3>4. \A x \in 1 .. BatchSize : x > 0 => base.msgs[x] = ReadBatch(ms)[x]
      BY <2>3 DEF R
    <3>6. \A x \in 1 .. 0 : ms[x].buf # <<>>
      OBVIOUS
    <3>5. IF base.done = TRUE THEN (0 < Len(ms) => ms[0 + 1].buf = <<>>) /\ 0 >= readAt
          ELSE 0 = IF 0 < readAt THEN 0 ELSE 0 - readAt + 1
      BY <1>1, <1>2, <2>3
    <3> QED BY <2>4, <3>1, <3>2, <3>3, <3>4, <3>5, <3>6 DEF Splitting
  <2> QED BY <1>4, <2>5 DEF SplitInv
<1>6. ASSUME NEW k \in Nat, k \in T PROVE k + 1 \in T
  <2>1. SUFFICES ASSUME k + 1 <= N PROVE SplitInv(ms, k + 1, w[k + 1])
    OBVIOUS
  <2>2. k \in 0 .. N - 1 /\ SplitInv(ms, k, w[k])
    BY <1>1, <1>6, <2>1
  <2>3. PICK q : Splitting(ms, k, q, w[k])
    BY <2>2 DEF SplitInv
  <2>4. w[k + 1] = Split(w[k], k + 1)
    BY <1>4, <2>2 DEF Round
  <2>5. CASE w[k].done = TRUE \/ k + 1 < readAt
    BY <2>2, <2>3, <2>4, <2>5, SplitIdle
  <2>6. CASE ~(w[k].done = TRUE \/ k + 1 < readAt)
    BY <2>2, <2>3, <2>4, <2>6, SplitPlace
  <2> QED BY <2>5, <2>6
<1>7. N \in T
  <2> HIDE DEF T
  <2> QED BY <1>1, <1>5, <1>6, SetInduction
<1>8. PICK q : Splitting(ms, N, q, r)
  BY <1>1, <1>4, <1>7 DEF SplitInv
<1>9. BeforeEmpty(ms, q)
  <2>1. /\ q \in 0 .. Len(ms) /\ \A x \in 1 .. q : ms[x].buf # <<>>
        /\ IF r.done = TRUE THEN (q < Len(ms) => ms[q + 1].buf = <<>>) /\ N >= readAt
                            ELSE q = IF N < readAt THEN 0 ELSE N - readAt + 1
    BY <1>8 DEF Splitting
  <2> HIDE DEF N
  <2>2. q < Len(ms) => ms[q + 1].buf = <<>>
    BY <1>1, <1>2, <2>1
  <2> QED BY <2>1, <2>2 DEF BeforeEmpty
<1>10. p = q
  BY <1>2, <1>9 DEF BeforeEmpty
<1> QED BY <1>8, <1>10 DEF Splitting, r, R

\* A message with at most as many pieces as the kernel coalesces.
LEMMA MessageGood ==
    ASSUME NEW m \in Message, m.buf # <<>>, m.gso > 0 => Len(m.buf) <= MaxDatagrams * m.gso
    PROVE  Good(m)
<1> DEFINE g == m.gso
           n == Len(m.buf)
           D == MaxDatagrams
<1>1. g \in Nat /\ D \in Nat \ {0} /\ m.buf \in Buffer
  BY BatchAssumption DEF Message
<1>2. n \in Nat \ {0}
  BY <1>1, LenProperties, EmptySeq DEF Buffer
<1>3. CASE g = 0
  <2>1. Len(Segments(m)) = 1
    BY <1>1, <1>3, LenProperties DEF Segments
  <2>2. 1 \in 1 .. D
    BY <1>1
  <2> QED BY <2>1, <2>2 DEF Good
<1>4. CASE g # 0
  <2>1. Len(Segments(m)) = (n + g - 1) \div g
    BY <1>1, <1>4, PiecesType DEF Segments, PieceCount
  <2> DEFINE k == n \div g
             a == n % g
  <2>2. n = k * g + a /\ k \in Nat /\ a \in 0 .. g - 1
    <3> HIDE DEF n, g
    <3> QED BY <1>1, <1>2, <1>4
  <2>3. n <= D * g
    BY <1>1, <1>4
  <2> HIDE DEF n, g, k, a, D
  <2>4. CASE a = 0
    <3>1. (n + g - 1) \div g = k
      <4>1. g \in Nat \ {0} /\ 1 \in 1 .. g /\ n = k * g
        BY <1>1, <1>4, <2>2, <2>4
      <4>2. (k * g + g - 1) \div g = k
        BY <4>1, <2>2, Quotient
      <4> QED BY <4>1, <4>2
    <3>2. k # 0
      BY <1>1, <1>2, <2>2, <2>4
    <3>3. k <= D
      <4>1. SUFFICES ASSUME k > D PROVE FALSE
        BY <1>1, <2>2
      <4>2. k * g >= (D + 1) * g /\ (D + 1) * g = D * g + g
        BY <1>1, <2>2, <4>1
      <4>3. D * g \in Nat /\ k * g \in Nat
        BY <1>1, <2>2
      <4> QED BY <1>1, <1>4, <2>2, <2>3, <2>4, <4>2, <4>3
    <3> QED BY <1>1, <2>1, <2>2, <3>1, <3>2, <3>3 DEF Good, D
  <2>5. CASE a # 0
    <3>1. (n + g - 1) \div g = k + 1
      <4>1. g \in Nat \ {0} /\ a \in 1 .. g
        BY <1>1, <1>4, <2>2, <2>5
      <4>2. (k * g + a + g - 1) \div g = k + 1
        BY <4>1, <2>2, Quotient
      <4> QED BY <2>2, <4>2
    <3>3. k < D
      <4>1. SUFFICES ASSUME k >= D PROVE FALSE
        BY <1>1, <2>2
      <4>2. k * g >= D * g
        <5>1. k \in Nat /\ D \in Nat /\ g \in Nat
          BY <1>1, <2>2 DEF D
        <5>2. PICK e \in Nat : k = D + e
          <6>1. k - D \in Nat /\ k = D + (k - D)
            BY <4>1, <5>1
          <6> QED BY <6>1
        <5>3. k * g = D * g + e * g /\ e * g \in Nat /\ D * g \in Nat
          BY <5>1, <5>2
        <5> QED BY <5>3
      <4>3. D * g \in Nat /\ k * g \in Nat
        BY <1>1, <2>2
      <4> QED BY <2>2, <2>3, <2>5, <4>2, <4>3
    <3> QED BY <1>1, <2>1, <2>2, <3>1, <3>3 DEF Good, D
  <2> QED BY <2>4, <2>5
<1> QED BY <1>3, <1>4

LEMMA IncomingReadable ==
    ASSUME NEW ms \in Incoming
    PROVE  Readable(ms)
<1>1. /\ ms \in Seq(Message) /\ Len(ms) <= Room
      /\ \A i \in DOMAIN ms : ms[i].gso > 0 => Len(ms[i].buf) <= MaxDatagrams * ms[i].gso
  BY IncomingAssumption DEF Message, Buffer, Room
<1>2. DOMAIN ms = 1 .. Len(ms) /\ \A i \in 1 .. Len(ms) : ms[i] \in Message
  BY <1>1, LenProperties
<1> QED BY <1>1, <1>2, MessageGood DEF Readable

\* What receiveIP gives back of what a read returns, with receive offload ...
LEMMA NothingMisread ==
    ASSUME NEW ms \in Incoming, NEW p, BeforeEmpty(ms, p)
    PROVE  receiveIP(ms, TRUE) = [got |-> AllSegments(SubSeq(ms, 1, p)), err |-> FALSE]
<1> DEFINE r == splitCoalescedMessages(ReadBatch(ms))
           A == AllSegments(SubSeq(ms, 1, p))
<1>1. Readable(ms)
  BY IncomingReadable
<1>2. r.err = FALSE /\ r.n = Len(A) /\ \A x \in 1 .. r.n : r.msgs[x].buf = A[x]
  BY <1>1, SplitAll
<1>3. A \in Seq(Buffer)
  <2>1. ms \in Seq(Message) /\ Len(ms) \in Nat
    BY <1>1, LenProperties DEF Readable
  <2>2. 1 \in 1 .. Len(ms) + 1 /\ p \in 1 - 1 .. Len(ms)
    BY <2>1 DEF BeforeEmpty
  <2>3. SubSeq(ms, 1, p) \in Seq(Message)
    BY ONLY <2>1, <2>2, SubSeqType
  <2> QED BY <2>3, AllSegmentsType
<1>4. A = [x \in 1 .. Len(A) |-> A[x]]
  BY <1>3, LenProperties
<1>5. receiveIP(ms, TRUE) = [got |-> [x \in 1 .. r.n |-> r.msgs[x].buf], err |-> r.err]
  BY DEF receiveIP
<1> HIDE DEF r, A
<1>6. [x \in 1 .. r.n |-> r.msgs[x].buf] = A
  BY <1>2, <1>4
<1> QED BY <1>2, <1>5, <1>6 DEF A

\* ... and without.
LEMMA NothingMissed ==
    ASSUME NEW ms \in Incoming, \A i \in DOMAIN ms : ms[i].gso = 0
    PROVE  receiveIP(ms, FALSE) = [got |-> AllSegments(ms), err |-> FALSE]
<1> DEFINE bufs == [i \in DOMAIN ms |-> ms[i].buf]
<1>1. /\ ms \in Seq(Message) /\ Len(ms) \in Nat /\ DOMAIN ms = 1 .. Len(ms)
      /\ \A i \in 1 .. Len(ms) : ms[i] \in Message
  BY IncomingReadable, LenProperties DEF Readable
<1>2. bufs \in Seq(Buffer) /\ DOMAIN bufs = DOMAIN ms
  <2>1. bufs \in [1 .. Len(ms) -> Buffer]
    BY <1>1 DEF Message
  <2> QED BY <1>1, <2>1, SeqDef
<1>3. singleMessages(bufs) = ms
  <2>1. singleMessages(bufs) = [i \in 1 .. Len(ms) |-> [buf |-> ms[i].buf, gso |-> 0]]
    BY <1>1 DEF singleMessages
  <2>2. \A i \in 1 .. Len(ms) : ms[i] = [buf |-> ms[i].buf, gso |-> 0]
    BY <1>1 DEF Message
  <2>3. ms = [i \in 1 .. Len(ms) |-> ms[i]]
    BY <1>1
  <2> QED BY <2>1, <2>2, <2>3
<1>4. receiveIP(ms, FALSE) = [got |-> bufs, err |-> FALSE]
  BY DEF receiveIP
<1> HIDE DEF bufs
<1>5. AllSegments(ms) = bufs
  BY <1>2, <1>3, SingleSegments
<1> QED BY <1>4, <1>5

-----------------------------------------------------------------------------
(* Sending *)

\* Taking a sequence apart where it was put together.
LEMMA ConcatParts ==
    ASSUME NEW S, NEW p \in Seq(S), NEW b \in Seq(S)
    PROVE  /\ p \o b \in Seq(S) /\ Len(p \o b) = Len(p) + Len(b)
           /\ SubSeq(p \o b, 1, Len(p)) = p
           /\ SubSeq(p \o b, Len(p) + 1, Len(p \o b)) = b
<1> DEFINE w == p \o b
           n == Len(p)
<1>1. /\ w \in Seq(S) /\ Len(w) = n + Len(b) /\ n \in Nat /\ Len(b) \in Nat
      /\ \A i \in 1 .. n + Len(b) : w[i] = IF i <= n THEN p[i] ELSE b[i - n]
  BY ConcatProperties, LenProperties
<1> HIDE DEF w, n
<1>2. /\ \A i \in 1 .. n + Len(b) : w[i] \in S
      /\ n = Len(p) /\ n + 1 \in Int /\ Len(w) \in Int
  BY <1>1, LenProperties DEF n
<1>3. /\ \A i \in 1 .. n : w[i] \in S
      /\ \A i \in n + 1 .. Len(w) : w[i] \in S
  BY <1>1, <1>2
<1>4. SubSeq(w, 1, n) = p
  <2>1. /\ SubSeq(w, 1, n) \in Seq(S) /\ Len(SubSeq(w, 1, n)) = IF 1 <= n THEN n - 1 + 1 ELSE 0
        /\ \A i \in 1 .. n - 1 + 1 : SubSeq(w, 1, n)[i] = w[1 + i - 1]
    BY <1>1, <1>3, SubSeqProperties
  <2>2. Len(SubSeq(w, 1, n)) = n
    BY <1>1, <2>1
  <2>3. \A i \in 1 .. n : SubSeq(w, 1, n)[i] = p[i]
    BY <1>1, <2>1
  <2> QED BY <1>2, <2>1, <2>2, <2>3, SeqEqual
<1>5. SubSeq(w, n + 1, Len(w)) = b
  <2> DEFINE t == SubSeq(w, n + 1, Len(w))
             m == Len(w)
  <2>1. /\ t \in Seq(S) /\ Len(t) = IF n + 1 <= m THEN m - (n + 1) + 1 ELSE 0
        /\ \A i \in 1 .. m - (n + 1) + 1 : t[i] = w[(n + 1) + i - 1]
    BY <1>1, <1>2, <1>3, SubSeqProperties
  <2> HIDE DEF t
  <2>2. Len(t) = Len(b)
    BY <1>1, <2>1
  <2>3. ASSUME NEW i \in 1 .. Len(b) PROVE t[i] = b[i]
    <3>1. t[i] = w[n + i]
      BY <1>1, <2>1
    <3>2. n + i \in 1 .. n + Len(b) /\ ~(n + i <= n) /\ (n + i) - n = i
      BY <1>1
    <3> QED BY <1>1, <3>1, <3>2
  <2>4. t = b
    BY <2>1, <2>2, <2>3, SeqEqual
  <2> QED BY <2>4 DEF t
<1> QED BY <1>1, <1>4, <1>5 DEF w, n

\* What is on the wire and what is still to be written are the batch, after a
\* first part of it if the batch has been tried before.
Carried(r) ==
    \E k \in 0 .. Len(r.bufs) :
        /\ r.wire \o AllSegments(r.msgs) = SubSeq(r.bufs, 1, k) \o r.bufs
        /\ k > 0 => r.retried
        /\ r.offload => k = 0

\* The variables of a Send that has its batch.
SendState(r) ==
    /\ r.bufs \in Seq(Buffer) /\ r.msgs \in Seq(Message) /\ r.wire \in Seq(Buffer)
    /\ r.pc \in {"write", "disable"} => Carried(r)
    /\ r.pc = "disable" => r.offload
    /\ r.pc = "done" /\ ~r.err => Carried(r) /\ r.msgs = <<>>

\* Every Send is one of those.
Batched == \A s \in Sender : Sending(s) => SendState(sender[s])

\* A Send begins with the messages that carry its batch.
LEMMA CarriesBatch ==
    ASSUME NEW bufs, Datagrams(bufs), NEW r, r.bufs = bufs, r.wire = <<>>, r.pc = "write",
           r.msgs = coalesceMessages(bufs) \/ r.msgs = singleMessages(bufs)
    PROVE  SendState(r)
<1>1. bufs \in Seq(Buffer) /\ Len(bufs) \in Nat
  BY LenProperties DEF Datagrams
<1>2. r.msgs \in Seq(Message) /\ AllSegments(r.msgs) = bufs
  BY <1>1, Coalesce, SingleSegments
<1>3. r.wire \in Seq(Buffer) /\ r.wire \o AllSegments(r.msgs) = bufs
  <2>1. <<>> \o bufs = bufs
    BY <1>1, ConcatEmptySeq
  <2> QED BY <1>2, <2>1, EmptySeq
<1>4. SubSeq(bufs, 1, 0) \o bufs = bufs
  BY <1>1, SubSeqEmpty, ConcatEmptySeq
<1>5. Carried(r)
  <2>1. 0 \in 0 .. Len(r.bufs) /\ ~(0 > 0)
    BY <1>1
  <2> QED BY <1>3, <1>4, <2>1 DEF Carried
<1> QED BY <1>1, <1>2, <1>3, <1>5 DEF SendState

\* The messages WriteBatch has taken move to the wire.
LEMMA CarriesOn ==
    ASSUME NEW q, SendState(q), q.pc = "write", NEW n \in 1 .. Len(q.msgs),
           NEW r, r.bufs = q.bufs, r.retried = q.retried, r.offload = q.offload,
           r.wire = q.wire \o AllSegments(SubSeq(q.msgs, 1, n)),
           r.msgs = SubSeq(q.msgs, n + 1, Len(q.msgs)),
           r.pc = IF n = Len(q.msgs) THEN "done" ELSE "write"
    PROVE  SendState(r)
<1> DEFINE ms == q.msgs
           A == AllSegments(SubSeq(ms, 1, n))
           B == AllSegments(SubSeq(ms, n + 1, Len(ms)))
<1>1. ms \in Seq(Message) /\ q.wire \in Seq(Buffer) /\ q.bufs \in Seq(Buffer) /\ Carried(q)
  BY DEF SendState
<1>2. Len(ms) \in Nat /\ n \in 0 .. Len(ms)
  BY <1>1, LenProperties
<1>3. /\ SubSeq(ms, 1, n) \in Seq(Message) /\ SubSeq(ms, n + 1, Len(ms)) \in Seq(Message)
      /\ AllSegments(ms) = A \o B
  BY ONLY <1>1, <1>2, AllSegmentsSplit
<1>4. A \in Seq(Buffer) /\ B \in Seq(Buffer)
  BY <1>3, AllSegmentsType
<1> HIDE DEF A, B
<1>5. (q.wire \o A) \o B = q.wire \o (A \o B)
  <2> DEFINE w == q.wire
  <2>1. w \in Seq(Buffer)
    BY <1>1
  <2> HIDE DEF w
  <2>2. (w \o A) \o B = w \o (A \o B)
    BY ONLY <1>4, <2>1, ConcatAssociative, SMTT(30)
  <2> QED BY <2>2 DEF w
<1>6. r.wire = q.wire \o A /\ AllSegments(r.msgs) = B /\ r.wire \in Seq(Buffer)
  BY <1>1, <1>4, ConcatProperties DEF A, B
<1>7. r.wire \o AllSegments(r.msgs) = q.wire \o AllSegments(q.msgs)
  BY <1>3, <1>5, <1>6
<1>8. Carried(r)
  BY <1>1, <1>7 DEF Carried
<1>9. r.pc = "done" => r.msgs = <<>>
  BY <1>2, SubSeqEmpty
<1> QED BY <1>1, <1>3, <1>6, <1>8, <1>9 DEF SendState

\* Without segmentation the batch begins again: what has gone out is a first
\* part of it.
LEMMA CarriesAgain ==
    ASSUME NEW q, SendState(q), q.pc = "disable",
           NEW r, r.bufs = q.bufs, r.wire = q.wire, r.retried, ~r.offload,
           r.msgs = singleMessages(q.bufs), r.pc = "write"
    PROVE  SendState(r)
<1> DEFINE b == q.bufs
           w == q.wire
           m == AllSegments(q.msgs)
           k == Len(w)
<1>1. /\ b \in Seq(Buffer) /\ w \in Seq(Buffer) /\ q.msgs \in Seq(Message)
      /\ Carried(q) /\ q.offload
  BY DEF SendState
<1>2. m \in Seq(Buffer) /\ Len(b) \in Nat /\ k \in Nat /\ Len(m) \in Nat
  BY <1>1, AllSegmentsType, LenProperties
<1>3. w \o m = b
  <2>1. w \o m = SubSeq(b, 1, 0) \o b
    BY <1>1 DEF Carried
  <2>2. SubSeq(b, 1, 0) = <<>> /\ <<>> \o b = b
    BY <1>1, SubSeqEmpty, ConcatEmptySeq
  <2> QED BY <2>1, <2>2
<1> HIDE DEF b, w, m
<1>4. Len(b) = Len(w) + Len(m) /\ SubSeq(b, 1, Len(w)) = w
  <2>1. Len(w \o m) = Len(w) + Len(m) /\ SubSeq(w \o m, 1, Len(w)) = w
    BY ONLY <1>1, <1>2, ConcatParts
  <2> QED BY <1>3, <2>1, Zenon
<1>5. r.msgs \in Seq(Message) /\ AllSegments(r.msgs) = b
  BY <1>1, SingleSegments DEF b
<1>6. k \in 0 .. Len(b)
  BY <1>2, <1>4
<1>7. r.wire \o AllSegments(r.msgs) = SubSeq(r.bufs, 1, k) \o r.bufs
  BY <1>4, <1>5 DEF b, w
<1>8. Carried(r)
  BY <1>6, <1>7 DEF Carried, b
<1> QED BY <1>1, <1>5, <1>8 DEF SendState, b, w

\* The sender whose variables change keeps its batch, the others keep theirs.
LEMMA OneSendChanges ==
    ASSUME Inv, Batched, NEW s \in Sender, NEW r, sender' = [sender EXCEPT ![s] = r],
           r.pc # "idle" => SendState(r)
    PROVE  Batched'
<1>1. \A t \in Sender : sender'[t] = IF t = s THEN r ELSE sender[t]
  BY DEF Inv, SenderTypes
<1> SUFFICES ASSUME NEW t \in Sender, sender'[t].pc # "idle" PROVE SendState(sender'[t])
  BY DEF Batched, Sending
<1>2. CASE t = s
  BY <1>1, <1>2
<1>3. CASE t # s
  BY <1>1, <1>3 DEF Batched, Sending
<1> QED BY <1>2, <1>3

\* Every step keeps what the senders carry.
LEMMA BatchedStep ==
    ASSUME NoEmptyDatagram(Batches), Inv, Batched, [Next]_vars
    PROVE  Batched'
<1>1. ASSUME UNCHANGED sender PROVE Batched'
  BY <1>1 DEF Batched, Sending
<1>2. ASSUME NEW s \in Sender, NEW f \in Family, NEW bufs \in Batches, BeginSend(s, f, bufs)
      PROVE  Batched'
  <2>1. PICK r : /\ sender' = [sender EXCEPT ![s] = r] /\ r.bufs = bufs /\ r.wire = <<>> /\ r.pc = "write"
                 /\ r.msgs = coalesceMessages(bufs) \/ r.msgs = singleMessages(bufs)
    BY <1>2, Begun
  <2>2. Datagrams(bufs)
    BY LenProperties DEF NoEmptyDatagram, Datagrams, Buffer
  <2>3. SendState(r)
    BY <2>1, <2>2, CarriesBatch
  <2> QED BY <2>1, <2>3, OneSendChanges
<1>3. ASSUME NEW s \in Sender, Write(s) PROVE Batched'
  <2> DEFINE q == sender[s]
  <2>1. q.pc = "write" /\ SendState(q)
    BY <1>3 DEF Write, Batched, Sending
  <2>2. PICK n \in 1 .. Len(q.msgs) : \E r :
              /\ sender' = [sender EXCEPT ![s] = r]
              /\ r.bufs = q.bufs /\ r.retried = q.retried /\ r.offload = q.offload
              /\ r.wire = q.wire \o AllSegments(SubSeq(q.msgs, 1, n))
              /\ r.msgs = SubSeq(q.msgs, n + 1, Len(q.msgs))
              /\ r.pc = IF n = Len(q.msgs) THEN "done" ELSE "write"
    BY <1>3, Written
  <2> HIDE DEF q
  <2>3. PICK r : /\ sender' = [sender EXCEPT ![s] = r]
                 /\ r.bufs = q.bufs /\ r.retried = q.retried /\ r.offload = q.offload
                 /\ r.wire = q.wire \o AllSegments(SubSeq(q.msgs, 1, n))
                 /\ r.msgs = SubSeq(q.msgs, n + 1, Len(q.msgs))
                 /\ r.pc = IF n = Len(q.msgs) THEN "done" ELSE "write"
    BY <2>2
  <2>4. SendState(r)
    BY <2>1, <2>3, CarriesOn
  <2> QED BY <2>3, <2>4, OneSendChanges
<1>4. ASSUME NEW s \in Sender, WriteFails(s) PROVE Batched'
  <2> DEFINE q == sender[s]
  <2>1. q.pc = "write" /\ SendState(q)
    BY <1>4 DEF WriteFails, Batched, Sending
  <2>2. PICK r : /\ sender' = [sender EXCEPT ![s] = r]
                 /\ r.bufs = q.bufs /\ r.retried = q.retried /\ r.offload = q.offload
                 /\ r.wire = q.wire /\ r.msgs = q.msgs
                 /\ \/ r.pc = "disable" /\ q.offload
                    \/ r.pc = "done" /\ r.err
    BY <1>4, Refused
  <2> HIDE DEF q
  <2>3. Carried(r)
    BY <2>1, <2>2 DEF SendState, Carried
  <2>4. SendState(r)
    BY <2>1, <2>2, <2>3 DEF SendState
  <2> QED BY <2>2, <2>4, OneSendChanges
<1>5. ASSUME NEW s \in Sender, DisableOffload(s) PROVE Batched'
  <2> DEFINE q == sender[s]
  <2>1. q.pc = "disable" /\ SendState(q)
    BY <1>5 DEF DisableOffload, Batched, Sending
  <2>2. PICK r : /\ sender' = [sender EXCEPT ![s] = r]
                 /\ r.bufs = q.bufs /\ r.retried /\ ~r.offload
                 /\ r.wire = q.wire /\ r.msgs = singleMessages(q.bufs) /\ r.pc = "write"
    BY <1>5, Restarted
  <2> HIDE DEF q
  <2>3. SendState(r)
    BY <2>1, <2>2, CarriesAgain
  <2> QED BY <2>2, <2>3, OneSendChanges
<1>6. ASSUME NEW s \in Sender, EndSend(s) PROVE Batched'
  BY <1>6, NoSendFacts, OneSendChanges DEF EndSend
<1>7. CASE UNCHANGED vars
  BY <1>1, <1>7 DEF vars
<1>8. ASSUME NEW p \in Port \cup {port}, Close(p) PROVE Batched'
  BY <1>1, <1>8 DEF Close
<1>9. CASE NotUp \/ OpenV4 \/ OpenV6 \/ OpenDone \/ RouteListenerFails
  <2>1. UNCHANGED sender
    BY <1>9, Zenon DEF NotUp, OpenV4, OpenV6, OpenDone, RouteListenerFails
  <2> QED BY <1>1, <2>1
<1>10. ASSUME NEW f \in Family, NEW p \in Port, OtherTakesPort(f, p) PROVE Batched'
  BY <1>1, <1>10 DEF OtherTakesPort
<1> QED BY <1>2, <1>3, <1>4, <1>5, <1>6, <1>7, <1>8, <1>9, <1>10 DEF Next

\* A Send that is done without an error has its batch on the wire.
LEMMA CarriedArrives ==
    ASSUME NEW r, SendState(r), r.pc = "done", ~r.err
    PROVE  LET w == r.wire
               b == r.bufs
               extra == Len(w) - Len(b)
           IN /\ extra \in 0 .. Len(b)
              /\ SubSeq(w, extra + 1, Len(w)) = b
              /\ SubSeq(w, 1, extra) = SubSeq(b, 1, extra)
              /\ extra > 0 => r.retried
<1> DEFINE w == r.wire
           b == r.bufs
           extra == Len(w) - Len(b)
<1>1. b \in Seq(Buffer) /\ w \in Seq(Buffer) /\ r.msgs = <<>> /\ Carried(r)
  BY DEF SendState
<1>2. PICK k \in 0 .. Len(b) : w \o AllSegments(r.msgs) = SubSeq(b, 1, k) \o b /\ (k > 0 => r.retried)
  BY <1>1 DEF Carried
<1>3. w \o AllSegments(r.msgs) = w
  <2>1. AllSegments(r.msgs) = <<>>
    BY <1>1, AllSegmentsEmpty, Zenon
  <2> QED BY <1>1, <2>1, ConcatEmptySeq
<1> HIDE DEF w, b
<1> DEFINE p == SubSeq(b, 1, k)
<1>4. Len(b) \in Nat
  BY <1>1, LenProperties
<1>5. p \in Seq(Buffer) /\ Len(p) = k
  <2>1. 1 \in 1 .. Len(b) + 1 /\ k \in 1 - 1 .. Len(b)
    BY <1>4
  <2>2. SubSeq(b, 1, k) \in Seq(Buffer) /\ Len(SubSeq(b, 1, k)) = k + 1 - 1
    BY ONLY <1>1, <2>1, SubSeqType
  <2> QED BY <1>4, <2>2
<1>6. w = p \o b
  BY <1>2, <1>3
<1> HIDE DEF p
<1>7. /\ Len(p \o b) = Len(p) + Len(b) /\ SubSeq(p \o b, 1, Len(p)) = p
      /\ SubSeq(p \o b, Len(p) + 1, Len(p \o b)) = b
  <2>1. p \in Seq(Buffer) /\ b \in Seq(Buffer)
    BY <1>1, <1>5
  <2> QED BY ONLY <2>1, ConcatParts
<1>8. extra = k
  <2>1. Len(w) = k + Len(b)
    BY <1>5, <1>6, <1>7, Zenon
  <2> QED BY <1>4, <2>1
<1>9. SubSeq(w, 1, extra) = p /\ SubSeq(w, extra + 1, Len(w)) = b
  <2> HIDE DEF extra
  <2> QED BY <1>5, <1>6, <1>7, <1>8, Zenon
<1>10. SubSeq(b, 1, extra) = p
  BY <1>8 DEF p
<1> HIDE DEF extra
<1>11. /\ extra \in 0 .. Len(b) /\ SubSeq(w, extra + 1, Len(w)) = b
       /\ SubSeq(w, 1, extra) = SubSeq(b, 1, extra)
       /\ extra > 0 => r.retried
  BY <1>2, <1>8, <1>9, <1>10
<1> QED BY <1>11 DEF extra, w, b

\* If no datagram of a batch is empty, a Send that reports no error has put
\* the batch on the wire whole and in order, after a first part of it if it
\* had to begin again, however the kernel takes and refuses its messages.
THEOREM BatchesArrive == ASSUME NoEmptyDatagram(Batches) PROVE Spec => []BatchArrives
<1>1. Init => Batched
  BY NoSendFacts DEF Init, Batched, Sending
<1>2. Inv /\ Batched /\ [Next]_vars => Batched'
  BY BatchedStep
<1>3. Inv /\ Batched => BatchArrives
  <2> SUFFICES ASSUME Inv, Batched, NEW s \in Sender, sender[s].pc = "done", ~sender[s].err
               PROVE  LET w == sender[s].wire
                          b == sender[s].bufs
                          extra == Len(w) - Len(b)
                      IN /\ extra \in 0 .. Len(b)
                         /\ SubSeq(w, extra + 1, Len(w)) = b
                         /\ SubSeq(w, 1, extra) = SubSeq(b, 1, extra)
                         /\ extra > 0 => sender[s].retried
    BY Zenon DEF BatchArrives
  <2> DEFINE r == sender[s]
  <2>1. SendState(r) /\ r.pc = "done" /\ ~r.err
    BY DEF Batched, Sending
  <2> HIDE DEF r
  <2>2. LET w == r.wire
            b == r.bufs
            extra == Len(w) - Len(b)
        IN /\ extra \in 0 .. Len(b)
           /\ SubSeq(w, extra + 1, Len(w)) = b
           /\ SubSeq(w, 1, extra) = SubSeq(b, 1, extra)
           /\ extra > 0 => r.retried
    BY ONLY <2>1, CarriedArrives
  <2> QED BY ONLY <2>2 DEF r
<1> QED BY Invariance, <1>1, <1>2, <1>3, PTL DEF Spec

\* Whatever sequence of messages a read returns, receiveIP gives back their
\* datagrams whole and in order, all of them without receive offload and the ones
\* before the first empty one with it, and it does not run out of room.
THEOREM SplitGivesAllBack == Spec => []SplitGivesBack
<1>1. Misread = {}
  <2> SUFFICES ASSUME NEW ms \in Misread PROVE FALSE
    OBVIOUS
  <2>1. ms \in Incoming
    BY DEF Misread
  <2>2. ASSUME NEW n \in 0 .. Len(ms), BeforeEmpty(ms, n)
        PROVE  receiveIP(ms, TRUE) = [got |-> AllSegments(SubSeq(ms, 1, n)), err |-> FALSE]
    BY ONLY <2>1, <2>2, NothingMisread
  <2>3. ASSUME \A i \in DOMAIN ms : ms[i].gso = 0
        PROVE  receiveIP(ms, FALSE) = [got |-> AllSegments(ms), err |-> FALSE]
    BY ONLY <2>1, <2>3, NothingMissed
  <2> QED BY <2>2, <2>3 DEF Misread
<1>2. SplitGivesBack
  BY <1>1 DEF SplitGivesBack
<1>3. SplitGivesBack'
  BY <1>1 DEF SplitGivesBack
<1> QED BY <1>2, PTL
===============================================================================
