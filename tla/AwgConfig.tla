------------------------------ MODULE AwgConfig ------------------------------
(***************************************************************************)
(* The parameters AmneziaWG adds to WireGuard: junk packets (Jc, Jmin,     *)
(* Jmax), paddings (S1-S4) and message headers (H1-H4).  A set operation   *)
(* of uapi.go writes them into the device one line at a time while send.go *)
(* and receive.go read them, with no lock in common.                       *)
(*                                                                         *)
(* A packet is its size and the 32-bit words that stand at the offsets a   *)
(* receiver may look at; every word but its header is arbitrary (random    *)
(* padding or ciphertext).  The signature packets I1-I5 are left out.      *)
(*                                                                         *)
(* A "mutant:" comment marks a deliberately wrong variant of the           *)
(* definition that follows it; the properties tell the two apart.          *)
(***************************************************************************)
EXTENDS Integers, Sequences

CONSTANTS
    WordSize,   \* number of values of a uint32
    Paddings,   \* values of S1-S4
    Contents,   \* lengths of the content of a transport message
    Requests    \* set operations: sequences of lines

Word == 0 .. WordSize - 1
Types == {"init", "response", "cookie", "transport"}
Handshake == Types \ {"transport"}

ASSUME WordAssumption == WordSize \in Nat /\ WordSize > 4
ASSUME PaddingAssumption == Paddings \subseteq Nat /\ 0 \in Paddings
ASSUME ContentAssumption == Contents \subseteq Nat \ {0}

\* Fields of the messages: a whole handshake message, or the header of a transport message.
MessageSize == [init |-> 148, response |-> 92, cookie |-> 64, transport |-> 16]
TagSize == 16

\* A line of a set operation names a field and gives it a value; a header is
\* given as one number or as two.
HeaderLine == [key : {"h"}, type : Types, value : Seq(Word)]
PaddingLine == [key : {"s"}, type : Types, value : Paddings \cup {-1}]
JunkLine == [key : {"count", "min", "max"}, value : Int]
Line == HeaderLine \cup PaddingLine \cup JunkLine
ASSUME RequestAssumption == Requests \subseteq Seq(Line)

VARIABLES
    headers, paddings, junk,   \* the fields of Device
    set,                       \* the set operation: lines left, result
    sender,                    \* a goroutine that sends: its locals
    flight                     \* the packet on its way to an equal device

vars == <<headers, paddings, junk, set, sender, flight>>
config == <<headers, paddings, junk>>

Header == {h \in [start : Word, end : Word] : h.start <= h.end}
Kinds == Types \cup {"keepalive"}
NoPacket == [type |-> "none"]
Packet == [type : Kinds, size : Nat, words : [Paddings -> Word],
           from : Header, made : [Types -> Paddings]]
Sender == [pc : {"idle", "count", "min", "max", "junk", "pad", "panic"},
           kind : Kinds, word : Word, from : Header,
           count : Nat, min : Nat, max : Nat]

TypeOK ==
    /\ headers \in [Types -> Header] /\ paddings \in [Types -> Paddings]
    /\ junk \in [count : Nat, min : Nat, max : Nat]
    /\ set \in [lines : Seq(Line), result : {"busy", "ok", "error"}]
    /\ sender \in Sender
    /\ flight \in Packet \cup {NoPacket}

-----------------------------------------------------------------------------
(* magic-header.go                                                         *)

Single(n) == [start |-> n, end |-> n]

\* newMagicHeader fails unless the specification is one number or a range.
ValidSpec(spec) == Len(spec) \in {1, 2} /\ spec[1] <= spec[Len(spec)]
newMagicHeader(spec) == [start |-> spec[1], end |-> spec[Len(spec)]]

Validate(h, w) == h.start <= w /\ w <= h.end

\* The number of values Generate draws from, in 32 bits: rand.Int panics if it
\* is not positive.
High(h) == (h.end - h.start + 1) % WordSize
Generate(h) == {(h.start + r) % WordSize : r \in 0 .. High(h) - 1}

-----------------------------------------------------------------------------
(* IpcSetOperation                                                         *)

\* NewDevice
Init ==
    /\ headers = [init |-> Single(1), response |-> Single(2),
                  cookie |-> Single(3), transport |-> Single(4)]
    /\ paddings = [t \in Types |-> 0]
    /\ junk = [count |-> 0, min |-> 0, max |-> 0]
    /\ set = [lines |-> <<>>, result |-> "ok"]
    /\ sender = [pc |-> "idle", kind |-> "init", word |-> 0, from |-> Single(1),
                 count |-> 0, min |-> 0, max |-> 0]
    /\ flight = NoPacket

\* The program is one process: a panic of the sender ends all of it.
Alive == sender.pc # "panic"

BeginSet ==
    /\ Alive /\ set.result # "busy"
    /\ \E r \in Requests : set' = [lines |-> r, result |-> "busy"]
    /\ UNCHANGED <<headers, paddings, junk, sender, flight>>

ValidLine(line) == CASE line.key = "h" -> ValidSpec(line.value)
                     [] line.key = "s" -> line.value >= 0
                     [] line.key \in {"count", "min", "max"} -> line.value > 0

\* A value goes into the device at once.
HandleHeader(line) ==
    /\ line.key = "h"
    /\ headers' = [headers EXCEPT ![line.type] = newMagicHeader(line.value)]
    /\ UNCHANGED <<paddings, junk>>
HandlePadding(line) ==
    /\ line.key = "s"
    /\ paddings' = [paddings EXCEPT ![line.type] = line.value]
    /\ UNCHANGED <<headers, junk>>
HandleJunk(line) ==
    /\ line.key \notin {"h", "s"}
    /\ junk' = [junk EXCEPT ![line.key] = line.value]
    /\ UNCHANGED <<headers, paddings>>

handleDeviceLine ==
    /\ Alive /\ set.result = "busy" /\ set.lines # <<>>
    /\ ValidLine(Head(set.lines))
    /\ \/ HandleHeader(Head(set.lines))
       \/ HandlePadding(Head(set.lines))
       \/ HandleJunk(Head(set.lines))
    /\ set' = [set EXCEPT !.lines = Tail(@)]
    /\ UNCHANGED <<sender, flight>>

\* An invalid line ends the operation; the lines before it stay applied.
handleDeviceLineFails ==
    /\ Alive /\ set.result = "busy" /\ set.lines # <<>>
    /\ ~ValidLine(Head(set.lines))
    /\ set' = [lines |-> <<>>, result |-> "error"]
    /\ UNCHANGED <<config, sender, flight>>

\* mutant: ranges that share one value do not overlap
OverlapStrict(l, r) == l.start < r.end /\ r.start < l.end
Overlap(l, r) == l.start <= r.end /\ r.start <= l.end
Disjoint == \A t, u \in Types : t # u => ~Overlap(headers[t], headers[u])

\* The headers of ipcSetDevice are never set: those of the device, already
\* overwritten, are compared with each other and written back.
mergeWithDevice ==
    /\ Alive /\ set.result = "busy" /\ set.lines = <<>>
    /\ set' = [lines |-> <<>>, result |-> IF Disjoint THEN "ok" ELSE "error"]
    /\ UNCHANGED <<config, sender, flight>>

-----------------------------------------------------------------------------
(* send.go: SendHandshakeInitiation, SendHandshakeResponse,                *)
(* SendHandshakeCookie, RoutineEncryption and RoutineSequentialSender.     *)

TypeOf(kind) == IF kind = "keepalive" THEN "transport" ELSE kind

\* The message is made, its header drawn.
CreateMessage(kind) ==
    /\ sender.pc = "idle" /\ flight = NoPacket
    /\ LET h == headers[TypeOf(kind)] IN
          \/ /\ High(h) <= 0
             /\ sender' = [sender EXCEPT !.pc = "panic"]
          \/ \E w \in Generate(h) :
                sender' = [sender EXCEPT !.pc = IF kind = "init" THEN "count" ELSE "pad",
                                         !.kind = kind, !.word = w, !.from = h]
    /\ UNCHANGED <<config, set, flight>>

\* Before an initiation: the three junk fields are read one after the other.
ReadCount ==
    /\ sender.pc = "count"
    /\ sender' = [sender EXCEPT !.pc = "min", !.count = junk.count]
    /\ UNCHANGED <<config, set, flight>>
ReadMin ==
    /\ sender.pc = "min"
    /\ sender' = [sender EXCEPT !.pc = "max", !.min = junk.min]
    /\ UNCHANGED <<config, set, flight>>
ReadMax ==
    /\ sender.pc = "max"
    /\ sender' = [sender EXCEPT !.pc = "junk", !.max = junk.max]
    /\ UNCHANGED <<config, set, flight>>

\* The argument of rand.Int, which panics if it is not positive.
JunkSizes == sender.max - sender.min + 1

SendJunk ==
    /\ sender.pc = "junk"
    /\ sender' = [sender EXCEPT !.pc = IF sender.count > 0 /\ JunkSizes <= 0
                                       THEN "panic" ELSE "pad"]
    /\ UNCHANGED <<config, set, flight>>

\* The packet is padded and sent; a keepalive is not padded.
Padding(kind) == IF kind = "keepalive" THEN 0 ELSE paddings[kind]
Sizes(kind) == CASE kind \in Handshake -> {MessageSize[kind]}
                 [] kind = "transport" -> {MessageSize[kind] + n + TagSize : n \in Contents}
                 [] kind = "keepalive" -> {MessageSize["transport"] + TagSize}
SendBuffers ==
    /\ sender.pc = "pad"
    /\ \E n \in Sizes(sender.kind), words \in [Paddings -> Word] :
          /\ words[Padding(sender.kind)] = sender.word
          /\ flight' = [type |-> sender.kind, size |-> Padding(sender.kind) + n,
                        words |-> words, from |-> sender.from, made |-> paddings]
    /\ sender' = [sender EXCEPT !.pc = "idle"]
    /\ UNCHANGED <<config, set>>

-----------------------------------------------------------------------------
(* receive.go                                                              *)

\* May the packet be a message of this type?
\* mutant: a message that is longer will do for any type
Longer(p, t) == p.size >= paddings[t] + MessageSize[t]
SizeFits(p, t) == IF t = "transport" THEN p.size >= paddings[t] + MessageSize[t]
                                     ELSE p.size = paddings[t] + MessageSize[t]
Candidate(p, t) == SizeFits(p, t) /\ Validate(headers[t], p.words[paddings[t]])

\* The types are tried in this order; the first that fits is taken, and its
\* padding is cut off.
Order == <<"init", "response", "cookie", "transport">>
Fits(p) == {i \in 1 .. 4 : Candidate(p, Order[i])}
DeterminePacketTypeAndPadding(p) ==
    IF Fits(p) = {} THEN "unknown"
    ELSE Order[CHOOSE i \in Fits(p) : \A j \in Fits(p) : i <= j]

\* The packet is received, or lost.
Receive ==
    /\ Alive /\ flight # NoPacket
    /\ flight' = NoPacket
    /\ UNCHANGED <<config, set, sender>>

Next ==
    \/ BeginSet \/ handleDeviceLine \/ handleDeviceLineFails \/ mergeWithDevice
    \/ \E kind \in Kinds : CreateMessage(kind)
    \/ ReadCount \/ ReadMin \/ ReadMax \/ SendJunk \/ SendBuffers
    \/ Receive

Spec == Init /\ [][Next]_vars

-----------------------------------------------------------------------------
(* Properties                                                              *)

\* No word is a header of two types.
Separate == \A t, u \in Types, w \in Word :
                Validate(headers[t], w) /\ Validate(headers[u], w) => t = u

\* After a set operation that was accepted no word is a header of two types,
\* whatever was rejected before it: mergeWithDevice compares the headers of
\* the device, also those the operation did not name.
AcceptedDisjoint == set.result = "ok" => Separate

\* The packet was made with the headers and the paddings the receiver has.
SameConfig(p) == p.from = headers[TypeOf(p.type)] /\ p.made = paddings

\* No handshake message of another type and another padding has its size.
Unambiguous(p) ==
    \A t \in Handshake : \/ t = TypeOf(p.type)
                         \/ paddings[t] = paddings[TypeOf(p.type)]
                         \/ p.size # paddings[t] + MessageSize[t]

\* A padded message is taken for what it is by a device with the same headers
\* and paddings, whatever its padding and its ciphertext look like, if the
\* headers are disjoint and the sizes are not ambiguous.
Recognised ==
    flight # NoPacket /\ flight.type # "keepalive"
        /\ SameConfig(flight) /\ Separate /\ Unambiguous(flight)
    => DeterminePacketTypeAndPadding(flight) = flight.type

\* uapi.go:732: "headers must not overlap".
HeadersMustNotOverlap == set.result # "busy" => Separate

\* Settings that set operations accept do not stop the program: neither Generate
\* nor the choice of a junk size panics ("jmin", "jmax" and the headers are legal
\* as uapi.go checks them).
NoPanic == Alive

\* S4 is the "padding of transport messages" (README.md:77): with equal
\* settings a keepalive, too, is recognised as a transport message.
KeepaliveRecognised ==
    flight # NoPacket /\ flight.type = "keepalive"
        /\ SameConfig(flight) /\ Separate /\ Unambiguous(flight)
    => DeterminePacketTypeAndPadding(flight) = "transport"
===============================================================================
