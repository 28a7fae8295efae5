--------------------------- MODULE AwgConfigProofs ---------------------------
(***************************************************************************)
(* Proofs about AwgConfig, for every word size, every set of paddings and  *)
(* contents and every set of requests.                                     *)
(***************************************************************************)
EXTENDS AwgConfig, SequenceTheorems, TLAPS

\* A header that Generate draws lies in its range: the sum does not wrap.
LEMMA GenerateValid ==
    ASSUME NEW h \in Header, NEW w \in Generate(h)
    PROVE  w \in Word /\ Validate(h, w)
<1>1. h.start \in Nat /\ h.end \in Nat /\ h.start <= h.end /\ h.end < WordSize
  BY WordAssumption DEF Header, Word
<1>2. PICK r \in 0 .. High(h) - 1 : w = (h.start + r) % WordSize
  BY DEF Generate
<1>3. h.end - h.start + 1 \in 1 .. WordSize
  BY <1>1, WordAssumption
<1>4. CASE h.end - h.start + 1 = WordSize
  <2>1. High(h) = 0
    BY <1>4, WordAssumption DEF High
  <2> QED BY <2>1, <1>2
<1>5. CASE h.end - h.start + 1 < WordSize
  <2>1. High(h) = h.end - h.start + 1
    BY <1>3, <1>5, WordAssumption DEF High
  <2>2. r \in Nat /\ h.start + r <= h.end
    BY <1>1, <1>2, <2>1
  <2>3. h.start + r \in 0 .. WordSize - 1
    BY <1>1, <2>2, WordAssumption
  <2>4. w = h.start + r
    BY <1>2, <2>3, WordAssumption
  <2> QED BY <1>1, <2>2, <2>3, <2>4 DEF Word, Validate
<1> QED BY <1>1, <1>3, <1>4, <1>5, WordAssumption

\* newMagicHeader makes a range of a valid specification.
LEMMA HeaderMade ==
    ASSUME NEW spec \in Seq(Word), ValidSpec(spec)
    PROVE  newMagicHeader(spec) \in Header
<1>1. Len(spec) \in {1, 2} /\ spec[1] \in Word /\ spec[Len(spec)] \in Word
  BY DEF ValidSpec
<1> QED BY <1>1 DEF ValidSpec, newMagicHeader, Header

\* What the sender holds and what is in flight carry a header of their range,
\* and a packet has the size of its type.
SenderInv == sender.pc \in {"count", "min", "max", "junk", "pad"}
                => Validate(sender.from, sender.word)
FlightInv ==
    flight # NoPacket /\ flight.type # "keepalive"
        => /\ Validate(flight.from, flight.words[flight.made[flight.type]])
           /\ flight.type \in Handshake
                => flight.size = flight.made[flight.type] + MessageSize[flight.type]
           /\ flight.type = "transport"
                => flight.size >= flight.made[flight.type] + MessageSize[flight.type]
Inv == TypeOK /\ SenderInv /\ FlightInv /\ AcceptedDisjoint

-----------------------------------------------------------------------------
\* A line that is handled leaves well-formed settings.
LEMMA LineTypes ==
    ASSUME TypeOK, handleDeviceLine
    PROVE  TypeOK'
<1> DEFINE line == Head(set.lines)
<1>1. line \in Line /\ ValidLine(line) /\ Tail(set.lines) \in Seq(Line)
  BY DEF TypeOK, handleDeviceLine
<1>2. set' \in [lines : Seq(Line), result : {"busy", "ok", "error"}]
  BY <1>1 DEF TypeOK, handleDeviceLine
<1>3. sender' \in Sender /\ flight' \in Packet \cup {NoPacket}
  BY DEF TypeOK, handleDeviceLine
<1>4. CASE HandleHeader(line)
  <2>1. line.type \in Types /\ line.value \in Seq(Word) /\ ValidSpec(line.value)
    BY <1>1, <1>4 DEF HandleHeader, Line, HeaderLine, PaddingLine, JunkLine, ValidLine
  <2>2. newMagicHeader(line.value) \in Header
    BY <2>1, HeaderMade
  <2>3. headers' \in [Types -> Header]
    BY <1>4, <2>1, <2>2 DEF HandleHeader, TypeOK
  <2> QED BY <1>2, <1>3, <1>4, <2>3 DEF HandleHeader, TypeOK
<1>5. CASE HandlePadding(line)
  <2>1. line.key = "s" /\ line \in PaddingLine
    BY <1>1, <1>5 DEF HandlePadding, Line, HeaderLine, PaddingLine, JunkLine
  <2> HIDE DEF line
  <2>2. line.value >= 0
    BY <1>1, <2>1 DEF ValidLine
  <2>3. line.type \in Types /\ line.value \in Paddings
    BY <2>1, <2>2 DEF PaddingLine
  <2>4. paddings' \in [Types -> Paddings]
    BY <1>5, <2>3 DEF HandlePadding, TypeOK
  <2> QED BY <1>2, <1>3, <1>5, <2>4 DEF HandlePadding, TypeOK
<1>6. CASE HandleJunk(line)
  <2>1. line.key \in {"count", "min", "max"} /\ line \in JunkLine
    BY <1>1, <1>6 DEF HandleJunk, Line, HeaderLine, PaddingLine, JunkLine
  <2> HIDE DEF line
  <2>2. line.value > 0
    BY <1>1, <2>1 DEF ValidLine
  <2>3. line.value \in Nat
    BY <2>1, <2>2 DEF JunkLine
  <2>4. junk' \in [count : Nat, min : Nat, max : Nat]
    BY <1>6, <2>1, <2>3 DEF HandleJunk, TypeOK
  <2> QED BY <1>2, <1>3, <1>6, <2>4 DEF HandleJunk, TypeOK
<1> QED BY <1>4, <1>5, <1>6 DEF handleDeviceLine

\* The packet that is sent is a packet, with the size and the header of its type.
LEMMA SendTypes ==
    ASSUME Inv, SendBuffers
    PROVE  flight' \in Packet /\ FlightInv'
<1> DEFINE kind == sender.kind
           pad == Padding(kind)
<1>1. kind \in Kinds /\ sender.from \in Header /\ sender.word \in Word
      /\ Validate(sender.from, sender.word)
  BY DEF Inv, TypeOK, SenderInv, Sender, SendBuffers
<1>2. paddings \in [Types -> Paddings]
  BY DEF Inv, TypeOK
<1>3. PICK n \in Sizes(kind), words \in [Paddings -> Word] :
          /\ words[pad] = sender.word
          /\ flight' = [type |-> kind, size |-> pad + n,
                        words |-> words, from |-> sender.from, made |-> paddings]
  BY DEF SendBuffers
<1>4. pad \in Nat
  BY <1>1, <1>2, PaddingAssumption DEF Padding, Kinds, Types
<1>5. n \in Nat /\ (kind \in Handshake => n = MessageSize[kind])
      /\ (kind = "transport" => n >= MessageSize[kind])
  BY <1>1, ContentAssumption DEF Sizes, Handshake, Types, Kinds, MessageSize, TagSize
<1>6. flight' \in Packet
  BY <1>1, <1>2, <1>3, <1>4, <1>5 DEF Packet
<1>7. kind # "keepalive" => pad = paddings[kind] /\ kind \in Types
                            /\ MessageSize[kind] \in Nat
  BY <1>1 DEF Padding, Kinds, Types, MessageSize
<1>8. FlightInv'
  BY <1>1, <1>3, <1>4, <1>5, <1>7 DEF FlightInv
<1> QED BY <1>6, <1>8

\* The invariant holds at first.
LEMMA InvInit == Init => Inv
<1> SUFFICES ASSUME Init PROVE Inv
  OBVIOUS
<1>1. \A n \in 1 .. 4 : Single(n) \in Header
  BY WordAssumption DEF Single, Header, Word
<1>2. headers \in [Types -> Header]
  BY <1>1 DEF Init, Types
<1>3. sender \in Sender
  BY <1>1, WordAssumption DEF Init, Sender, Word, Kinds, Types
<1>4. TypeOK
  BY <1>2, <1>3, PaddingAssumption DEF Init, TypeOK
<1>5. Separate
  BY DEF Init, Separate, Types, Validate, Single, Word
<1> QED BY <1>4, <1>5 DEF Init, Inv, SenderInv, FlightInv, AcceptedDisjoint

\* The comparison of mergeWithDevice decides whether a word has two types.
LEMMA DisjointIsSeparate ==
    ASSUME TypeOK, Disjoint
    PROVE  Separate
<1> SUFFICES ASSUME NEW t \in Types, NEW u \in Types, NEW w \in Word,
                    Validate(headers[t], w), Validate(headers[u], w), t # u
             PROVE  FALSE
  BY DEF Separate
<1>1. headers[t] \in Header /\ headers[u] \in Header
  BY DEF TypeOK
<1>2. ~Overlap(headers[t], headers[u])
  BY DEF Disjoint
<1> QED BY <1>1, <1>2, WordAssumption DEF Overlap, Validate, Header, Word

\* Every step keeps the invariant.
LEMMA InvNext == Inv /\ [Next]_vars => Inv'
<1> SUFFICES ASSUME Inv, [Next]_vars PROVE Inv'
  OBVIOUS
<1> USE DEF Inv
<1>1. CASE UNCHANGED vars
  BY <1>1 DEF vars, TypeOK, SenderInv, FlightInv, AcceptedDisjoint, Separate
<1>2. CASE BeginSet
  <2>1. PICK r \in Requests : set' = [lines |-> r, result |-> "busy"]
    BY <1>2 DEF BeginSet
  <2>2. r \in Seq(Line)
    BY RequestAssumption
  <2> QED BY <1>2, <2>1, <2>2
          DEF BeginSet, TypeOK, SenderInv, FlightInv, AcceptedDisjoint
<1>3. CASE handleDeviceLine
  <2>1. TypeOK'
    BY <1>3, LineTypes
  <2>2. set'.result = "busy"
    BY <1>3 DEF handleDeviceLine, TypeOK
  <2> QED BY <1>3, <2>1, <2>2
          DEF handleDeviceLine, SenderInv, FlightInv, AcceptedDisjoint
<1>4. CASE handleDeviceLineFails
  BY <1>4 DEF handleDeviceLineFails, config, TypeOK, SenderInv, FlightInv, AcceptedDisjoint
<1>5. CASE mergeWithDevice
  <2>1. TypeOK' /\ SenderInv' /\ FlightInv'
    BY <1>5 DEF mergeWithDevice, config, TypeOK, SenderInv, FlightInv
  <2>2. ASSUME set'.result = "ok" PROVE Separate'
    <3>1. Disjoint
      BY <1>5, <2>2 DEF mergeWithDevice
    <3>2. Separate
      BY <3>1, DisjointIsSeparate
    <3> QED BY <1>5, <3>2 DEF mergeWithDevice, config, Separate
  <2> QED BY <2>1, <2>2 DEF AcceptedDisjoint
<1>6. ASSUME NEW kind \in Kinds, CreateMessage(kind) PROVE Inv'
  <2> DEFINE h == headers[TypeOf(kind)]
  <2>1. TypeOf(kind) \in Types
    BY DEF TypeOf, Kinds, Types
  <2>2. h \in Header
    BY <2>1 DEF TypeOK
  <2>3. AcceptedDisjoint' /\ FlightInv'
    BY <1>6 DEF CreateMessage, config, FlightInv, AcceptedDisjoint, Separate
  <2>4. CASE sender' = [sender EXCEPT !.pc = "panic"]
    BY <1>6, <2>3, <2>4 DEF CreateMessage, config, TypeOK, Sender, SenderInv
  <2>5. ASSUME NEW w \in Generate(h),
               sender' = [sender EXCEPT !.pc = IF kind = "init" THEN "count" ELSE "pad",
                                        !.kind = kind, !.word = w, !.from = h]
        PROVE  Inv'
    <3>1. w \in Word /\ Validate(h, w)
      BY <2>2, GenerateValid
    <3>2. sender' \in Sender /\ SenderInv'
      BY <2>2, <2>5, <3>1 DEF TypeOK, Sender, SenderInv
    <3> QED BY <1>6, <2>3, <3>2 DEF CreateMessage, config, TypeOK
  <2> QED BY <1>6, <2>4, <2>5 DEF CreateMessage
<1>7. CASE ReadCount \/ ReadMin \/ ReadMax \/ SendJunk
  <2>1. sender' \in Sender /\ SenderInv'
    BY <1>7 DEF ReadCount, ReadMin, ReadMax, SendJunk, TypeOK, Sender, SenderInv
  <2>2. UNCHANGED <<config, set, flight>>
    BY <1>7 DEF ReadCount, ReadMin, ReadMax, SendJunk
  <2> QED BY <2>1, <2>2 DEF config, TypeOK, FlightInv, AcceptedDisjoint, Separate
<1>8. CASE SendBuffers
  <2>1. flight' \in Packet /\ FlightInv'
    BY <1>8, SendTypes
  <2>2. sender' \in Sender /\ SenderInv'
    BY <1>8 DEF SendBuffers, TypeOK, Sender, SenderInv
  <2> QED BY <1>8, <2>1, <2>2 DEF SendBuffers, config, TypeOK, AcceptedDisjoint, Separate
<1>9. CASE Receive
  BY <1>9 DEF Receive, config, TypeOK, SenderInv, FlightInv, AcceptedDisjoint, Separate
<1> QED BY <1>1, <1>2, <1>3, <1>4, <1>5, <1>6, <1>7, <1>8, <1>9 DEF Next

\* The first type that fits is the one the packet was made with.
LEMMA InvRecognised == Inv => Recognised
<1> SUFFICES ASSUME Inv, flight # NoPacket, flight.type # "keepalive",
                    SameConfig(flight), Separate, Unambiguous(flight)
             PROVE  DeterminePacketTypeAndPadding(flight) = flight.type
  BY DEF Recognised
<1> DEFINE t == flight.type
           word == flight.words[paddings[t]]
<1>1. flight \in Packet /\ t \in Types /\ TypeOf(t) = t
  BY DEF Inv, TypeOK, Packet, Kinds, TypeOf
<1>2. paddings[t] \in Paddings /\ word \in Word
  BY <1>1 DEF Inv, TypeOK, Packet
<1>3. Validate(headers[t], word)
  BY <1>1 DEF Inv, FlightInv, SameConfig
<1>4. SizeFits(flight, t)
  BY <1>1 DEF Inv, FlightInv, SameConfig, SizeFits, Types, Handshake
<1>5. Candidate(flight, t)
  BY <1>3, <1>4 DEF Candidate
<1>6. ASSUME NEW u \in Handshake, u # t PROVE ~Candidate(flight, u)
  <2>1. CASE paddings[u] = paddings[t]
    BY <1>1, <1>2, <1>3, <1>6, <2>1 DEF Separate, Candidate, Handshake
  <2>2. CASE flight.size # paddings[u] + MessageSize[u]
    BY <1>6, <2>2 DEF Candidate, SizeFits, Handshake
  <2> QED BY <1>1, <1>6, <2>1, <2>2 DEF Unambiguous
<1> DEFINE fits == Fits(flight)
<1>7. PICK k \in 1 .. 4 : Order[k] = t
  BY <1>1 DEF Order, Types
<1>8. k \in fits
  BY <1>5, <1>7 DEF Fits
<1>9. \A j \in fits : k <= j
  <2> SUFFICES ASSUME NEW j \in fits, j < k PROVE FALSE
    BY <1>8 DEF Fits
  <2>1. j \in 1 .. 3 /\ Candidate(flight, Order[j]) /\ Order[j] # t
    BY <1>7 DEF Fits, Order
  <2>2. Order[j] \in Handshake
    BY <2>1 DEF Order, Handshake, Types
  <2> QED BY <1>6, <2>1, <2>2
<1> HIDE DEF fits
<1>10. (CHOOSE i \in fits : \A j \in fits : i <= j) = k
  <2>1. fits \subseteq 1 .. 4
    BY DEF fits, Fits
  <2> DEFINE i == CHOOSE i \in fits : \A j \in fits : i <= j
  <2>2. i \in fits /\ \A j \in fits : i <= j
    BY <1>8, <1>9
  <2> HIDE DEF i
  <2>3. i \in Nat /\ i <= k /\ k <= i
    BY <1>8, <1>9, <2>1, <2>2
  <2> QED BY <2>1, <2>3, <1>8 DEF i
<1> QED BY <1>7, <1>8, <1>10 DEF DeterminePacketTypeAndPadding, fits

-----------------------------------------------------------------------------
\* The settings are well formed at every step of every set operation, also of
\* one that is refused half way (handleDeviceLine, newMagicHeader).
THEOREM SettingsTyped == Spec => []TypeOK
<1>1. Inv => TypeOK
  BY DEF Inv
<1> QED BY InvInit, InvNext, <1>1, PTL DEF Spec

\* After an accepted set operation no word is a header of two message types,
\* whatever was set or refused before (mergeWithDevice).
THEOREM AcceptedIsDisjoint == Spec => []AcceptedDisjoint
<1>1. Inv => AcceptedDisjoint
  BY DEF Inv
<1> QED BY InvInit, InvNext, <1>1, PTL DEF Spec

\* Every padded message is taken for what it is by a device with the same
\* settings, if no word has two types and no size is ambiguous
\* (DeterminePacketTypeAndPadding).
THEOREM MessagesRecognised == Spec => []Recognised
<1> QED BY InvInit, InvNext, InvRecognised, PTL DEF Spec
===============================================================================
