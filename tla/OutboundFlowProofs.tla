-------------------------- MODULE OutboundFlowProofs --------------------------
(***************************************************************************)
(* Nonces, pools and order of the outbound flow, for any set of goroutines *)
(* and any bounds.                                                         *)
(*                                                                         *)
(* All three rest on who has what: every container is in one place         *)
(* (PlaceInv), every element in one container (ElementInv), and what a     *)
(* container may hold depends on the place it is in (ThreadInv, KeyInv).   *)
(***************************************************************************)
EXTENDS OutboundFlow, FiniteSetTheorems, SequenceTheorems, TLAPS

-----------------------------------------------------------------------------
(* Types *)

Pc == {"idle", "read", "stage", "keepalive", "flush", "top", "take", "nonce", "store", "restage",
       "check", "outbound", "encryption"}
Controls == {"started", "nil", "stopping", "flushing", "stopped", "starting", "removed"}
Maybe == Container \cup {Nil}

Element == [packet : Int, key : Key \cup {NoKey}, nonce : Nat, sealed : BOOLEAN]
Sent == [packet : Int, sealed : BOOLEAN]
Box == [elems : Seq(Elem), locked : BOOLEAN]
Local == [pc : Pc, key : Key \cup {NoKey}, c : Maybe, ooo : Maybe, i : Nat, kept : Seq(Elem)]

PoolTypes ==
    /\ elem \in [Elem -> Element]
    /\ cont \in [Container -> Box]
    /\ elemPool \in [free : SUBSET Elem, count : Int]
    /\ contPool \in [free : SUBSET Container, count : Int]

QueueTypes ==
    /\ staged \in Seq(Container) /\ encryption \in Seq(Container)
    /\ outbound \in Seq(Maybe)
    /\ thread \in [Thread -> Local]
    /\ sender \in [pc : {"idle", "send", "return", "off"}, c : Maybe]

PeerTypes ==
    /\ keys \in [current : Key \cup {NoKey}, next : Key \cup {NoKey}, made : Nat]
    /\ keys.made <= MaxKeys
    /\ sendNonce \in [Key -> Nat]
    /\ control \in Controls
    /\ packets \in [read : Nat, keepalives : Nat]
    /\ packets.read <= MaxPackets /\ packets.keepalives <= MaxKeepalives

-----------------------------------------------------------------------------
(* Places *)

Drawing == {"nonce", "store"}
Busy(t) == thread[t].pc \in Drawing

\* The container that goroutine t fills while it draws nonces for c.
Hand(r) == (IF r.pc \in {"nonce", "store", "restage"} THEN {r.c, r.ooo}
            ELSE IF r.pc = "encryption" THEN {} ELSE {r.c}) \ {Nil}
Hands == [t \in Thread |-> Hand(thread[t])]
Staged == Range(staged)
Out == Range(outbound) \ {Nil}
Sending == {sender.c} \ {Nil}

\* Each container is in one place.
Places(pool, st, out, snd, hands) ==
    /\ pool \cap st = {} /\ pool \cap out = {} /\ pool \cap snd = {}
    /\ st \cap out = {} /\ st \cap snd = {} /\ out \cap snd = {}
    /\ \A t \in Thread : hands[t] \cap (pool \cup st \cup out \cup snd) = {}
    /\ \A t, u \in Thread : t # u => hands[t] \cap hands[u] = {}
    /\ \A c \in Container : c \in pool \cup st \cup out \cup snd \/ \E t \in Thread : c \in hands[t]

PlaceInv ==
    /\ Places(contPool.free, Staged, Out, Sending, Hands)
    /\ IsInjective(staged) /\ IsInjective(outbound) /\ IsInjective(encryption)
    /\ contPool.count = Cardinality(Container \ contPool.free)

\* The sender and the nil that ends it.
SenderInv ==
    /\ sender.c = Nil <=> sender.pc \in {"idle", "off"}
    /\ Nil \in Range(outbound) => control = "stopping" /\ sender.pc # "off"
    /\ sender.pc = "off" => control \notin {"started", "nil"}
    /\ control \in {"flushing", "stopped", "starting", "removed"} => sender.pc = "off"

\* What a goroutine has where.
LocalOK(r) ==
    /\ r.pc \in {"idle", "flush", "top", "take"} => r.c = Nil
    /\ r.pc \notin {"idle", "flush", "top", "take"} => r.c # Nil
    /\ r.pc \in {"idle", "flush", "top", "take", "read", "stage", "keepalive"} => r.ooo = Nil
    /\ r.pc \in Drawing \cup {"take", "restage", "check", "outbound", "encryption"} => r.key # NoKey
    /\ r.pc \in Drawing \cup {"restage"} => r.ooo # r.c
    /\ r.pc = "restage" => r.ooo # Nil

\* The loop over the elements of a container.
LoopOK(r, es) ==
    /\ r.i \in DOMAIN es
    /\ IsInjective(r.kept)
    /\ \A m \in DOMAIN r.kept, j \in r.i .. Len(es) : r.kept[m] # es[j]

ThreadInv ==
    /\ \A t \in Thread : LocalOK(thread[t])
    /\ \A t \in Thread : Busy(t) => LoopOK(thread[t], cont[thread[t].c].elems)

\* Containers in the hands of goroutines, by what they are for.
Fresh == {"read", "stage", "keepalive"}
Done == {"restage", "check", "outbound"}
Raw == Staged \cup {thread[t].c : t \in {u \in Thread : thread[u].pc \in Fresh}}
         \cup ({thread[t].ooo : t \in {u \in Thread : thread[u].pc \in Drawing \cup {"restage"}}} \ {Nil})
Cooked == Out \cup Sending \cup {thread[t].c : t \in {u \in Thread : thread[u].pc \in Done}}

ContainerInv ==
    /\ \A c \in Container : IsInjective(cont[c].elems)
    /\ \A c \in contPool.free : cont[c].elems = <<>>
    /\ \A c \in Raw : cont[c].elems # <<>>

\* The mutex of a container is held until the workers are done with it.
LockInv ==
    /\ \A c \in Range(encryption) : cont[c].locked /\ c \in Out \cup Sending
    /\ \A t \in Thread : thread[t].pc \in Done \cup {"encryption"} => cont[thread[t].c].locked
    /\ \A t \in Thread : thread[t].pc = "encryption" =>
         thread[t].c \in Out \cup Sending /\ thread[t].c \notin Range(encryption)
    /\ \A t, u \in Thread :
         thread[t].pc = "encryption" /\ thread[u].pc = "encryption" /\ thread[t].c = thread[u].c => t = u

-----------------------------------------------------------------------------
(* Elements *)

Rest(r, es) == {es[j] : j \in r.i .. Len(es)}
DrawnFor(c) == {t \in Thread : Busy(t) /\ thread[t].c = c}

\* The elements of a container; while its nonces are drawn, the ones that have
\* one and the ones whose turn is to come.
Own(c) ==
    IF DrawnFor(c) = {} THEN Elems(c)
    ELSE UNION {Range(thread[t].kept) \cup Rest(thread[t], cont[c].elems) : t \in DrawnFor(c)}
Owned == [c \in Container |-> Own(c)]

\* Each element is in one container.
Shares(free, owned) ==
    /\ \A c \in Container : owned[c] \subseteq Elem /\ owned[c] \cap free = {}
    /\ \A c, d \in Container : c # d => owned[c] \cap owned[d] = {}
    /\ \A e \in Elem : e \in free \/ \E c \in Container : e \in owned[c]

ElementInv ==
    /\ Shares(elemPool.free, Owned)
    /\ elemPool.count = Cardinality(Elem \ elemPool.free)
    /\ elemPool.count <= packets.read + packets.keepalives

-----------------------------------------------------------------------------
(* Nonces *)

\* The nonce was drawn from the counter and is below the limit.
Used(nonce, counter) == nonce < RejectAfter /\ (nonce < counter \/ counter >= RejectAfter)

NonceInv ==
    /\ \A e \in Elem : elem[e].key # NoKey => Used(elem[e].nonce, sendNonce[elem[e].key])
    /\ \A e, f \in Elem : elem[e].key # NoKey /\ elem[e].key = elem[f].key
                          /\ elem[e].nonce = elem[f].nonce => e = f
    /\ \A a \in sealed : a[1] \in Key /\ a[2] \in Nat /\ Used(a[2], sendNonce[a[1]])
    /\ \A a \in sealed, e \in Elem :
         a[1] = elem[e].key /\ a[2] = elem[e].nonce => a = <<elem[e].key, elem[e].nonce, elem[e].packet>>
    /\ NonceOnce

\* Which elements have a nonce.
KeyInv ==
    /\ \A c \in Raw : \A e \in Elems(c) : elem[e].key = NoKey
    /\ \A c \in Cooked : \A e \in Elems(c) : elem[e].key # NoKey
    /\ \A t \in Thread : Busy(t) =>
         /\ \A e \in Range(thread[t].kept) : elem[e].key # NoKey
         /\ \A e \in Rest(thread[t], cont[thread[t].c].elems) : elem[e].key = NoKey

\* The counter is above the limit only by the goroutines that will put it back.
Storing(k) == {t \in Thread : thread[t].pc = "store" /\ thread[t].key = k}
CounterInv == \A k \in Key : sendNonce[k] <= RejectAfter + Cardinality(Storing(k))

-----------------------------------------------------------------------------
(* Order *)

Read == (-packets.keepalives .. packets.read) \ {0}

PacketInv ==
    /\ \A e \in Elem \ elemPool.free : elem[e].packet \in Read
    /\ \A e, f \in Elem \ elemPool.free : elem[e].packet = elem[f].packet => e = f
    /\ queued \in Seq(Int) /\ IsInjective(queued) /\ Range(queued) \subseteq Read
    /\ \A c \in Out \cup Sending : \A e \in Elems(c) : elem[e].packet \in Range(queued)
    /\ \A c \in Container \ (Out \cup Sending) : \A e \in Own(c) : elem[e].packet \notin Range(queued)
    /\ \A c \in Out \cup Sending : ~cont[c].locked => \A e \in Elems(c) : elem[e].sealed

Pos(e) == Position(elem[e].packet)
InOrder(c) == \A i, j \in DOMAIN cont[c].elems : \A e, f \in Elems(c) :
                i < j /\ cont[c].elems[i] = e /\ cont[c].elems[j] = f => Pos(e) < Pos(f)
Before(c, d) == \A e \in Elems(c), f \in Elems(d) : Pos(e) < Pos(f)
SentBefore(c) == \A i \in DOMAIN wire : \A e \in Elems(c) : Position(wire[i].packet) < Pos(e)

OrderInv ==
    /\ wire \in Seq(Sent)
    /\ \A i \in DOMAIN wire : wire[i].packet \in Range(queued)
    /\ \A c \in Out \cup Sending : InOrder(c)
    /\ \A i, j \in DOMAIN outbound : \A c, d \in Out :
         i < j /\ outbound[i] = c /\ outbound[j] = d => Before(c, d)
    /\ \A c \in Sending, d \in Out : Before(c, d)
    /\ \A c \in Out \cup Sending : SentBefore(c)
    /\ SentAsQueued

PoolInv == PoolTypes /\ QueueTypes /\ PeerTypes /\ PlaceInv /\ SenderInv /\ ThreadInv /\ ContainerInv
             /\ LockInv /\ ElementInv
Inv == PoolInv /\ NonceInv /\ KeyInv /\ CounterInv /\ PacketInv /\ OrderInv

-----------------------------------------------------------------------------
(* Sequences *)

LEMMA AppendFacts ==
    ASSUME NEW S, NEW s \in Seq(S), NEW x \in S
    PROVE  /\ Append(s, x) \in Seq(S) /\ Append(s, x) # <<>>
           /\ Len(Append(s, x)) = Len(s) + 1 /\ DOMAIN Append(s, x) = 1 .. Len(s) + 1
           /\ \A i \in DOMAIN s : Append(s, x)[i] = s[i]
           /\ Append(s, x)[Len(s) + 1] = x
           /\ Range(Append(s, x)) = Range(s) \cup {x}
           /\ IsInjective(s) /\ x \notin Range(s) => IsInjective(Append(s, x))
<1>1. /\ Append(s, x) \in Seq(S) /\ Append(s, x) # <<>> /\ DOMAIN Append(s, x) = 1 .. Len(s) + 1
      /\ Len(Append(s, x)) = Len(s) + 1
      /\ \A i \in DOMAIN s : Append(s, x)[i] = s[i]
      /\ Append(s, x)[Len(s) + 1] = x
  OBVIOUS
<1>2. DOMAIN s = 1 .. Len(s) /\ Len(s) \in Nat
  OBVIOUS
<1>3. Range(Append(s, x)) = Range(s) \cup {x}
  <2>1. \A y : y \in Range(Append(s, x)) => y \in Range(s) \cup {x}
    BY <1>1, <1>2 DEF Range
  <2>2. \A y : y \in Range(s) => y \in Range(Append(s, x))
    BY <1>1, <1>2 DEF Range
  <2>3. x \in Range(Append(s, x))
    BY <1>1, <1>2 DEF Range
  <2> QED BY <2>1, <2>2, <2>3
<1>4. IsInjective(s) /\ x \notin Range(s) => IsInjective(Append(s, x))
  BY <1>1, <1>2 DEF Range, IsInjective
<1> QED BY <1>1, <1>3, <1>4

LEMMA TailFacts ==
    ASSUME NEW S, NEW s \in Seq(S), s # <<>>, IsInjective(s)
    PROVE  /\ Head(s) \in S /\ Head(s) \in Range(s) /\ Head(s) = s[1]
           /\ Tail(s) \in Seq(S) /\ DOMAIN Tail(s) = 1 .. Len(s) - 1
           /\ \A i \in DOMAIN Tail(s) : Tail(s)[i] = s[i + 1] /\ i + 1 \in DOMAIN s
           /\ Range(Tail(s)) = Range(s) \ {Head(s)}
           /\ IsInjective(Tail(s))
<1>1. /\ Head(s) \in S /\ Head(s) = s[1] /\ Tail(s) \in Seq(S) /\ DOMAIN Tail(s) = 1 .. Len(s) - 1
      /\ DOMAIN s = 1 .. Len(s) /\ Len(s) \in Nat /\ Len(s) >= 1
      /\ \A i \in DOMAIN Tail(s) : Tail(s)[i] = s[i + 1] /\ i + 1 \in DOMAIN s
  OBVIOUS
<1>2. Head(s) \in Range(s)
  BY <1>1 DEF Range
<1>3. IsInjective(Tail(s))
  BY <1>1 DEF IsInjective
<1>4. \A y : y \in Range(Tail(s)) => y \in Range(s) \ {Head(s)}
  BY <1>1 DEF Range, IsInjective
<1>5. ASSUME NEW y \in Range(s) \ {Head(s)} PROVE y \in Range(Tail(s))
  <2>1. PICK i \in DOMAIN s : s[i] = y
    BY DEF Range
  <2>2. i - 1 \in DOMAIN Tail(s) /\ Tail(s)[i - 1] = y
    BY <1>1, <2>1
  <2> QED BY <2>2 DEF Range
<1> QED BY <1>1, <1>2, <1>3, <1>4, <1>5

LEMMA RemoveHead ==
    ASSUME NEW S, NEW s \in Seq(S), s # <<>>
    PROVE  RemoveAt(s, 1) = Tail(s) /\ 1 \in DOMAIN s
<1>1. RemoveAt(s, 1) = SubSeq(s, 1, 0) \o SubSeq(s, 2, Len(s))
  BY DEF RemoveAt
<1>2. SubSeq(s, 1, 0) = <<>>
  OBVIOUS
<1>3. SubSeq(s, 2, Len(s)) \in Seq(S) /\ SubSeq(s, 2, Len(s)) = Tail(s)
  BY HeadTailProperties, TailIsSubSeq
<1>4. <<>> \o Tail(s) = Tail(s)
  BY HeadTailProperties, ConcatEmptySeq
<1>5. 1 \in DOMAIN s
  OBVIOUS
<1> QED BY <1>1, <1>2, <1>3, <1>4, <1>5

LEMMA RemoveAtFacts ==
    ASSUME NEW S, NEW s \in Seq(S), NEW i \in DOMAIN s, IsInjective(s)
    PROVE  /\ RemoveAt(s, i) \in Seq(S)
           /\ Range(RemoveAt(s, i)) = Range(s) \ {s[i]}
           /\ IsInjective(RemoveAt(s, i))
<1> DEFINE r == RemoveAt(s, i)
<1>1. DOMAIN s = 1 .. Len(s) /\ Len(s) \in Nat /\ i \in 1 .. Len(s)
  OBVIOUS
<1>2. SubSeq(s, 1, i - 1) \in Seq(S) /\ Len(SubSeq(s, 1, i - 1)) = i - 1
      /\ \A j \in 1 .. i - 1 : SubSeq(s, 1, i - 1)[j] = s[j]
  BY <1>1
<1>3. SubSeq(s, i + 1, Len(s)) \in Seq(S) /\ Len(SubSeq(s, i + 1, Len(s))) = Len(s) - i
      /\ \A j \in 1 .. Len(s) - i : SubSeq(s, i + 1, Len(s))[j] = s[i + j]
  BY <1>1
<1>4. r \in Seq(S) /\ DOMAIN r = 1 .. Len(s) - 1
      /\ \A j \in 1 .. Len(s) - 1 : r[j] = IF j < i THEN s[j] ELSE s[j + 1]
  <2> DEFINE a == SubSeq(s, 1, i - 1)
             b == SubSeq(s, i + 1, Len(s))
  <2>1. r = a \o b
    BY DEF RemoveAt
  <2> HIDE DEF a, b, r
  <2>2. a \in Seq(S) /\ b \in Seq(S) /\ Len(a) = i - 1 /\ Len(b) = Len(s) - i
    BY <1>2, <1>3 DEF a, b
  <2>3. r \in Seq(S) /\ Len(r) = Len(s) - 1
        /\ \A j \in 1 .. Len(r) : r[j] = IF j <= Len(a) THEN a[j] ELSE b[j - Len(a)]
    <3>1. /\ a \o b \in Seq(S) /\ Len(a \o b) = Len(a) + Len(b)
          /\ \A j \in 1 .. Len(a) + Len(b) : (a \o b)[j] = IF j <= Len(a) THEN a[j] ELSE b[j - Len(a)]
      BY <2>2, ConcatProperties
    <3> QED BY <1>1, <2>1, <2>2, <3>1, SMTT(30)
  <2>4. \A j \in 1 .. i - 1 : a[j] = s[j]
    BY <1>2 DEF a
  <2>5. \A j \in 1 .. Len(s) - i : b[j] = s[i + j]
    BY <1>3 DEF b
  <2>6. DOMAIN r = 1 .. Len(s) - 1 /\ Len(r) = Len(s) - 1
    BY <1>1, <2>3
  <2>7. ASSUME NEW j \in 1 .. Len(s) - 1
        PROVE  r[j] = IF j < i THEN s[j] ELSE s[j + 1]
    <3>1. CASE j < i
      BY <1>1, <2>2, <2>3, <2>4, <3>1
    <3>2. CASE ~(j < i)
      <4>1. r[j] = b[j - (i - 1)] /\ j - (i - 1) \in 1 .. Len(s) - i
        BY <1>1, <2>2, <2>3, <3>2, SMTT(30)
      <4>2. i + (j - (i - 1)) = j + 1
        BY <1>1
      <4> QED BY <2>5, <3>2, <4>1, <4>2
    <3> QED BY <3>1, <3>2
  <2> QED BY <2>3, <2>6, <2>7
<1> HIDE DEF r
<1>5. IsInjective(r)
  <2> DEFINE at(j) == IF j < i THEN j ELSE j + 1
  <2>1. \A j \in 1 .. Len(s) - 1 : r[j] = s[at(j)] /\ at(j) \in DOMAIN s
    BY <1>1, <1>4
  <2>2. \A j, k \in 1 .. Len(s) - 1 : at(j) = at(k) => j = k
    BY <1>1
  <2> HIDE DEF at
  <2>3. ASSUME NEW j \in 1 .. Len(s) - 1, NEW k \in 1 .. Len(s) - 1, r[j] = r[k] PROVE j = k
    <3>1. at(j) = at(k)
      BY <2>1, <2>3 DEF IsInjective
    <3> QED BY <2>2, <3>1
  <2> QED BY <1>4, <2>3 DEF IsInjective
<1>6. \A y : y \in Range(r) => y \in Range(s) \ {s[i]}
  <2>1. ASSUME NEW j \in 1 .. Len(s) - 1 PROVE r[j] \in Range(s) /\ r[j] # s[i]
    <3>1. CASE j < i
      <4>1. r[j] = s[j] /\ j \in DOMAIN s /\ j # i
        BY <1>1, <1>4, <3>1
      <4> QED BY <4>1 DEF Range, IsInjective
    <3>2. CASE ~(j < i)
      <4>1. r[j] = s[j + 1] /\ j + 1 \in DOMAIN s /\ j + 1 # i
        BY <1>1, <1>4, <3>2
      <4> QED BY <4>1 DEF Range, IsInjective
    <3> QED BY <3>1, <3>2
  <2> QED BY <1>4, <2>1 DEF Range
<1>7. ASSUME NEW y \in Range(s) \ {s[i]} PROVE y \in Range(r)
  <2>1. PICK j \in DOMAIN s : s[j] = y
    BY DEF Range
  <2>2. CASE j < i
    BY <1>1, <1>4, <2>1, <2>2 DEF Range
  <2>3. CASE j > i
    <3>1. j - 1 \in DOMAIN r /\ r[j - 1] = y
      BY <1>1, <1>4, <2>1, <2>3
    <3> QED BY <3>1 DEF Range
  <2> QED BY <1>1, <2>1, <2>2, <2>3
<1>8. Range(r) = Range(s) \ {s[i]}
  BY <1>6, <1>7
<1> QED BY <1>4, <1>5, <1>8 DEF r

-----------------------------------------------------------------------------
(* Constants and operators *)

LEMMA Facts ==
    /\ Batch \in Nat /\ StagedSize \in Nat /\ StagedSize >= 1 /\ RejectAfter \in Nat /\ MaxKeys \in Nat
    /\ MaxPackets \in Nat /\ MaxKeepalives \in Nat /\ Counter \in Nat
    /\ Cardinality(Thread) \in Nat /\ IsFiniteSet(Thread) /\ Counter > RejectAfter + Cardinality(Thread)
    /\ Nil \notin Container /\ NoKey \notin Key /\ NoKey = 0 /\ Tun \in Thread
    /\ Key = 1 .. MaxKeys
BY OutboundAssumption, NilAssumption, FS_CardinalityType DEF Key, NoKey

LEMMA NameFacts ==
    /\ IsFiniteSet(Elem) /\ Cardinality(Elem) = MaxPackets + MaxKeepalives
    /\ IsFiniteSet(Container)
    /\ Elem = 1 .. MaxPackets + MaxKeepalives
<1>1. 1 \in Int /\ MaxPackets + MaxKeepalives \in Nat
      /\ MaxPackets + MaxKeepalives + Cardinality(Thread) \in Nat
  BY Facts
<1>2. \A n \in Nat : IsFiniteSet(1 .. n) /\ Cardinality(1 .. n) = n
  <2> TAKE n \in Nat
  <2>1. n \in Int
    OBVIOUS
  <2> QED BY <2>1, FS_Interval
<1> QED BY <1>1, <1>2 DEF Elem, Container

LEMMA IdleFacts ==
    /\ Idle \in Local /\ LocalOK(Idle) /\ Hand(Idle) = {} /\ Idle.pc = "idle" /\ Idle.c = Nil
    /\ Idle.ooo = Nil /\ Idle.kept = <<>> /\ Idle.i = 1 /\ Idle.key = NoKey
<1>1. <<>> \in Seq(Elem) /\ 1 \in Nat
  OBVIOUS
<1> QED BY <1>1 DEF Idle, Local, LocalOK, Hand, Pc, Drawing, Maybe

\* A goroutine that is at another point with a container it already has.
LEMMA LocalPc ==
    ASSUME NEW r \in Local, NEW pc \in Pc
    PROVE  /\ [r EXCEPT !.pc = pc] \in Local /\ [r EXCEPT !.pc = pc].pc = pc
           /\ [r EXCEPT !.pc = pc].c = r.c /\ [r EXCEPT !.pc = pc].ooo = r.ooo
           /\ [r EXCEPT !.pc = pc].key = r.key /\ [r EXCEPT !.pc = pc].i = r.i
           /\ [r EXCEPT !.pc = pc].kept = r.kept
BY DEF Local

\* A goroutine that starts afresh, with a container, a keypair or neither.
Starts(r, pc, k, c) ==
    /\ r \in Local
    /\ r.pc = pc /\ r.key = k /\ r.c = c /\ r.ooo = Nil /\ r.i = 1 /\ r.kept = <<>>

LEMMA LocalNew ==
    ASSUME NEW pc \in Pc, NEW k \in Key \cup {NoKey}, NEW c \in Maybe
    PROVE  /\ Starts([Idle EXCEPT !.pc = pc], pc, NoKey, Nil)
           /\ Starts([Idle EXCEPT !.pc = pc, !.c = c], pc, NoKey, c)
           /\ Starts([Idle EXCEPT !.pc = pc, !.key = k], pc, k, Nil)
           /\ Starts([Idle EXCEPT !.pc = pc, !.key = k, !.c = c], pc, k, c)
           /\ Starts(Idle, "idle", NoKey, Nil)
<1>1. Idle \in Local
  BY IdleFacts
<1>2. Starts([Idle EXCEPT !.pc = pc], pc, NoKey, Nil)
  BY <1>1 DEF Starts, Idle, Local
<1>3. Starts([Idle EXCEPT !.pc = pc, !.c = c], pc, NoKey, c)
  BY <1>1 DEF Starts, Idle, Local
<1>4. Starts([Idle EXCEPT !.pc = pc, !.key = k], pc, k, Nil)
  BY <1>1 DEF Starts, Idle, Local
<1>5. Starts([Idle EXCEPT !.pc = pc, !.key = k, !.c = c], pc, k, c)
  BY <1>1 DEF Starts, Idle, Local
<1> QED BY <1>2, <1>3, <1>4, <1>5, IdleFacts DEF Starts

LEMMA EmptyFacts ==
    /\ Empty \in Box /\ Empty.elems = <<>> /\ Empty.locked = FALSE /\ Range(<<>>) = {}
    /\ IsInjective(<<>>)
    /\ Blank \in Element /\ Blank.key = NoKey
<1>1. <<>> \in Seq(Elem) /\ 0 \in Int /\ 0 \in Nat
  OBVIOUS
<1> QED BY <1>1 DEF Empty, Blank, Box, Element, Range, IsInjective

\* Who has a container has it alone.
LEMMA HandFacts ==
    ASSUME QueueTypes, PlaceInv, SenderInv, ThreadInv, LockInv, NEW t \in Thread
    PROVE  /\ thread[t] \in Local /\ Hand(thread[t]) = InHand(t)
           /\ Busy(t) => thread[t].c \in Container /\ thread[t].c \in Hand(thread[t])
           /\ thread[t].pc \in Fresh \cup Done =>
                thread[t].c \in Container /\ thread[t].c \in Hand(thread[t])
           /\ thread[t].pc \in Drawing \cup {"restage"} /\ thread[t].ooo # Nil =>
                thread[t].ooo \in Container /\ thread[t].ooo \in Hand(thread[t])
           /\ Hand(thread[t]) \subseteq Container
           /\ Hand(thread[t]) \cap (contPool.free \cup Staged \cup Out \cup Sending) = {}
           /\ \A u \in Thread : u # t => Hand(thread[t]) \cap Hand(thread[u]) = {}
<1>1. thread[t] \in Local /\ LocalOK(thread[t])
  BY DEF QueueTypes, ThreadInv
<1>2. Hand(thread[t]) = Hands[t] /\ \A u \in Thread : Hand(thread[u]) = Hands[u]
  BY DEF Hands
<1>3. Hand(thread[t]) = InHand(t)
  BY DEF Hand, InHand, At
<1>4. /\ Hand(thread[t]) \cap (contPool.free \cup Staged \cup Out \cup Sending) = {}
      /\ \A u \in Thread : u # t => Hand(thread[t]) \cap Hand(thread[u]) = {}
  BY <1>2 DEF PlaceInv, Places
<1>5. Busy(t) => thread[t].c \in Container /\ thread[t].c \in Hand(thread[t])
  BY <1>1 DEF Local, LocalOK, Hand, Busy, Drawing, Maybe
<1>6. thread[t].pc \in Fresh \cup Done => thread[t].c \in Container /\ thread[t].c \in Hand(thread[t])
  BY <1>1 DEF Local, LocalOK, Hand, Fresh, Done, Maybe
<1>7. thread[t].pc \in Drawing \cup {"restage"} /\ thread[t].ooo # Nil =>
        thread[t].ooo \in Container /\ thread[t].ooo \in Hand(thread[t])
  BY <1>1 DEF Local, LocalOK, Hand, Drawing, Maybe
<1>8. Hand(thread[t]) \subseteq Container
  BY <1>1 DEF Local, Hand, Maybe
<1> QED BY <1>1, <1>3, <1>4, <1>5, <1>6, <1>7, <1>8

\* Containers that are not drawn for.
LEMMA NotDrawn ==
    ASSUME QueueTypes, PlaceInv, SenderInv, ThreadInv, LockInv
    PROVE  /\ \A c \in contPool.free \cup Raw \cup Cooked : DrawnFor(c) = {}
           /\ \A t \in Thread : thread[t].pc \notin Drawing => DrawnFor(thread[t].c) = {} \/ thread[t].c = Nil
           /\ \A t \in Thread : Busy(t) => DrawnFor(thread[t].c) = {t}
<1>0. \A t \in Thread :
           /\ Busy(t) => thread[t].c \in Container /\ thread[t].c \in Hand(thread[t])
           /\ thread[t].pc \in Fresh \cup Done =>
                thread[t].c \in Container /\ thread[t].c \in Hand(thread[t])
           /\ thread[t].pc \in Drawing \cup {"restage"} /\ thread[t].ooo # Nil =>
                thread[t].ooo \in Container /\ thread[t].ooo \in Hand(thread[t])
           /\ Hand(thread[t]) \cap (contPool.free \cup Staged \cup Out \cup Sending) = {}
           /\ \A u \in Thread : u # t => Hand(thread[t]) \cap Hand(thread[u]) = {}
  BY HandFacts
<1>1. ASSUME NEW c \in contPool.free \cup Staged \cup Out \cup Sending, NEW t \in DrawnFor(c) PROVE FALSE
  BY <1>0, <1>1 DEF DrawnFor
<1>2. ASSUME NEW u \in Thread, thread[u].pc \in Fresh \cup Done, NEW t \in DrawnFor(thread[u].c)
      PROVE  FALSE
  <2>1. t \in Thread /\ Busy(t) /\ thread[t].c = thread[u].c /\ t # u
    BY <1>2 DEF DrawnFor, Fresh, Done, Busy, Drawing
  <2> QED BY <1>0, <1>2, <2>1
<1>3. ASSUME NEW u \in Thread, thread[u].pc \in Drawing \cup {"restage"}, thread[u].ooo # Nil,
             NEW t \in DrawnFor(thread[u].ooo)
      PROVE  FALSE
  <2>1. t \in Thread /\ Busy(t) /\ thread[t].c = thread[u].ooo
    BY <1>3 DEF DrawnFor
  <2>2. t # u
    BY <1>3, <2>1 DEF ThreadInv, LocalOK
  <2> QED BY <1>0, <1>3, <2>1, <2>2
<1>4. \A c \in contPool.free \cup Raw \cup Cooked : DrawnFor(c) = {}
  BY <1>1, <1>2, <1>3 DEF Raw, Cooked
<1>5. ASSUME NEW t \in Thread, thread[t].pc \notin Drawing
      PROVE  DrawnFor(thread[t].c) = {} \/ thread[t].c = Nil
  <2>1. thread[t].pc \in Fresh \cup Done \cup {"encryption"} \/ thread[t].c = Nil
    BY <1>5 DEF QueueTypes, Local, ThreadInv, LocalOK, Fresh, Done, Pc, Drawing
  <2>2. CASE thread[t].pc \in Fresh \cup Done
    BY <1>2, <2>2
  <2>3. CASE thread[t].pc = "encryption"
    BY <1>1, <2>3 DEF LockInv
  <2> QED BY <2>1, <2>2, <2>3
<1>6. ASSUME NEW t \in Thread, Busy(t) PROVE DrawnFor(thread[t].c) = {t}
  <2>1. \A u \in DrawnFor(thread[t].c) : u = t
    BY <1>0, <1>6 DEF DrawnFor
  <2> QED BY <1>6, <2>1 DEF DrawnFor
<1> QED BY <1>4, <1>5, <1>6

\* What a container owns.
LEMMA OwnFacts ==
    /\ \A c : DrawnFor(c) = {} => Own(c) = Elems(c)
    /\ \A t \in Thread : DrawnFor(thread[t].c) = {t} =>
         Own(thread[t].c) = Range(thread[t].kept) \cup Rest(thread[t], cont[thread[t].c].elems)
BY DEF Own

\* What a container owns when those who draw for it stay as they are.
LEMMA OwnSame ==
    ASSUME NEW c \in Container, cont'[c].elems = cont[c].elems,
           \A t \in Thread : t \in DrawnFor(c) \/ t \in DrawnFor(c)' => thread'[t] = thread[t]
    PROVE  Own(c)' = Own(c)
<1>1. DrawnFor(c)' = DrawnFor(c)
  <2>1. \A t : t \in DrawnFor(c)' => t \in DrawnFor(c)
    BY DEF DrawnFor, Busy
  <2>2. \A t : t \in DrawnFor(c) => t \in DrawnFor(c)'
    BY DEF DrawnFor, Busy
  <2> QED BY <2>1, <2>2
<1>2. Elems(c)' = Elems(c)
  BY DEF Elems
<1>3. \A t \in DrawnFor(c) : thread'[t] = thread[t]
  BY DEF DrawnFor
<1>4. CASE DrawnFor(c) = {}
  BY <1>1, <1>2, <1>4 DEF Own
<1>5. CASE DrawnFor(c) # {}
  <2> DEFINE new(t) == Range(thread'[t].kept) \cup Rest(thread'[t], cont'[c].elems)
             old(t) == Range(thread[t].kept) \cup Rest(thread[t], cont[c].elems)
  <2>1. \A t \in DrawnFor(c) : new(t) = old(t)
    BY <1>3
  <2>2. Own(c)' = UNION {new(t) : t \in DrawnFor(c)'}
    BY <1>1, <1>5 DEF Own
  <2>3. Own(c) = UNION {old(t) : t \in DrawnFor(c)}
    BY <1>5 DEF Own
  <2> HIDE DEF new, old
  <2>4. {new(t) : t \in DrawnFor(c)} = {old(t) : t \in DrawnFor(c)}
    BY <2>1
  <2> QED BY <1>1, <2>2, <2>3, <2>4
<1> QED BY <1>4, <1>5

-----------------------------------------------------------------------------
(* Containers that go back to the pool *)

\* The goroutines that draw nonces are not concerned.
BusyKept == \A t \in Thread : Busy(t) \/ thread'[t].pc \in Drawing => thread'[t] = thread[t]

LEMMA OwnKept ==
    ASSUME BusyKept, NEW c \in Container, cont'[c].elems = cont[c].elems
    PROVE  Own(c)' = Own(c) /\ Elems(c)' = Elems(c)
<1>1. \A t \in Thread : t \in DrawnFor(c) \/ t \in DrawnFor(c)' => thread'[t] = thread[t]
  BY DEF DrawnFor, BusyKept, Busy
<1>2. Elems(c)' = Elems(c)
  BY DEF Elems
<1> QED BY <1>1, <1>2, OwnSame

\* The number of names taken.
LEMMA TakenBack ==
    ASSUME NEW S \in {Elem, Container}, NEW free \in SUBSET S, NEW T \in SUBSET S, T \cap free = {}
    PROVE  /\ Cardinality(S \ (free \cup T)) = Cardinality(S \ free) - Cardinality(T)
           /\ Cardinality(S \ free) \in Nat /\ Cardinality(T) \in Nat
<1>1. IsFiniteSet(S \ free)
  BY NameFacts, FS_Subset
<1>2. IsFiniteSet(T)
  BY NameFacts, FS_Subset
<1>3. Cardinality((S \ free) \ T) = Cardinality(S \ free) - Cardinality((S \ free) \cap T)
  BY <1>1, FS_Difference
<1>4. (S \ free) \ T = S \ (free \cup T) /\ (S \ free) \cap T = T
  OBVIOUS
<1> QED BY <1>1, <1>2, <1>3, <1>4, FS_CardinalityType

LEMMA TakenOut ==
    ASSUME NEW S \in {Elem, Container}, NEW free \in SUBSET S, NEW T \in SUBSET S, T \subseteq free
    PROVE  /\ Cardinality(S \ (free \ T)) = Cardinality(S \ free) + Cardinality(T)
           /\ Cardinality(S \ free) \in Nat /\ Cardinality(T) \in Nat
<1>1. IsFiniteSet(S \ free) /\ IsFiniteSet(T)
  BY NameFacts, FS_Subset
<1>2. Cardinality((S \ free) \cup T) = Cardinality(S \ free) + Cardinality(T) - Cardinality((S \ free) \cap T)
  BY <1>1, FS_Union
<1>3. (S \ free) \cup T = S \ (free \ T) /\ (S \ free) \cap T = {}
  OBVIOUS
<1>4. Cardinality((S \ free) \cap T) = 0
  BY <1>3, FS_EmptySet
<1>5. Cardinality(S \ free) \in Nat /\ Cardinality(T) \in Nat
  BY <1>1, FS_CardinalityType
<1>6. Cardinality(S \ (free \ T)) = Cardinality((S \ free) \cup T)
  BY <1>3
<1> QED BY <1>2, <1>4, <1>5, <1>6

\* The same for elements and for containers.
LEMMA TakenNames ==
    /\ \A free, T \in SUBSET Elem :
         /\ T \cap free = {} =>
              Cardinality(Elem \ (free \cup T)) = Cardinality(Elem \ free) - Cardinality(T)
         /\ T \subseteq free =>
              Cardinality(Elem \ (free \ T)) = Cardinality(Elem \ free) + Cardinality(T)
         /\ Cardinality(Elem \ free) \in Nat /\ Cardinality(T) \in Nat
    /\ \A free \in SUBSET Container, c \in Container :
         /\ c \notin free =>
              Cardinality(Container \ (free \cup {c})) = Cardinality(Container \ free) - 1
         /\ c \in free =>
              Cardinality(Container \ (free \ {c})) = Cardinality(Container \ free) + 1
         /\ Cardinality(Container \ free) \in Nat /\ Cardinality({c}) = 1
<1>1. ASSUME NEW free \in SUBSET Elem, NEW T \in SUBSET Elem
      PROVE  /\ T \cap free = {} =>
                  Cardinality(Elem \ (free \cup T)) = Cardinality(Elem \ free) - Cardinality(T)
             /\ T \subseteq free =>
                  Cardinality(Elem \ (free \ T)) = Cardinality(Elem \ free) + Cardinality(T)
             /\ Cardinality(Elem \ free) \in Nat /\ Cardinality(T) \in Nat
  <2>1. IsFiniteSet(Elem) /\ IsFiniteSet(Elem \ free) /\ IsFiniteSet(T)
    BY NameFacts, FS_Subset
  <2>2. Cardinality(Elem \ free) \in Nat /\ Cardinality(T) \in Nat
    BY <2>1, FS_CardinalityType
  <2>3. T \cap free = {} =>
          Cardinality(Elem \ (free \cup T)) = Cardinality(Elem \ free) - Cardinality(T)
    BY <2>1, TakenBack
  <2>4. T \subseteq free =>
          Cardinality(Elem \ (free \ T)) = Cardinality(Elem \ free) + Cardinality(T)
    BY <2>1, TakenOut
  <2> QED BY <2>2, <2>3, <2>4
<1>2. ASSUME NEW free \in SUBSET Container, NEW c \in Container
      PROVE  /\ c \notin free =>
                  Cardinality(Container \ (free \cup {c})) = Cardinality(Container \ free) - 1
             /\ c \in free =>
                  Cardinality(Container \ (free \ {c})) = Cardinality(Container \ free) + 1
             /\ Cardinality(Container \ free) \in Nat /\ Cardinality({c}) = 1
  <2> DEFINE T == {c}
  <2>1. IsFiniteSet(Container) /\ IsFiniteSet(Container \ free) /\ Cardinality(T) = 1
        /\ T \in SUBSET Container /\ (c \notin free => T \cap free = {}) /\ (c \in free => T \subseteq free)
    BY NameFacts, FS_Subset, FS_Singleton
  <2> HIDE DEF T
  <2>2. Cardinality(Container \ free) \in Nat
    BY <2>1, FS_CardinalityType
  <2>3. T \cap free = {} =>
          Cardinality(Container \ (free \cup T)) = Cardinality(Container \ free) - Cardinality(T)
    BY <2>1, TakenBack
  <2>4. T \subseteq free =>
          Cardinality(Container \ (free \ T)) = Cardinality(Container \ free) + Cardinality(T)
    BY <2>1, TakenOut
  <2> QED BY <2>1, <2>2, <2>3, <2>4 DEF T
<1> QED BY <1>1, <1>2

LEMMA PutFacts ==
    ASSUME PoolInv, NEW c \in Container, PutAll(c)
    PROVE  /\ cont'[c] = Empty /\ \A d \in Container : d # c => cont'[d] = cont[d]
           /\ \A e \in Elem : elem'[e] = IF e \in Elems(c) THEN Blank ELSE elem[e]
           /\ elemPool'.free = elemPool.free \cup Elems(c)
           /\ contPool'.free = contPool.free \cup {c}
           /\ Elems(c) \subseteq Elem
           /\ PoolTypes'
<1>0. PoolTypes /\ Box = [elems : Seq(Elem), locked : BOOLEAN]
  BY DEF PoolInv, Box
<1>1. cont' = [cont EXCEPT ![c] = Empty]
  BY DEF PutAll
<1>2. cont'[c] = Empty /\ (\A d \in Container : d # c => cont'[d] = cont[d])
      /\ cont' \in [Container -> Box]
  BY <1>0, <1>1, EmptyFacts DEF PoolTypes
<1>3. cont[c].elems \in Seq(Elem)
  BY <1>0 DEF PoolTypes
<1>4. Elems(c) \subseteq Elem
  BY <1>3 DEF Elems, Range
<1>5. elem' = [e \in Elem |-> IF e \in Elems(c) THEN Blank ELSE elem[e]]
  BY DEF PutAll
<1>6. elem' \in [Elem -> Element]
  BY <1>0, <1>5, EmptyFacts DEF PoolTypes
<1>7. elemPool' = [free |-> elemPool.free \cup Elems(c), count |-> elemPool.count - Cardinality(Elems(c))]
  BY DEF PutAll, PutInto, ToReturn
<1>8. contPool' = [free |-> contPool.free \cup {c}, count |-> contPool.count - Cardinality({c})]
  BY DEF PutAll, PutInto
<1>9. Cardinality(Elems(c)) \in Nat /\ Cardinality({c}) = 1
  <2>1. IsFiniteSet(Elems(c))
    BY <1>4, NameFacts, FS_Subset
  <2> QED BY <2>1, FS_CardinalityType, FS_Singleton
<1>10. elemPool' \in [free : SUBSET Elem, count : Int] /\ contPool' \in [free : SUBSET Container, count : Int]
  BY <1>0, <1>4, <1>7, <1>8, <1>9 DEF PoolTypes
<1> QED BY <1>2, <1>4, <1>5, <1>6, <1>7, <1>8, <1>10 DEF PoolTypes

\* What is left of the invariant of the pools, wherever the container was.
LEMMA PutElements ==
    ASSUME PoolInv, NEW c \in Container, c \notin contPool.free, PutAll(c), BusyKept, DrawnFor(c) = {},
           UNCHANGED packets
    PROVE  /\ Own(c)' = {} /\ Elems(c)' = {} /\ Own(c) = Elems(c)
           /\ \A d \in Container : d # c => Own(d)' = Own(d) /\ Elems(d)' = Elems(d)
           /\ \A d \in Container : d # c => \A e \in Own(d) : elem'[e] = elem[e]
           /\ ElementInv'
           /\ contPool'.count = Cardinality(Container \ contPool'.free)
<1>1. /\ cont'[c] = Empty /\ \A d \in Container : d # c => cont'[d] = cont[d]
      /\ \A e \in Elem : elem'[e] = IF e \in Elems(c) THEN Blank ELSE elem[e]
      /\ elemPool'.free = elemPool.free \cup Elems(c) /\ contPool'.free = contPool.free \cup {c}
      /\ Elems(c) \subseteq Elem
  BY PutFacts
<1>2. \A d \in Container : d # c => Own(d)' = Own(d) /\ Elems(d)' = Elems(d)
  BY <1>1, OwnKept
<1>3. Own(c) = Elems(c)
  BY OwnFacts
<1>4. DrawnFor(c)' = {} /\ Elems(c)' = {}
  <2>1. \A t : t \in DrawnFor(c)' => t \in DrawnFor(c)
    BY DEF DrawnFor, BusyKept, Busy
  <2> QED BY <1>1, <2>1, EmptyFacts DEF Elems
<1>5. Own(c)' = {}
  BY <1>4 DEF Own
<1>6. Shares(elemPool.free, Owned) /\ Owned[c] = Elems(c) /\ \A d \in Container : Owned[d] = Own(d)
  BY <1>3 DEF PoolInv, ElementInv, Owned
<1>7. \A d \in Container : Owned'[d] = Own(d)'
  BY DEF Owned
<1>8. Shares(elemPool'.free, Owned')
  <2>1. Owned'[c] = {} /\ \A d \in Container : d # c => Owned'[d] = Owned[d]
    BY <1>2, <1>5, <1>6, <1>7
  <2>2. Shares(elemPool.free \cup Owned[c], Owned')
    BY <1>6, <2>1 DEF Shares
  <2> QED BY <1>1, <1>6, <2>2
<1>9. \A d \in Container : d # c => \A e \in Own(d) : elem'[e] = elem[e]
  BY <1>1, <1>6 DEF Shares
<1>10. elemPool'.count = Cardinality(Elem \ elemPool'.free) /\ elemPool'.count <= elemPool.count
  <2>1. elemPool'.count = elemPool.count - Cardinality(Elems(c))
    BY DEF PutAll, PutInto, ToReturn
  <2>2. Elems(c) \in SUBSET Elem /\ Elems(c) \cap elemPool.free = {} /\ elemPool.free \in SUBSET Elem
    BY <1>1, <1>6 DEF Shares, PoolInv, PoolTypes
  <2>3. /\ Cardinality(Elem \ (elemPool.free \cup Elems(c)))
             = Cardinality(Elem \ elemPool.free) - Cardinality(Elems(c))
        /\ Cardinality(Elem \ elemPool.free) \in Nat /\ Cardinality(Elems(c)) \in Nat
    BY <2>2, TakenNames
  <2> QED BY <1>1, <2>1, <2>3 DEF PoolInv, ElementInv
<1>11. contPool'.count = Cardinality(Container \ contPool'.free)
  <2>1. contPool'.count = contPool.count - Cardinality({c})
    BY DEF PutAll, PutInto
  <2>2. contPool.free \in SUBSET Container
    BY DEF PoolInv, PoolTypes
  <2>3. /\ Cardinality(Container \ (contPool.free \cup {c})) = Cardinality(Container \ contPool.free) - 1
        /\ Cardinality({c}) = 1
    BY <2>2, TakenNames
  <2> QED BY <1>1, <2>1, <2>3 DEF PoolInv, PlaceInv
<1>12. ElementInv'
  <2>1. elemPool.count <= packets.read + packets.keepalives /\ elemPool.count \in Int
        /\ packets.read \in Nat /\ packets.keepalives \in Nat /\ elemPool'.count \in Int
    BY PutFacts DEF PoolInv, ElementInv, PoolTypes, PeerTypes
  <2> QED BY <1>8, <1>10, <2>1 DEF ElementInv
<1> QED BY <1>2, <1>3, <1>4, <1>5, <1>9, <1>11, <1>12

LEMMA RawCooked ==
    ASSUME QueueTypes, PlaceInv, SenderInv, ThreadInv, LockInv
    PROVE  /\ Raw \subseteq Container /\ Cooked \subseteq Container
           /\ Staged \subseteq Container /\ Out \subseteq Container /\ Sending \subseteq Container
<1>1. Staged \subseteq Container /\ Out \subseteq Container /\ Sending \subseteq Container
  BY DEF QueueTypes, Staged, Out, Sending, Range, Maybe
<1>2. \A t \in Thread :
         /\ thread[t].pc \in Fresh \cup Done => thread[t].c \in Container
         /\ thread[t].pc \in Drawing \cup {"restage"} /\ thread[t].ooo # Nil => thread[t].ooo \in Container
  BY HandFacts
<1>3. Raw \subseteq Container
  BY <1>1, <1>2 DEF Raw
<1>4. Cooked \subseteq Container
  BY <1>1, <1>2 DEF Cooked
<1> QED BY <1>1, <1>3, <1>4

\* What the other parts of the invariant need of a step that returns c.
PutKeeps(c) ==
    /\ UNCHANGED <<encryption, sendNonce, packets, sealed, queued>>
    /\ thread' \in [Thread -> Local] /\ \A t \in Thread : LocalOK(thread'[t])
    /\ BusyKept
    /\ \A t \in Thread : thread'[t].pc \in Done \cup {"encryption"} => thread'[t] = thread[t] /\ thread[t].c # c
    /\ c \notin Range(encryption)
    /\ Out' \cup Sending' = (Out \cup Sending) \ {c}
    /\ Raw' \subseteq Raw \ {c} /\ Cooked' \subseteq Cooked \ {c}

LEMMA PutThreads ==
    ASSUME PoolInv, NEW c \in Container, c \notin contPool.free, PutAll(c), DrawnFor(c) = {}, PutKeeps(c)
    PROVE  ThreadInv' /\ ContainerInv' /\ LockInv'
<1>1. /\ cont'[c] = Empty /\ \A d \in Container : d # c => cont'[d] = cont[d]
      /\ contPool'.free = contPool.free \cup {c}
  BY PutFacts
<1>2. \A t \in Thread : thread'[t].pc \in Drawing => thread'[t] = thread[t] /\ Busy(t)
        /\ thread[t].c # c /\ thread[t].c \in Container
  <2> TAKE t \in Thread
  <2> HAVE thread'[t].pc \in Drawing
  <2>1. thread'[t] = thread[t] /\ Busy(t)
    BY DEF PutKeeps, BusyKept, Busy
  <2>2. thread[t].c # c
    BY <2>1 DEF DrawnFor
  <2>3. thread[t].c \in Container
    BY <2>1, HandFacts DEF PoolInv
  <2> QED BY <2>1, <2>2, <2>3
<1>3. ThreadInv'
  <2>1. \A t \in Thread : thread'[t].pc \in Drawing => LoopOK(thread'[t], cont'[thread'[t].c].elems)
    BY <1>1, <1>2 DEF PoolInv, ThreadInv
  <2> QED BY <2>1 DEF ThreadInv, PutKeeps, Busy
<1>4. ContainerInv'
  <2>1. \A d \in Container : IsInjective(cont'[d].elems)
    BY <1>1, EmptyFacts DEF PoolInv, ContainerInv
  <2>2. \A d \in contPool'.free : cont'[d].elems = <<>>
    BY <1>1, EmptyFacts DEF PoolInv, ContainerInv, PoolTypes
  <2>3. \A d \in Raw' : cont'[d].elems # <<>>
    BY <1>1, RawCooked DEF PoolInv, ContainerInv, PutKeeps
  <2> QED BY <2>1, <2>2, <2>3 DEF ContainerInv
<1>5. LockInv'
  <2>1. \A d \in Range(encryption') : cont'[d].locked /\ d \in Out' \cup Sending'
    <3>1. Range(encryption) \subseteq Container
      BY DEF PoolInv, QueueTypes, Range
    <3> QED BY <1>1, <3>1 DEF PoolInv, LockInv, PutKeeps
  <2>2. \A t \in Thread : thread'[t].pc \in Done \cup {"encryption"} =>
          thread'[t] = thread[t] /\ thread[t].c # c /\ thread[t].c \in Container
    <3>1. \A t \in Thread : thread[t].pc = "encryption" => thread[t].c \in Container
      BY RawCooked DEF PoolInv, LockInv
    <3>2. \A t \in Thread : thread[t].pc \in Done => thread[t].c \in Container
      BY HandFacts DEF PoolInv
    <3> QED BY <3>1, <3>2 DEF PutKeeps
  <2>3. \A t \in Thread : thread'[t].pc \in Done \cup {"encryption"} => cont'[thread'[t].c].locked
    BY <1>1, <2>2 DEF PoolInv, LockInv
  <2>4. \A t \in Thread : thread'[t].pc = "encryption" =>
          thread'[t].c \in Out' \cup Sending' /\ thread'[t].c \notin Range(encryption')
    BY <2>2 DEF PoolInv, LockInv, PutKeeps
  <2>5. \A t, u \in Thread : thread'[t].pc = "encryption" /\ thread'[u].pc = "encryption"
          /\ thread'[t].c = thread'[u].c => t = u
    BY <2>2 DEF PoolInv, LockInv
  <2> QED BY <2>1, <2>3, <2>4, <2>5 DEF LockInv
<1> QED BY <1>3, <1>4, <1>5

LEMMA PutNonces ==
    ASSUME Inv, NEW c \in Container, c \notin contPool.free, PutAll(c), DrawnFor(c) = {}, PutKeeps(c)
    PROVE  NonceInv' /\ KeyInv' /\ CounterInv' /\ PacketInv'
<1>0. PoolInv /\ NonceInv /\ KeyInv /\ CounterInv /\ PacketInv /\ BusyKept
  BY DEF Inv, PutKeeps
<1>1. /\ cont'[c] = Empty /\ \A d \in Container : d # c => cont'[d] = cont[d]
      /\ \A e \in Elem : elem'[e] = IF e \in Elems(c) THEN Blank ELSE elem[e]
      /\ elemPool'.free = elemPool.free \cup Elems(c)
      /\ Elems(c) \subseteq Elem
  BY <1>0, PutFacts
<1>2. /\ Own(c)' = {} /\ Elems(c)' = {} /\ Own(c) = Elems(c)
      /\ \A d \in Container : d # c => Own(d)' = Own(d) /\ Elems(d)' = Elems(d)
      /\ \A d \in Container : d # c => \A e \in Own(d) : elem'[e] = elem[e]
  BY <1>0, PutElements DEF PutKeeps
<1>3. UNCHANGED <<encryption, sendNonce, packets, sealed, queued>>
  BY DEF PutKeeps
<1>4. NonceInv'
  <2>1. \A e \in Elem : elem'[e].key = NoKey \/ elem'[e] = elem[e]
    BY <1>1, EmptyFacts
  <2>2. \A a \in sealed : a[1] # NoKey
    BY <1>0, Facts DEF NonceInv
  <2>3. NonceOnce'
    BY <1>0, <1>3 DEF NonceInv, NonceOnce
  <2>4. \A e \in Elem : elem'[e].key # NoKey => Used(elem'[e].nonce, sendNonce'[elem'[e].key])
    BY <1>0, <1>3, <2>1 DEF NonceInv
  <2>5. \A e, f \in Elem : elem'[e].key # NoKey /\ elem'[e].key = elem'[f].key
                             /\ elem'[e].nonce = elem'[f].nonce => e = f
    BY <1>0, <2>1 DEF NonceInv
  <2>6. \A a \in sealed' : a[1] \in Key /\ a[2] \in Nat /\ Used(a[2], sendNonce'[a[1]])
    BY <1>0, <1>3 DEF NonceInv
  <2>7. \A a \in sealed', e \in Elem : a[1] = elem'[e].key /\ a[2] = elem'[e].nonce =>
          a = <<elem'[e].key, elem'[e].nonce, elem'[e].packet>>
    BY <1>0, <1>3, <2>1, <2>2 DEF NonceInv
  <2> QED BY <2>3, <2>4, <2>5, <2>6, <2>7 DEF NonceInv
<1>5. /\ \A d \in Raw \cup Cooked : d \in Container /\ Own(d) = Elems(d)
      /\ \A t \in Thread : Busy(t) => thread[t].c \in Container /\ thread[t].c # c
           /\ Range(thread[t].kept) \cup Rest(thread[t], cont[thread[t].c].elems) = Own(thread[t].c)
  <2>1. \A d \in Raw \cup Cooked : DrawnFor(d) = {}
    BY <1>0, NotDrawn DEF PoolInv
  <2>2. \A d \in Raw \cup Cooked : d \in Container
    BY <1>0, RawCooked DEF PoolInv
  <2>3. \A t \in Thread : Busy(t) => thread[t].c \in Container
    BY <1>0, HandFacts DEF PoolInv
  <2>4. \A t \in Thread : Busy(t) => DrawnFor(thread[t].c) = {t}
    BY <1>0, NotDrawn DEF PoolInv
  <2>5. \A t \in Thread : Busy(t) => thread[t].c # c
    BY DEF DrawnFor
  <2> QED BY <2>1, <2>2, <2>3, <2>4, <2>5, OwnFacts
<1>6. KeyInv'
  <2>1. \A d \in Raw' : \A e \in Elems(d)' : elem'[e].key = NoKey
    BY <1>0, <1>2, <1>5 DEF KeyInv, PutKeeps
  <2>2. \A d \in Cooked' : \A e \in Elems(d)' : elem'[e].key # NoKey
    BY <1>0, <1>2, <1>5 DEF KeyInv, PutKeeps
  <2>3. ASSUME NEW t \in Thread, Busy(t)'
        PROVE  /\ \A e \in Range(thread'[t].kept) : elem'[e].key # NoKey
               /\ \A e \in Rest(thread'[t], cont'[thread'[t].c].elems) : elem'[e].key = NoKey
    <3>1. thread'[t] = thread[t] /\ Busy(t)
      BY <2>3 DEF PutKeeps, BusyKept, Busy
    <3>2. cont'[thread[t].c] = cont[thread[t].c]
      BY <1>1, <1>5, <3>1
    <3>3. \A e \in Range(thread[t].kept) \cup Rest(thread[t], cont[thread[t].c].elems) : elem'[e] = elem[e]
      BY <1>2, <1>5, <3>1
    <3> QED BY <1>0, <3>1, <3>2, <3>3 DEF KeyInv
  <2> QED BY <2>1, <2>2, <2>3 DEF KeyInv
<1>7. CounterInv'
  <2>1. \A k \in Key : Storing(k)' = Storing(k)
    <3> TAKE k \in Key
    <3>1. \A t : t \in Storing(k)' => t \in Storing(k)
      BY <1>0 DEF Storing, BusyKept, Busy, Drawing
    <3>2. \A t : t \in Storing(k) => t \in Storing(k)'
      BY <1>0 DEF Storing, BusyKept, Busy, Drawing
    <3> QED BY <3>1, <3>2
  <2> QED BY <1>0, <1>3, <2>1 DEF CounterInv
<1>8. PacketInv'
  <2>1. \A e \in Elem \ elemPool'.free : elem'[e] = elem[e] /\ e \in Elem \ elemPool.free
    BY <1>1
  <2>2. Read' = Read
    BY <1>3 DEF Read
  <2>3. \A d \in Out' \cup Sending' : d \in Container /\ d # c /\ Own(d) = Elems(d) /\ d \in Out \cup Sending
    BY <1>5 DEF PutKeeps, Cooked
  <2>4. \A d \in Out' \cup Sending' : \A e \in Elems(d)' :
          /\ elem'[e].packet \in Range(queued')
          /\ ~cont'[d].locked => elem'[e].sealed
    BY <1>0, <1>1, <1>2, <1>3, <2>3 DEF PacketInv
  <2>5. \A d \in Container \ (Out' \cup Sending') : \A e \in Own(d)' : elem'[e].packet \notin Range(queued')
    <3>1. \A d \in Container \ (Out' \cup Sending') : d = c \/ d \in Container \ (Out \cup Sending)
      BY DEF PutKeeps
    <3> QED BY <1>0, <1>2, <1>3, <3>1 DEF PacketInv
  <2>6. /\ \A e \in Elem \ elemPool'.free : elem'[e].packet \in Read'
        /\ \A e, f \in Elem \ elemPool'.free : elem'[e].packet = elem'[f].packet => e = f
    BY <1>0, <2>1, <2>2 DEF PacketInv
  <2>7. queued' \in Seq(Int) /\ IsInjective(queued') /\ Range(queued') \subseteq Read'
    BY <1>0, <1>3, <2>2 DEF PacketInv
  <2> QED BY <2>4, <2>5, <2>6, <2>7 DEF PacketInv
<1> QED BY <1>4, <1>6, <1>7, <1>8

-----------------------------------------------------------------------------
(* Order *)

\* A step that sends nothing and queues nothing.
OrderKeeps ==
    /\ UNCHANGED <<queued, wire>>
    /\ \A d \in Out' \cup Sending' : /\ d \in Out \cup Sending /\ cont'[d].elems = cont[d].elems
                                     /\ \A e \in Elems(d) : elem'[e].packet = elem[e].packet
    /\ \A i, j \in DOMAIN outbound' : \A c, d \in Out' :
         i < j /\ outbound'[i] = c /\ outbound'[j] = d => Before(c, d)
    /\ \A c \in Sending', d \in Out' : Before(c, d)

LEMMA InOrderKept ==
    ASSUME NEW c \in Container, cont'[c].elems = cont[c].elems, \A e \in Elems(c) : Pos(e)' = Pos(e),
           InOrder(c)
    PROVE  InOrder(c)'
<1>1. Elems(c)' = Elems(c)
  BY DEF Elems
<1> QED BY <1>1 DEF InOrder

LEMMA OrderKept ==
    ASSUME Inv, OrderKeeps
    PROVE  OrderInv'
<1>0. UNCHANGED <<queued, wire>>
  BY DEF OrderKeeps
<1>1. \A p : Position(p)' = Position(p)
  BY <1>0 DEF Position
<1>2. \A d \in Out' \cup Sending' :
         /\ d \in Out \cup Sending /\ cont'[d].elems = cont[d].elems /\ Elems(d)' = Elems(d)
         /\ \A e \in Elems(d) : Pos(e)' = Pos(e)
  <2> TAKE d \in Out' \cup Sending'
  <2>1. d \in Out \cup Sending /\ cont'[d].elems = cont[d].elems
        /\ \A e \in Elems(d) : elem'[e].packet = elem[e].packet
    BY DEF OrderKeeps
  <2>2. \A e \in Elems(d) : Pos(e)' = Pos(e)
    BY <1>0, <2>1 DEF Pos, Position
  <2> QED BY <2>1, <2>2 DEF Elems
<1>3. \A c, d \in Out' \cup Sending' : Before(c, d) => Before(c, d)'
  BY <1>2 DEF Before
<1>5. /\ wire' \in Seq(Sent)
      /\ \A i \in DOMAIN wire' : wire'[i].packet \in Range(queued')
  BY <1>0 DEF Inv, OrderInv
<1>6. \A c \in Out' \cup Sending' : InOrder(c)'
  <2> TAKE c \in Out' \cup Sending'
  <2>1. c \in Container /\ InOrder(c)
    BY <1>2, RawCooked DEF Inv, PoolInv, OrderInv
  <2> QED BY <1>2, <2>1, InOrderKept
<1>7. \A i, j \in DOMAIN outbound' : \A c, d \in Out' :
         i < j /\ outbound'[i] = c /\ outbound'[j] = d => Before(c, d)'
  BY <1>3 DEF OrderKeeps
<1>8. \A c \in Sending', d \in Out' : Before(c, d)'
  BY <1>3 DEF OrderKeeps
<1>9. \A c \in Out' \cup Sending' : SentBefore(c)'
  <2> TAKE c \in Out' \cup Sending'
  <2>1. SentBefore(c)
    BY <1>2 DEF Inv, OrderInv
  <2> QED BY <1>0, <1>1, <1>2, <2>1 DEF SentBefore
<1>10. SentAsQueued'
  BY <1>0, <1>1 DEF Inv, OrderInv, SentAsQueued
<1> QED BY <1>5, <1>6, <1>7, <1>8, <1>9, <1>10 DEF OrderInv

\* The queue loses its first container, gets a nil, or stays as it is.
LEMMA QueueOrder ==
    ASSUME OrderInv, outbound \in Seq(Maybe), IsInjective(outbound), Sending' \subseteq Sending,
           \/ outbound' = outbound
           \/ outbound # <<>> /\ outbound' = Tail(outbound)
           \/ outbound' = Append(outbound, Nil)
    PROVE  /\ \A i, j \in DOMAIN outbound' : \A c, d \in Out' :
                i < j /\ outbound'[i] = c /\ outbound'[j] = d => Before(c, d)
           /\ \A c \in Sending', d \in Out' : Before(c, d)
           /\ Out' \subseteq Out
<1>1. CASE outbound' = outbound
  BY <1>1 DEF OrderInv, Out
<1>2. CASE outbound # <<>> /\ outbound' = Tail(outbound)
  <2>1. /\ DOMAIN outbound' = 1 .. Len(outbound) - 1
        /\ \A i \in DOMAIN outbound' : outbound'[i] = outbound[i + 1] /\ i + 1 \in DOMAIN outbound
        /\ Range(outbound') = Range(outbound) \ {Head(outbound)}
    BY <1>2, TailFacts
  <2>2. Out' \subseteq Out
    BY <2>1 DEF Out
  <2>3. ASSUME NEW i \in DOMAIN outbound', NEW j \in DOMAIN outbound', NEW c \in Out', NEW d \in Out',
               i < j, outbound'[i] = c, outbound'[j] = d
        PROVE  Before(c, d)
    <3>1. i + 1 < j + 1
      BY <2>1, <2>3
    <3> QED BY <2>1, <2>2, <2>3, <3>1 DEF OrderInv
  <2> QED BY <2>2, <2>3 DEF OrderInv
<1>3. CASE outbound' = Append(outbound, Nil)
  <2> DEFINE n == Len(outbound)
  <2>1. Nil \in Maybe /\ n \in Nat /\ DOMAIN outbound = 1 .. n
    BY DEF Maybe
  <2>2. /\ DOMAIN outbound' = 1 .. n + 1 /\ outbound'[n + 1] = Nil
        /\ \A i \in DOMAIN outbound : outbound'[i] = outbound[i]
        /\ Range(outbound') = Range(outbound) \cup {Nil}
    <3>1. /\ DOMAIN Append(outbound, Nil) = 1 .. n + 1 /\ Append(outbound, Nil)[n + 1] = Nil
          /\ \A i \in DOMAIN outbound : Append(outbound, Nil)[i] = outbound[i]
          /\ Range(Append(outbound, Nil)) = Range(outbound) \cup {Nil}
      BY ONLY <2>1, AppendFacts, outbound \in Seq(Maybe)
    <3> QED BY ONLY <1>3, <3>1
  <2> HIDE DEF n
  <2>3. Out' = Out
    BY ONLY <2>2 DEF Out
  <2>4. ASSUME NEW i \in DOMAIN outbound', NEW j \in DOMAIN outbound', NEW c \in Out', NEW d \in Out',
               i < j, outbound'[i] = c, outbound'[j] = d
        PROVE  Before(c, d)
    <3>1. c # Nil /\ d # Nil
      BY <2>4 DEF Out
    <3>2. i # n + 1 /\ j # n + 1
      BY ONLY <2>2, <2>4, <3>1
    <3>3. i \in DOMAIN outbound /\ j \in DOMAIN outbound
      <4>1. i \in 1 .. n + 1 /\ j \in 1 .. n + 1
        BY ONLY <2>2, <2>4
      <4> QED BY ONLY <2>1, <3>2, <4>1
    <3>4. outbound[i] = c /\ outbound[j] = d
      BY ONLY <2>2, <2>4, <3>3
    <3> QED BY ONLY OrderInv, <2>3, <2>4, <3>3, <3>4 DEF OrderInv
  <2> QED BY ONLY OrderInv, <2>3, <2>4, Sending' \subseteq Sending DEF OrderInv
<1> QED BY <1>1, <1>2, <1>3

\* The order when a container goes back that is not queued any more.
LEMMA PutOrder ==
    ASSUME Inv, NEW c \in Container, PutAll(c), UNCHANGED <<queued, wire>>,
           c \notin Out' \cup Sending', Sending' \subseteq Sending,
           \A d \in Container : d # c => \A e \in Own(d) : elem'[e] = elem[e],
           \/ outbound' = outbound
           \/ outbound # <<>> /\ outbound' = Tail(outbound)
    PROVE  OrderInv'
<1>1. PoolInv /\ OrderInv /\ QueueTypes /\ PlaceInv /\ SenderInv /\ ThreadInv /\ LockInv
  BY DEF Inv, PoolInv
<1>2. /\ \A i, j \in DOMAIN outbound' : \A a, b \in Out' :
           i < j /\ outbound'[i] = a /\ outbound'[j] = b => Before(a, b)
      /\ \A a \in Sending', b \in Out' : Before(a, b)
      /\ Out' \subseteq Out
  BY <1>1, QueueOrder DEF QueueTypes, PlaceInv
<1>3. \A d \in Container : d # c => cont'[d] = cont[d]
  BY <1>1, PutFacts
<1>4. \A d \in Out \cup Sending : d \in Container /\ Own(d) = Elems(d)
  <2>1. \A d \in Out \cup Sending : DrawnFor(d) = {} /\ d \in Container
    BY <1>1, NotDrawn, RawCooked DEF Cooked
  <2> QED BY <2>1, OwnFacts
<1>5. OrderKeeps
  BY <1>2, <1>3, <1>4 DEF OrderKeeps
<1> QED BY <1>1, <1>5, OrderKept

LEMMA PartsOfInv ==
    ASSUME Inv
    PROVE  /\ PoolInv /\ NonceInv /\ KeyInv /\ CounterInv /\ PacketInv /\ OrderInv
           /\ PoolTypes /\ QueueTypes /\ PeerTypes /\ PlaceInv /\ SenderInv /\ ThreadInv
           /\ ContainerInv /\ LockInv /\ ElementInv
BY DEF Inv, PoolInv

LEMMA InvFromParts ==
    ASSUME PoolTypes', QueueTypes', PeerTypes', PlaceInv', SenderInv', ThreadInv', ContainerInv',
           LockInv', ElementInv', NonceInv', KeyInv', CounterInv', PacketInv', OrderInv'
    PROVE  Inv'
BY DEF Inv, PoolInv

LEMMA PeerTypesKept ==
    ASSUME PeerTypes, UNCHANGED <<keys, sendNonce, control, packets>>
    PROVE  PeerTypes'
BY DEF PeerTypes

\* The containers in hand of the other goroutines.
LEMMA HandsOf ==
    /\ \A t \in Thread : Hands[t] = Hand(thread[t])
    /\ \A t \in Thread : Hands'[t] = Hand(thread'[t])
BY DEF Hands

\* A staged container is dropped: DropTooOld, FlushStagedPackets, StopFlushes.
LEMMA PutStagedStep ==
    ASSUME Inv, staged # <<>>, staged' = Tail(staged), PutAll(Head(staged)),
           UNCHANGED <<outbound, encryption, thread, sender, keys, sendNonce, packets, sealed, queued, wire>>,
           control' = control
    PROVE  Inv'
<1> DEFINE c == Head(staged)
<1> USE PartsOfInv
<1>1. /\ c \in Container /\ c \in Staged /\ staged' \in Seq(Container)
      /\ Staged' = Staged \ {c} /\ IsInjective(staged')
  BY TailFacts DEF QueueTypes, PlaceInv, Staged
<1> HIDE DEF c
<1>2. PutAll(c)
  BY DEF c
<1>3. c \notin contPool.free /\ c \notin Out \cup Sending /\ \A t \in Thread : c \notin Hand(thread[t])
  BY <1>1, HandsOf DEF PlaceInv, Places
<1>4. DrawnFor(c) = {}
  BY <1>1, NotDrawn DEF Raw
<1>5. contPool'.free = contPool.free \cup {c} /\ PoolTypes'
  BY <1>1, <1>2, PutFacts
<1>6. PutKeeps(c)
  <2>1. BusyKept
    BY DEF BusyKept
  <2>2. Out' = Out /\ Sending' = Sending
    BY DEF Out, Sending
  <2>3. \A t \in Thread : thread[t].pc \in Done \cup {"encryption"} => thread[t].c # c
    <3>1. \A t \in Thread : thread[t].pc \in Done => thread[t].c # c
      BY <1>3, HandFacts
    <3>2. \A t \in Thread : thread[t].pc = "encryption" => thread[t].c # c
      BY <1>3 DEF LockInv
    <3> QED BY <3>1, <3>2
  <2>4. \A t \in Thread : thread[t].pc \in Fresh => thread[t].c # c
    BY <1>3, HandFacts
  <2>5. \A t \in Thread : thread[t].pc \in Drawing \cup {"restage"} => thread[t].ooo # c \/ thread[t].ooo = Nil
    BY <1>3, HandFacts
  <2>6. Raw' \subseteq Raw \ {c}
    <3>1. Raw' \subseteq Raw
      BY <1>1 DEF Raw
    <3>2. c \notin Raw'
      BY <1>1, <2>4, <2>5 DEF Raw
    <3> QED BY <3>1, <3>2
  <2>7. Cooked' \subseteq Cooked \ {c}
    BY <1>3, <2>2, <2>3 DEF Cooked
  <2>8. c \notin Range(encryption)
    BY <1>3 DEF LockInv
  <2> QED BY <1>3, <2>1, <2>2, <2>3, <2>6, <2>7, <2>8 DEF PutKeeps, QueueTypes, ThreadInv
<1>7. ThreadInv' /\ ContainerInv' /\ LockInv'
  BY <1>1, <1>2, <1>3, <1>4, <1>6, PutThreads
<1>8. ElementInv' /\ contPool'.count = Cardinality(Container \ contPool'.free)
      /\ \A d \in Container : d # c => \A e \in Own(d) : elem'[e] = elem[e]
  BY <1>1, <1>2, <1>3, <1>4, <1>6, PutElements DEF PutKeeps
<1>9. NonceInv' /\ KeyInv' /\ CounterInv' /\ PacketInv'
  BY <1>1, <1>2, <1>3, <1>4, <1>6, PutNonces
<1>10. PlaceInv'
  <2>1. Out' = Out /\ Sending' = Sending /\ Hands' = Hands
    BY DEF Out, Sending, Hands
  <2>2. Places(contPool'.free, Staged', Out', Sending', Hands')
    BY <1>1, <1>5, <2>1 DEF PlaceInv, Places
  <2> QED BY <1>1, <1>8, <2>2 DEF PlaceInv
<1>11. OrderInv'
  <2>1. c \notin Out' \cup Sending' /\ Sending' \subseteq Sending
    BY <1>3 DEF Out, Sending
  <2> QED BY <1>1, <1>2, <1>8, <2>1, PutOrder
<1>12. QueueTypes' /\ SenderInv' /\ PeerTypes'
  BY <1>1, PeerTypesKept DEF QueueTypes, SenderInv
<1> QED BY <1>5, <1>7, <1>8, <1>9, <1>10, <1>11, <1>12, InvFromParts

\* A goroutine without containers and with at most a keypair.
LEMMA StartsFacts ==
    ASSUME NEW pc \in {"idle", "flush", "top", "take"}, NEW k \in Key \cup {NoKey},
           NEW r, Starts(r, pc, k, Nil), pc = "take" => k # NoKey
    PROVE  r \in Local /\ LocalOK(r) /\ Hand(r) = {} /\ r.pc = pc
BY DEF Starts, LocalOK, Hand, Drawing

LEMMA ThreadExcept ==
    ASSUME QueueTypes, NEW t \in Thread, NEW r \in Local, thread' = [thread EXCEPT ![t] = r]
    PROVE  /\ thread' \in [Thread -> Local] /\ thread'[t] = r
           /\ \A u \in Thread : u # t => thread'[u] = thread[u]
BY DEF QueueTypes

\* A goroutine gives its container back, and stages elemsContainerOOO before
\* that: StageIfRunning, StageKeepalive, CheckRunning, StagePackets.
LEMMA PutHandStep ==
    ASSUME Inv, NEW t \in Thread, thread[t].pc \in {"read", "keepalive", "check", "restage"},
           PutAll(thread[t].c),
           NEW pc \in {"idle", "top", "take"}, NEW k \in Key \cup {NoKey}, pc = "take" => k # NoKey,
           NEW r, Starts(r, pc, k, Nil), thread' = [thread EXCEPT ![t] = r],
           staged' = IF thread[t].pc = "restage" THEN Append(staged, thread[t].ooo) ELSE staged,
           UNCHANGED <<outbound, encryption, sender, keys, sendNonce, packets, sealed, queued, wire>>,
           control' = control
    PROVE  Inv'
<1> DEFINE c == thread[t].c
           ooo == thread[t].ooo
           back == thread[t].pc = "restage"
<1> USE PartsOfInv
<1>1. r \in Local /\ LocalOK(r) /\ Hand(r) = {} /\ r.pc = pc
  BY StartsFacts
<1>2. /\ thread' \in [Thread -> Local] /\ thread'[t] = r
      /\ \A u \in Thread : u # t => thread'[u] = thread[u]
  BY <1>1, ThreadExcept
<1>3. /\ c \in Container /\ c \in Hand(thread[t])
      /\ c \notin contPool.free \cup Staged \cup Out \cup Sending
      /\ \A u \in Thread : u # t => c \notin Hand(thread[u])
      /\ back => /\ ooo \in Container /\ ooo \in Hand(thread[t]) /\ ooo # c
                 /\ ooo \notin contPool.free \cup Staged \cup Out \cup Sending
                 /\ \A u \in Thread : u # t => ooo \notin Hand(thread[u])
  <2>1. c \in Container /\ c \in Hand(thread[t])
    BY HandFacts DEF Fresh, Done
  <2>2. back => ooo \in Container /\ ooo \in Hand(thread[t]) /\ ooo # c
    BY HandFacts DEF ThreadInv, LocalOK
  <2>3. /\ Hand(thread[t]) \cap (contPool.free \cup Staged \cup Out \cup Sending) = {}
        /\ \A u \in Thread : u # t => Hand(thread[t]) \cap Hand(thread[u]) = {}
    BY HandFacts
  <2> QED BY <2>1, <2>2, <2>3
<1>4. DrawnFor(c) = {}
  BY <1>3, NotDrawn, Facts DEF Drawing
<1>5. BusyKept
  BY <1>1, <1>2 DEF BusyKept, Busy, Drawing
<1>6. Staged' = IF back THEN Staged \cup {ooo} ELSE Staged
  <2>1. CASE back
    <3>1. Range(Append(staged, ooo)) = Range(staged) \cup {ooo}
      BY <1>3, <2>1, AppendFacts DEF QueueTypes
    <3> QED BY <2>1, <3>1 DEF Staged
  <2>2. CASE ~back
    BY <2>2 DEF Staged
  <2> QED BY <2>1, <2>2
<1>7. staged' \in Seq(Container) /\ IsInjective(staged')
  BY <1>3, AppendFacts DEF QueueTypes, PlaceInv, Staged
<1>8. PutAll(c) /\ UNCHANGED <<outbound, encryption, sender>>
  OBVIOUS
<1>9. \A u \in Thread : LocalOK(thread'[u])
  BY <1>1, <1>2 DEF ThreadInv
<1>10. back => ooo \in Raw
  BY <1>3, Facts DEF Raw
<1>11. \A u \in Thread : u # t =>
         /\ thread[u].pc \in Fresh \cup Done => thread[u].c # c
         /\ thread[u].pc \in Drawing \cup {"restage"} => thread[u].ooo # c
         /\ thread[u].pc = "encryption" => thread[u].c # c
  <2>1. \A u \in Thread : u # t =>
          /\ thread[u].pc \in Fresh \cup Done => thread[u].c # c
          /\ thread[u].pc \in Drawing \cup {"restage"} => thread[u].ooo # c
    BY <1>3, HandFacts, Facts
  <2>2. \A u \in Thread : thread[u].pc = "encryption" => thread[u].c # c
    BY <1>3 DEF LockInv
  <2> QED BY <2>1, <2>2
<1>12. Hands'[t] = {} /\ \A u \in Thread : u # t => Hands'[u] = Hands[u]
  BY <1>1, <1>2, HandsOf
<1>13. Hands[t] = {c} \cup (IF back THEN {ooo} ELSE {})
  BY <1>3, HandsOf, Facts DEF Hand
<1> HIDE DEF c, ooo, back
<1>14. contPool'.free = contPool.free \cup {c} /\ PoolTypes'
  BY <1>3, <1>8, PutFacts
<1>15. Out' = Out /\ Sending' = Sending
  BY <1>8 DEF Out, Sending
<1>16. PutKeeps(c)
  <2>1. \A u \in Thread : thread'[u].pc \in Done \cup {"encryption"} => thread'[u] = thread[u] /\ thread[u].c # c
    <3>1. thread'[t].pc \notin Done \cup {"encryption"}
      BY <1>1, <1>2 DEF Done
    <3> QED BY <1>2, <1>11, <3>1
  <2>2. c \notin Range(encryption)
    BY <1>3 DEF LockInv
  <2>3. Raw' \subseteq Raw \ {c}
    <3>1. Raw' \subseteq Raw
      BY <1>1, <1>2, <1>6, <1>10 DEF Raw, Fresh, Drawing
    <3>2. c \notin Raw'
      <4>1. c \notin Staged'
        BY <1>3, <1>6
      <4>2. thread'[t].pc \notin Fresh \cup Drawing \cup {"restage"}
        BY <1>1, <1>2 DEF Fresh, Drawing
      <4>3. ASSUME NEW u \in Thread, thread'[u].pc \in Fresh PROVE thread'[u].c # c
        BY <1>2, <1>11, <4>2, <4>3
      <4>4. ASSUME NEW u \in Thread, thread'[u].pc \in Drawing \cup {"restage"} PROVE thread'[u].ooo # c
        BY <1>2, <1>11, <4>2, <4>4
      <4> QED BY <4>1, <4>3, <4>4 DEF Raw
    <3> QED BY <3>1, <3>2
  <2>4. Cooked' \subseteq Cooked \ {c}
    <3>1. Cooked' \subseteq Cooked
      BY <1>1, <1>2, <1>15 DEF Cooked, Done
    <3>2. c \notin Cooked'
      BY <1>3, <1>15, <2>1 DEF Cooked
    <3> QED BY <3>1, <3>2
  <2> QED BY <1>2, <1>3, <1>5, <1>9, <1>15, <2>1, <2>2, <2>3, <2>4 DEF PutKeeps
<1>17. ThreadInv' /\ ContainerInv' /\ LockInv'
  BY <1>3, <1>4, <1>8, <1>16, PutThreads
<1>18. ElementInv' /\ contPool'.count = Cardinality(Container \ contPool'.free)
       /\ \A d \in Container : d # c => \A e \in Own(d) : elem'[e] = elem[e]
  BY <1>3, <1>4, <1>8, <1>16, PutElements DEF PutKeeps
<1>19. NonceInv' /\ KeyInv' /\ CounterInv' /\ PacketInv'
  BY <1>3, <1>4, <1>8, <1>16, PutNonces
<1>20. PlaceInv'
  <2>1. Places(contPool.free, Staged, Out, Sending, Hands)
    BY DEF PlaceInv
  <2>2. Places(contPool'.free, Staged', Out', Sending', Hands')
    <3>1. CASE back
      BY <1>3, <1>6, <1>12, <1>13, <1>14, <1>15, <2>1, <3>1, HandsOf DEF Places
    <3>2. CASE ~back
      BY <1>3, <1>6, <1>12, <1>13, <1>14, <1>15, <2>1, <3>2, HandsOf DEF Places
    <3> QED BY <3>1, <3>2
  <2> QED BY <1>7, <1>8, <1>18, <2>2 DEF PlaceInv
<1>21. OrderInv'
  <2>1. c \notin Out' \cup Sending' /\ Sending' \subseteq Sending
    BY <1>3, <1>15
  <2> QED BY <1>3, <1>8, <1>18, <2>1, PutOrder
<1>22. QueueTypes' /\ SenderInv' /\ PeerTypes'
  BY <1>2, <1>7, PeerTypesKept DEF QueueTypes, SenderInv
<1> QED BY <1>14, <1>17, <1>18, <1>19, <1>20, <1>21, <1>22, InvFromParts

-----------------------------------------------------------------------------
(* Containers that stay out of the pool *)

\* Counters that a step leaves alone or puts to the limit.
CountersKept == \A k \in Key : sendNonce'[k] \in {sendNonce[k], RejectAfter}

LEMMA MoveParts ==
    ASSUME Inv, UNCHANGED <<elem, cont, elemPool, contPool, packets, sealed>>, CountersKept,
           \A c \in Container : Own(c)' = Own(c), Raw' \subseteq Raw
    PROVE  PoolTypes' /\ ContainerInv' /\ ElementInv' /\ NonceInv'
<1> USE PartsOfInv
<1>1. PoolTypes'
  BY DEF PoolTypes
<1>2. ContainerInv'
  BY DEF ContainerInv
<1>3. ElementInv'
  <2>1. Owned' = Owned
    BY DEF Owned
  <2> QED BY <2>1 DEF ElementInv
<1>4. NonceInv'
  <2>1. \A n \in Nat, k \in Key : Used(n, sendNonce[k]) => Used(n, sendNonce'[k])
    BY Facts DEF Used, CountersKept
  <2>2. \A e \in Elem : elem[e].key # NoKey => elem[e].key \in Key /\ elem[e].nonce \in Nat
    BY DEF PoolTypes, Element
  <2>3. \A e \in Elem : elem'[e].key # NoKey => Used(elem'[e].nonce, sendNonce'[elem'[e].key])
    BY <2>1, <2>2 DEF NonceInv
  <2>4. \A a \in sealed' : a[1] \in Key /\ a[2] \in Nat /\ Used(a[2], sendNonce'[a[1]])
    BY <2>1 DEF NonceInv
  <2>5. NonceOnce'
    BY DEF NonceInv, NonceOnce
  <2> QED BY <2>3, <2>4, <2>5 DEF NonceInv
<1> QED BY <1>1, <1>2, <1>3, <1>4

LEMMA StoringKept ==
    ASSUME BusyKept, NEW k \in Key
    PROVE  Storing(k)' = Storing(k) /\ IsFiniteSet(Storing(k)) /\ Cardinality(Storing(k)) \in Nat
<1>1. \A t : t \in Storing(k)' => t \in Storing(k)
  BY DEF Storing, BusyKept, Busy, Drawing
<1>2. \A t : t \in Storing(k) => t \in Storing(k)'
  BY DEF Storing, BusyKept, Busy, Drawing
<1>3. Storing(k) \subseteq Thread
  BY DEF Storing
<1>4. IsFiniteSet(Storing(k)) /\ Cardinality(Storing(k)) \in Nat
  BY <1>3, Facts, FS_Subset, FS_CardinalityType
<1> QED BY <1>1, <1>2, <1>4

LEMMA MoveBusy ==
    ASSUME Inv, UNCHANGED <<elem, cont>>, CountersKept, BusyKept, \A t \in Thread : LocalOK(thread'[t]),
           Raw' \subseteq Raw, Cooked' \subseteq Cooked
    PROVE  (\A c \in Container : Own(c)' = Own(c)) /\ ThreadInv' /\ KeyInv' /\ CounterInv'
<1> USE PartsOfInv
<1>1. \A c \in Container : Own(c)' = Own(c)
  BY OwnKept
<1>2. \A t \in Thread : Busy(t)' => thread'[t] = thread[t] /\ Busy(t)
  BY DEF BusyKept, Busy
<1>3. ThreadInv'
  BY <1>2 DEF ThreadInv, Busy
<1>4. KeyInv'
  <2>1. \A c : Elems(c)' = Elems(c)
    BY DEF Elems
  <2> QED BY <1>2, <2>1 DEF KeyInv
<1>5. CounterInv'
  <2> SUFFICES ASSUME NEW k \in Key PROVE sendNonce'[k] <= RejectAfter + Cardinality(Storing(k))'
    BY DEF CounterInv
  <2>1. Storing(k)' = Storing(k) /\ Cardinality(Storing(k)) \in Nat
    BY StoringKept
  <2>2. Cardinality(Storing(k))' = Cardinality(Storing(k))
    BY <2>1
  <2> QED BY <2>1, <2>2, Facts DEF CounterInv, CountersKept
<1> QED BY <1>1, <1>3, <1>4, <1>5

LEMMA MoveOrder ==
    ASSUME Inv, UNCHANGED <<elem, cont, elemPool, packets, queued, wire>>,
           \A c \in Container : Own(c)' = Own(c), Out' \cup Sending' = Out \cup Sending,
           \A i, j \in DOMAIN outbound' : \A c, d \in Out' :
             i < j /\ outbound'[i] = c /\ outbound'[j] = d => Before(c, d),
           \A c \in Sending', d \in Out' : Before(c, d)
    PROVE  PacketInv' /\ OrderInv'
<1> USE PartsOfInv
<1>1. \A c : Elems(c)' = Elems(c)
  BY DEF Elems
<1>2. Read' = Read
  BY DEF Read
<1>3. PacketInv'
  BY <1>1, <1>2 DEF PacketInv
<1>4. OrderKeeps
  BY DEF OrderKeeps
<1> QED BY <1>3, <1>4, OrderKept

\* Goroutines that have nothing, or that keep what they have for the same end.
Same(r, s) ==
    /\ r.c = s.c /\ r.ooo = s.ooo
    /\ \/ {r.pc, s.pc} \subseteq {"idle", "flush", "top", "take"}
       \/ {r.pc, s.pc} \subseteq Fresh
       \/ {r.pc, s.pc} \subseteq {"check", "outbound"}

\* A step that moves no container, but for the nil of Stop.
LEMMA QuietStep ==
    ASSUME Inv, UNCHANGED <<elem, cont, elemPool, contPool, staged, encryption, history>>, CountersKept,
           PeerTypes', SenderInv', sender' \in [pc : {"idle", "send", "return", "off"}, c : Maybe],
           sender'.c = sender.c,
           \/ outbound' = outbound
           \/ outbound' = Append(outbound, Nil) /\ Nil \notin Range(outbound),
           thread' \in [Thread -> Local],
           \A t \in Thread : thread'[t] = thread[t] \/ (LocalOK(thread'[t]) /\ Same(thread'[t], thread[t]))
    PROVE  Inv'
<1> USE PartsOfInv
<1>1. \A t \in Thread : LocalOK(thread'[t]) /\ LocalOK(thread[t])
  BY DEF ThreadInv
<1>2. BusyKept
  BY DEF BusyKept, Busy, Drawing, Same, Fresh
<1>3. Hands' = Hands
  <2>1. \A t \in Thread : Hand(thread'[t]) = Hand(thread[t])
    BY DEF Hand, Same, Fresh
  <2> QED BY <2>1 DEF Hands
<1>4. Staged' = Staged /\ Sending' = Sending /\ UNCHANGED <<queued, wire, packets, sealed>>
  BY DEF Staged, Sending, history
<1>5. outbound' \in Seq(Maybe) /\ Out' = Out /\ IsInjective(outbound')
  <2>1. CASE outbound' = outbound
    BY <2>1 DEF Out, QueueTypes, PlaceInv
  <2>2. CASE outbound' = Append(outbound, Nil) /\ Nil \notin Range(outbound)
    <3>1. Range(outbound') = Range(outbound) \cup {Nil} /\ outbound' \in Seq(Maybe) /\ IsInjective(outbound')
      BY <2>2, AppendFacts DEF QueueTypes, Maybe, PlaceInv
    <3> QED BY <3>1 DEF Out
  <2> QED BY <2>1, <2>2
<1>6. Raw' \subseteq Raw
  <2>1. \A t \in Thread : thread'[t].pc \in Fresh =>
          thread[t].pc \in Fresh /\ thread'[t].c = thread[t].c
    BY DEF Same, Fresh
  <2>2. \A t \in Thread : thread'[t].pc \in Drawing \cup {"restage"} =>
          thread[t].pc \in Drawing \cup {"restage"} /\ thread'[t].ooo = thread[t].ooo
    BY DEF Same, Fresh, Drawing
  <2> QED BY <1>4, <2>1, <2>2 DEF Raw
<1>7. Cooked' \subseteq Cooked
  <2>1. \A t \in Thread : thread'[t].pc \in Done => thread[t].pc \in Done /\ thread'[t].c = thread[t].c
    BY DEF Same, Fresh, Done
  <2> QED BY <1>4, <1>5, <2>1 DEF Cooked
<1>8. LockInv'
  <2>1. \A t \in Thread : thread'[t].pc \in Done \cup {"encryption"} =>
          thread[t].pc \in Done \cup {"encryption"} /\ thread'[t].c = thread[t].c
    BY DEF Same, Fresh, Done
  <2>2. \A t \in Thread : thread'[t].pc = "encryption" => thread'[t] = thread[t]
    BY DEF Same, Fresh
  <2>3. \A t \in Thread : thread'[t].pc \in Done \cup {"encryption"} => cont'[thread'[t].c].locked
    BY <2>1 DEF LockInv
  <2>4. \A t \in Thread : thread'[t].pc = "encryption" =>
          thread'[t].c \in Out' \cup Sending' /\ thread'[t].c \notin Range(encryption')
    BY <1>4, <1>5, <2>2 DEF LockInv
  <2>5. \A t, u \in Thread : thread'[t].pc = "encryption" /\ thread'[u].pc = "encryption"
          /\ thread'[t].c = thread'[u].c => t = u
    BY <2>2 DEF LockInv
  <2>6. \A c \in Range(encryption') : cont'[c].locked /\ c \in Out' \cup Sending'
    BY <1>4, <1>5 DEF LockInv
  <2> QED BY <2>3, <2>4, <2>5, <2>6 DEF LockInv
<1>9. (\A c \in Container : Own(c)' = Own(c)) /\ ThreadInv' /\ KeyInv' /\ CounterInv'
  BY <1>1, <1>2, <1>6, <1>7, MoveBusy
<1>10. PoolTypes' /\ ContainerInv' /\ ElementInv' /\ NonceInv'
  BY <1>4, <1>6, <1>9, MoveParts
<1>11. PlaceInv'
  BY <1>3, <1>4, <1>5 DEF PlaceInv
<1>12. PacketInv' /\ OrderInv'
  <2>1. /\ \A i, j \in DOMAIN outbound' : \A c, d \in Out' :
             i < j /\ outbound'[i] = c /\ outbound'[j] = d => Before(c, d)
        /\ \A c \in Sending', d \in Out' : Before(c, d)
    BY <1>4, QueueOrder DEF QueueTypes, PlaceInv
  <2> QED BY <1>4, <1>5, <1>9, <2>1, MoveOrder
<1>13. QueueTypes'
  BY <1>5 DEF QueueTypes
<1> QED BY <1>8, <1>9, <1>10, <1>11, <1>12, <1>13, InvFromParts

\* A goroutine stages a container: StagePackets, StageKeepalive.
LEMMA StageStep ==
    ASSUME Inv, NEW t \in Thread, NEW x, NEW r \in Local, LocalOK(r), thread' = [thread EXCEPT ![t] = r],
           staged' = Append(staged, x),
           \/ thread[t].pc \in {"stage", "keepalive"} /\ x = thread[t].c /\ r.pc = "top"
           \/ thread[t].pc = "restage" /\ x = thread[t].ooo /\ r.pc = "check" /\ r.c = thread[t].c,
           UNCHANGED <<pools, outbound, encryption, sender, peerState, history>>
    PROVE  Inv'
<1> USE PartsOfInv
<1>1. /\ thread' \in [Thread -> Local] /\ thread'[t] = r
      /\ \A u \in Thread : u # t => thread'[u] = thread[u]
  BY ThreadExcept
<1>2. UNCHANGED <<elem, cont, elemPool, contPool, outbound, encryption, sender, keys, sendNonce, control,
                  packets, sealed, queued, wire>>
  BY DEF pools, peerState, history
<1>3. LocalOK(thread[t]) /\ thread[t] \in Local
  BY DEF ThreadInv, QueueTypes
<1>4. x \in Container /\ x \in Hand(thread[t]) /\ Hand(r) = Hand(thread[t]) \ {x}
  <2>1. CASE thread[t].pc \in {"stage", "keepalive"} /\ x = thread[t].c /\ r.pc = "top"
    BY <1>3, <2>1, HandFacts DEF Fresh, Hand, LocalOK
  <2>2. CASE thread[t].pc = "restage" /\ x = thread[t].ooo /\ r.pc = "check" /\ r.c = thread[t].c
    BY <1>3, <2>2, HandFacts DEF Hand, LocalOK, Drawing
  <2> QED BY <2>1, <2>2
<1>5. x \notin contPool.free \cup Staged \cup Out \cup Sending
  BY <1>4, HandFacts
<1>6. staged' \in Seq(Container) /\ IsInjective(staged') /\ Staged' = Staged \cup {x}
  BY <1>4, <1>5, AppendFacts DEF QueueTypes, PlaceInv, Staged
<1>7. Out' = Out /\ Sending' = Sending
  BY <1>2 DEF Out, Sending
<1>8. Hands'[t] = Hands[t] \ {x} /\ x \in Hands[t] /\ \A u \in Thread : u # t => Hands'[u] = Hands[u]
  BY <1>1, <1>4, HandsOf
<1>9. PlaceInv'
  <2>1. Places(contPool.free, Staged, Out, Sending, Hands)
    BY DEF PlaceInv
  <2>2. Places(contPool'.free, Staged', Out', Sending', Hands')
    BY <1>2, <1>6, <1>7, <1>8, <2>1 DEF Places
  <2> QED BY <1>2, <1>6, <2>2 DEF PlaceInv
<1>10. BusyKept
  BY <1>1 DEF BusyKept, Busy, Drawing
<1>11. \A u \in Thread : LocalOK(thread'[u])
  BY <1>1 DEF ThreadInv
<1>12. x \in Raw
  BY <1>4, Facts DEF Raw, Fresh
<1>13. Raw' \subseteq Raw
  <2>1. \A u \in Thread : thread'[u].pc \in Fresh => thread'[u] = thread[u]
    BY <1>1 DEF Fresh
  <2>2. \A u \in Thread : thread'[u].pc \in Drawing \cup {"restage"} => thread'[u] = thread[u]
    BY <1>1 DEF Drawing
  <2> QED BY <1>6, <1>12, <2>1, <2>2 DEF Raw
<1>14. \A u \in Thread : thread'[u].pc \in Done \cup {"encryption"} =>
         /\ thread[u].pc \in Done \cup {"encryption"} /\ thread'[u].c = thread[u].c
         /\ thread'[u].pc = "encryption" => thread[u].pc = "encryption"
         /\ thread'[u].pc \in Done => thread[u].pc \in Done
  BY <1>1 DEF Done
<1>15. Cooked' \subseteq Cooked
  BY <1>7, <1>14 DEF Cooked
<1>16. LockInv'
  BY <1>2, <1>7, <1>14 DEF LockInv
<1>17. (\A c \in Container : Own(c)' = Own(c)) /\ ThreadInv' /\ KeyInv' /\ CounterInv'
  BY <1>2, <1>10, <1>11, <1>13, <1>15, MoveBusy DEF CountersKept
<1>18. PoolTypes' /\ ContainerInv' /\ ElementInv' /\ NonceInv'
  BY <1>2, <1>13, <1>17, MoveParts DEF CountersKept
<1>19. PacketInv' /\ OrderInv'
  <2>1. /\ \A i, j \in DOMAIN outbound' : \A c, d \in Out' :
             i < j /\ outbound'[i] = c /\ outbound'[j] = d => Before(c, d)
        /\ \A c \in Sending', d \in Out' : Before(c, d)
    BY <1>2, <1>7 DEF OrderInv
  <2> QED BY <1>2, <1>7, <1>17, <2>1, MoveOrder
<1>20. QueueTypes' /\ SenderInv' /\ PeerTypes'
  BY <1>1, <1>2, <1>6, PeerTypesKept DEF QueueTypes, SenderInv
<1> QED BY <1>9, <1>16, <1>17, <1>18, <1>19, <1>20, InvFromParts

\* RoutineSequentialSender takes what is first in the queue.
LEMMA TakenFromOutbound ==
    ASSUME Inv, SenderTakes
    PROVE  Inv'
<1> USE PartsOfInv
<1>1. PICK i \in DOMAIN outbound :
         /\ IsNext(i)
         /\ outbound' = RemoveAt(outbound, i)
         /\ sender' = IF outbound[i] = Nil THEN [pc |-> "off", c |-> Nil]
                      ELSE [pc |-> IF isRunning THEN "send" ELSE "return", c |-> outbound[i]]
  BY DEF SenderTakes
<1>2. sender.pc = "idle" /\ sender.c = Nil /\ Sending = {}
  BY DEF SenderTakes, SenderInv, Sending
<1>3. UNCHANGED <<elem, cont, elemPool, contPool, staged, encryption, thread, keys, sendNonce, control,
                  packets, sealed, queued, wire>>
  BY DEF SenderTakes, pools, peerState, history
<1>4. outbound \in Seq(Maybe) /\ outbound # <<>> /\ IsInjective(outbound)
  BY <1>1 DEF QueueTypes, PlaceInv
<1>5. outbound' = Tail(outbound) /\ outbound[i] = Head(outbound)
  BY <1>1, <1>4, RemoveHead DEF IsNext
<1> DEFINE x == Head(outbound)
<1>6. /\ outbound' \in Seq(Maybe) /\ IsInjective(outbound') /\ Range(outbound') = Range(outbound) \ {x}
      /\ x \in Range(outbound) /\ x = outbound[1] /\ x \in Maybe
      /\ DOMAIN outbound' = 1 .. Len(outbound) - 1
      /\ \A j \in DOMAIN outbound' : outbound'[j] = outbound[j + 1] /\ j + 1 \in DOMAIN outbound
  BY <1>4, <1>5, TailFacts
<1>7. sender'.c = x /\ sender' \in [pc : {"idle", "send", "return", "off"}, c : Maybe]
      /\ (x = Nil <=> sender'.pc = "off") /\ sender'.pc # "idle"
  BY <1>1, <1>5, <1>6 DEF Maybe
<1> HIDE DEF x
<1>8. Staged' = Staged /\ Hands' = Hands
  BY <1>3 DEF Staged, Hands
<1>9. Sending' = {x} \ {Nil} /\ Out' = Out \ {x} /\ Out' \cup Sending' = Out \cup Sending
      /\ Sending' \subseteq Out
  BY <1>2, <1>6, <1>7 DEF Sending, Out
<1>10. PlaceInv'
  <2>1. Places(contPool.free, Staged, Out, Sending, Hands)
    BY DEF PlaceInv
  <2>2. Places(contPool'.free, Staged', Out', Sending', Hands')
    BY <1>2, <1>3, <1>8, <1>9, <2>1 DEF Places
  <2> QED BY <1>3, <1>6, <2>2 DEF PlaceInv
<1>11. SenderInv'
  <2>1. Nil \in Range(outbound') => x # Nil
    BY <1>6
  <2>2. x = Nil => Nil \in Range(outbound)
    BY <1>6
  <2>3. control \notin {"flushing", "stopped", "starting", "removed"}
    BY <1>2 DEF SenderInv
  <2> QED BY <1>3, <1>6, <1>7, <2>1, <2>2, <2>3 DEF SenderInv
<1>12. BusyKept /\ \A t \in Thread : LocalOK(thread'[t])
  BY <1>3 DEF BusyKept, ThreadInv
<1>13. Raw' \subseteq Raw /\ Cooked' \subseteq Cooked
  BY <1>3, <1>8, <1>9 DEF Raw, Cooked
<1>14. LockInv'
  BY <1>3, <1>9 DEF LockInv
<1>15. (\A c \in Container : Own(c)' = Own(c)) /\ ThreadInv' /\ KeyInv' /\ CounterInv'
  BY <1>3, <1>12, <1>13, MoveBusy DEF CountersKept
<1>16. PoolTypes' /\ ContainerInv' /\ ElementInv' /\ NonceInv'
  BY <1>3, <1>13, <1>15, MoveParts DEF CountersKept
<1>17. PacketInv' /\ OrderInv'
  <2>1. ASSUME NEW j \in DOMAIN outbound', NEW k \in DOMAIN outbound', NEW c \in Out', NEW d \in Out',
               j < k, outbound'[j] = c, outbound'[k] = d
        PROVE  Before(c, d)
    <3>1. j + 1 < k + 1
      BY <1>6, <2>1
    <3> QED BY <1>6, <1>9, <2>1, <3>1 DEF OrderInv
  <2>2. ASSUME NEW c \in Sending', NEW d \in Out' PROVE Before(c, d)
    <3>1. c = outbound[1] /\ c \in Out /\ d \in Out /\ d \in Range(outbound') /\ 1 \in DOMAIN outbound
      BY <1>4, <1>6, <1>9, <2>2 DEF Out
    <3>2. PICK j \in DOMAIN outbound' : outbound'[j] = d
      BY <3>1 DEF Range
    <3>3. j + 1 \in DOMAIN outbound /\ outbound[j + 1] = d /\ 1 < j + 1
      BY <1>6, <3>2
    <3> QED BY <3>1, <3>3 DEF OrderInv
  <2> QED BY <1>3, <1>9, <1>15, <2>1, <2>2, MoveOrder
<1>18. QueueTypes' /\ PeerTypes'
  BY <1>3, <1>6, <1>7, PeerTypesKept DEF QueueTypes
<1> QED BY <1>10, <1>11, <1>14, <1>15, <1>16, <1>17, <1>18, InvFromParts

\* What follows a container: the next one, or top.
LEMMA ContinueFacts ==
    ASSUME QueueTypes, ThreadInv, NEW t \in Thread, thread[t].pc \in {"check", "encryption"}, Continue(t)
    PROVE  \E pc \in {"top", "take"}, k \in Key \cup {NoKey}, r \in Local :
             /\ pc = "take" => k # NoKey
             /\ Starts(r, pc, k, Nil) /\ thread' = [thread EXCEPT ![t] = r]
<1> DEFINE pc == IF thread[t].ooo = Nil THEN "take" ELSE "top"
           k == IF thread[t].ooo = Nil THEN thread[t].key ELSE NoKey
           r == [Idle EXCEPT !.pc = pc, !.key = k]
<1>1. thread[t] \in Local /\ LocalOK(thread[t])
  BY DEF QueueTypes, ThreadInv
<1>2. pc \in {"top", "take"} /\ pc \in Pc
  BY DEF Pc
<1>3. k \in Key \cup {NoKey} /\ (pc = "take" => k # NoKey)
  BY <1>1 DEF Local, LocalOK
<1>4. thread' = [thread EXCEPT ![t] = r]
  BY DEF Continue, Becomes
<1>5. Nil \in Maybe
  BY DEF Maybe
<1> HIDE DEF pc, k
<1>6. Starts(r, pc, k, Nil)
  BY <1>2, <1>3, <1>5, LocalNew, Zenon
<1>7. r \in Local
  BY <1>6 DEF Starts
<1> QED BY <1>2, <1>3, <1>4, <1>6, <1>7

\* PushEncryption.
LEMMA PushedToWorkers ==
    ASSUME Inv, NEW t \in Thread, PushEncryption(t)
    PROVE  Inv'
<1> USE PartsOfInv
<1> DEFINE x == thread[t].c
<1>1. /\ thread[t].pc = "encryption" /\ encryption' = Append(encryption, x) /\ Continue(t)
      /\ UNCHANGED <<elem, cont, elemPool, contPool, staged, outbound, sender, keys, sendNonce, control,
                     packets, sealed, queued, wire>>
  BY DEF PushEncryption, At, pools, peerState, history
<1>2. PICK pc \in {"top", "take"}, k \in Key \cup {NoKey}, r \in Local :
         /\ pc = "take" => k # NoKey
         /\ Starts(r, pc, k, Nil) /\ thread' = [thread EXCEPT ![t] = r]
  BY <1>1, ContinueFacts
<1>3. LocalOK(r) /\ Hand(r) = {} /\ r.pc = pc
  BY <1>2, StartsFacts
<1>4. /\ thread' \in [Thread -> Local] /\ thread'[t] = r
      /\ \A u \in Thread : u # t => thread'[u] = thread[u]
  BY <1>2, ThreadExcept
<1>5. x \in Container /\ x \in Out \cup Sending /\ x \notin Range(encryption) /\ cont[x].locked
  BY <1>1, RawCooked DEF LockInv
<1>6. encryption' \in Seq(Container) /\ IsInjective(encryption') /\ Range(encryption') = Range(encryption) \cup {x}
  BY <1>1, <1>5, AppendFacts DEF QueueTypes, PlaceInv
<1>7. Hands' = Hands
  <2>1. Hand(thread[t]) = {}
    BY <1>1 DEF Hand
  <2>2. \A u \in Thread : Hand(thread'[u]) = Hand(thread[u])
    BY <1>3, <1>4, <2>1
  <2> QED BY <2>2 DEF Hands
<1>8. Staged' = Staged /\ Out' = Out /\ Sending' = Sending
  BY <1>1 DEF Staged, Out, Sending
<1>9. PlaceInv'
  BY <1>1, <1>6, <1>7, <1>8 DEF PlaceInv
<1>10. BusyKept
  BY <1>1, <1>3, <1>4 DEF BusyKept, Busy, Drawing
<1>11. \A u \in Thread : LocalOK(thread'[u])
  BY <1>3, <1>4 DEF ThreadInv
<1>12. \A u \in Thread : thread'[u].pc \in Fresh \cup Done \cup Drawing \cup {"encryption"} =>
         thread'[u] = thread[u] /\ u # t
  BY <1>3, <1>4 DEF Fresh, Done, Drawing
<1>13. Raw' \subseteq Raw /\ Cooked' \subseteq Cooked
  <2>1. "restage" \in Done
    BY DEF Done
  <2> QED BY <1>8, <1>12, <2>1 DEF Raw, Cooked
<1>14. LockInv'
  <2>1. \A c \in Range(encryption') : cont'[c].locked /\ c \in Out' \cup Sending'
    BY <1>1, <1>5, <1>6, <1>8 DEF LockInv
  <2>2. \A u \in Thread : thread'[u].pc \in Done \cup {"encryption"} => cont'[thread'[u].c].locked
    BY <1>1, <1>12 DEF LockInv
  <2>3. \A u \in Thread : thread'[u].pc = "encryption" => thread'[u].c # x
    BY <1>1, <1>12 DEF LockInv
  <2>4. \A u \in Thread : thread'[u].pc = "encryption" =>
          thread'[u].c \in Out' \cup Sending' /\ thread'[u].c \notin Range(encryption')
    BY <1>6, <1>8, <1>12, <2>3 DEF LockInv
  <2>5. \A u, v \in Thread : thread'[u].pc = "encryption" /\ thread'[v].pc = "encryption"
          /\ thread'[u].c = thread'[v].c => u = v
    BY <1>12 DEF LockInv
  <2> QED BY <2>1, <2>2, <2>4, <2>5 DEF LockInv
<1>15. (\A c \in Container : Own(c)' = Own(c)) /\ ThreadInv' /\ KeyInv' /\ CounterInv'
  BY <1>1, <1>10, <1>11, <1>13, MoveBusy DEF CountersKept
<1>16. PoolTypes' /\ ContainerInv' /\ ElementInv' /\ NonceInv'
  BY <1>1, <1>13, <1>15, MoveParts DEF CountersKept
<1>17. PacketInv' /\ OrderInv'
  <2>1. /\ \A i, j \in DOMAIN outbound' : \A c, d \in Out' :
             i < j /\ outbound'[i] = c /\ outbound'[j] = d => Before(c, d)
        /\ \A c \in Sending', d \in Out' : Before(c, d)
    BY <1>1, <1>8 DEF OrderInv
  <2> QED BY <1>1, <1>8, <1>15, <2>1, MoveOrder
<1>18. QueueTypes' /\ SenderInv' /\ PeerTypes'
  BY <1>1, <1>4, <1>6, PeerTypesKept DEF QueueTypes, SenderInv
<1> QED BY <1>9, <1>14, <1>15, <1>16, <1>17, <1>18, InvFromParts

\* Take: the first staged container, if there is one.
LEMMA TakenFromStaged ==
    ASSUME Inv, NEW t \in Thread, staged # <<>>, Take(t)
    PROVE  Inv'
<1> USE PartsOfInv
<1>a. Head(staged) \in Container /\ thread[t].key \in Key /\ thread[t].pc = "take"
  <2>1. Head(staged) \in Container
    BY DEF QueueTypes
  <2>2. thread[t].pc = "take"
    BY DEF Take, At
  <2> QED BY <2>1, <2>2 DEF QueueTypes, ThreadInv, LocalOK, Local
<1>b. PICK x \in Container, k \in Key : x = Head(staged) /\ k = thread[t].key
  BY <1>a
<1> DEFINE r == [Idle EXCEPT !.pc = "nonce", !.key = k, !.c = x]
<1>1. /\ thread[t].pc = "take" /\ staged' = Tail(staged) /\ thread' = [thread EXCEPT ![t] = r]
      /\ UNCHANGED <<elem, cont, elemPool, contPool, outbound, encryption, sender, keys, sendNonce, control,
                     packets, sealed, queued, wire>>
  BY <1>b DEF Take, At, Becomes, pools, peerState, history
<1>2. /\ x \in Container /\ x \in Staged /\ staged' \in Seq(Container)
      /\ Staged' = Staged \ {x} /\ IsInjective(staged')
  BY <1>b, <1>1, TailFacts DEF QueueTypes, PlaceInv, Staged
<1>3. thread[t] \in Local /\ LocalOK(thread[t]) /\ k # NoKey /\ thread[t].c = Nil
  BY <1>1, Facts DEF QueueTypes, ThreadInv, LocalOK, Local
<1>4. Starts(r, "nonce", k, x)
  <2>1. "nonce" \in Pc /\ x \in Maybe /\ k \in Key \cup {NoKey}
    BY DEF Pc, Maybe
  <2> QED BY <2>1, LocalNew, Zenon
<1> HIDE DEF r
<1>5. r \in Local /\ LocalOK(r) /\ Hand(r) = {x} /\ r.pc = "nonce" /\ r.c = x /\ r.i = 1 /\ r.kept = <<>>
      /\ r.ooo = Nil
  BY <1>2, <1>3, <1>4, Facts DEF Starts, LocalOK, Hand, Drawing
<1>6. /\ thread' \in [Thread -> Local] /\ thread'[t] = r
      /\ \A u \in Thread : u # t => thread'[u] = thread[u]
  BY <1>1, <1>5, ThreadExcept
<1>7. Out' = Out /\ Sending' = Sending
  BY <1>1 DEF Out, Sending
<1>8. Hands[t] = {} /\ Hands'[t] = {x} /\ \A u \in Thread : u # t => Hands'[u] = Hands[u]
  <2>1. Hand(thread[t]) = {}
    BY <1>1, <1>3 DEF Hand
  <2> QED BY <1>5, <1>6, <2>1, HandsOf
<1>9. PlaceInv'
  <2>1. Places(contPool.free, Staged, Out, Sending, Hands)
    BY DEF PlaceInv
  <2>2. Places(contPool'.free, Staged', Out', Sending', Hands')
    BY <1>1, <1>2, <1>7, <1>8, <2>1 DEF Places
  <2> QED BY <1>1, <1>2, <2>2 DEF PlaceInv
<1>10. x \in Raw /\ DrawnFor(x) = {}
  BY <1>2, NotDrawn DEF Raw
<1>11. cont[x].elems \in Seq(Elem) /\ cont[x].elems # <<>>
  BY <1>2, <1>10 DEF PoolTypes, Box, ContainerInv
<1>12. \A u \in Thread : thread'[u].pc \in Fresh \cup Done \cup {"store", "encryption"} =>
         thread'[u] = thread[u]
  BY <1>5, <1>6 DEF Fresh, Done
<1>13. Rest(r, cont[x].elems) = Elems(x)
  BY <1>5, <1>11 DEF Rest, Elems, Range
<1>14. \A c \in Container : Own(c)' = Own(c)
  <2>1. ASSUME NEW c \in Container, c # x PROVE Own(c)' = Own(c)
    <3>1. \A u \in Thread : u \in DrawnFor(c) \/ u \in DrawnFor(c)' => thread'[u] = thread[u]
      BY <1>1, <1>5, <1>6, <2>1 DEF DrawnFor, Busy, Drawing
    <3> QED BY <1>1, <3>1, OwnSame
  <2>2. DrawnFor(x)' = {t}
    <3>1. \A u \in DrawnFor(x)' : u = t
      BY <1>6, <1>10 DEF DrawnFor, Busy
    <3>2. t \in DrawnFor(x)'
      BY <1>5, <1>6 DEF DrawnFor, Busy, Drawing
    <3> QED BY <3>1, <3>2
  <2>3. Own(x)' = Range(r.kept) \cup Rest(r, cont[x].elems)
    BY <1>1, <1>6, <2>2 DEF Own
  <2>4. Own(x) = Elems(x)
    BY <1>10, OwnFacts
  <2>5. Own(x)' = Own(x)
    BY <1>5, <1>13, <2>3, <2>4, EmptyFacts
  <2> QED BY <2>1, <2>5
<1>15. Raw' \subseteq Raw
  <2>1. \A u \in Thread : thread'[u].pc \in Drawing \cup {"restage"} /\ thread'[u].ooo # Nil => thread'[u] = thread[u]
    BY <1>5, <1>6
  <2> QED BY <1>2, <1>12, <2>1 DEF Raw
<1>16. Cooked' \subseteq Cooked
  BY <1>7, <1>12 DEF Cooked
<1>17. LockInv'
  BY <1>1, <1>7, <1>12 DEF LockInv
<1>18. PoolTypes' /\ ContainerInv' /\ ElementInv' /\ NonceInv'
  BY <1>1, <1>14, <1>15, MoveParts DEF CountersKept
<1>19. ThreadInv'
  <2>1. LoopOK(r, cont[x].elems)
    <3>1. 1 \in DOMAIN cont[x].elems /\ DOMAIN r.kept = {}
      BY <1>5, <1>11
    <3> QED BY <1>5, <3>1 DEF LoopOK, IsInjective
  <2>2. \A u \in Thread : LocalOK(thread'[u])
    BY <1>5, <1>6 DEF ThreadInv
  <2>3. \A u \in Thread : Busy(u)' => LoopOK(thread'[u], cont'[thread'[u].c].elems)
    <3> TAKE u \in Thread
    <3>1. CASE u = t
      BY <1>1, <1>5, <1>6, <2>1, <3>1
    <3>2. CASE u # t
      BY <1>1, <1>6, <3>2 DEF ThreadInv, Busy
    <3> QED BY <3>1, <3>2
  <2> QED BY <2>2, <2>3 DEF ThreadInv
<1>20. KeyInv'
  <2>1. \A c : Elems(c)' = Elems(c)
    BY <1>1 DEF Elems
  <2>2. ASSUME NEW u \in Thread, Busy(u)'
        PROVE  /\ \A e \in Range(thread'[u].kept) : elem'[e].key # NoKey
               /\ \A e \in Rest(thread'[u], cont'[thread'[u].c].elems) : elem'[e].key = NoKey
    <3>1. CASE u = t
      BY <1>1, <1>5, <1>6, <1>10, <1>13, <3>1, EmptyFacts DEF KeyInv
    <3>2. CASE u # t
      BY <1>1, <1>6, <2>2, <3>2 DEF KeyInv, Busy
    <3> QED BY <3>1, <3>2
  <2> QED BY <1>1, <1>15, <1>16, <2>1, <2>2 DEF KeyInv
<1>21. CounterInv'
  <2>1. \A j \in Key : Storing(j)' = Storing(j)
    <3> TAKE j \in Key
    <3>1. \A u : u \in Storing(j)' => u \in Storing(j)
      BY <1>12 DEF Storing
    <3>2. \A u : u \in Storing(j) => u \in Storing(j)'
      BY <1>1, <1>6 DEF Storing
    <3> QED BY <3>1, <3>2
  <2> QED BY <1>1, <2>1 DEF CounterInv
<1>22. PacketInv' /\ OrderInv'
  <2>1. /\ \A i, j \in DOMAIN outbound' : \A c, d \in Out' :
             i < j /\ outbound'[i] = c /\ outbound'[j] = d => Before(c, d)
        /\ \A c \in Sending', d \in Out' : Before(c, d)
    BY <1>1, <1>7 DEF OrderInv
  <2> QED BY <1>1, <1>7, <1>14, <2>1, MoveOrder
<1>23. QueueTypes' /\ SenderInv' /\ PeerTypes'
  BY <1>1, <1>2, <1>6, PeerTypesKept DEF QueueTypes, SenderInv
<1> QED BY <1>9, <1>17, <1>18, <1>19, <1>20, <1>21, <1>22, <1>23, InvFromParts

-----------------------------------------------------------------------------
(* The queue grows *)

LEMMA ConcatFacts ==
    ASSUME NEW S \in {Int, Sent}, NEW s \in Seq(S), NEW u \in Seq(S)
    PROVE  /\ s \o u \in Seq(S) /\ Len(s \o u) = Len(s) + Len(u)
           /\ Len(s) \in Nat /\ DOMAIN s = 1 .. Len(s) /\ Len(u) \in Nat /\ DOMAIN u = 1 .. Len(u)
           /\ DOMAIN (s \o u) = 1 .. Len(s) + Len(u)
           /\ \A i \in 1 .. Len(s) : (s \o u)[i] = s[i]
           /\ \A i \in 1 .. Len(u) : (s \o u)[Len(s) + i] = u[i]
           /\ \A i \in DOMAIN (s \o u) : i \in 1 .. Len(s) \/ \E j \in 1 .. Len(u) : i = Len(s) + j
           /\ Range(s \o u) = Range(s) \cup Range(u)
           /\ IsInjective(s) /\ IsInjective(u) /\ Range(s) \cap Range(u) = {} => IsInjective(s \o u)
<1> DEFINE w == s \o u
<1>1. /\ w \in Seq(S) /\ Len(w) = Len(s) + Len(u)
      /\ \A i \in 1 .. Len(s) + Len(u) : w[i] = IF i <= Len(s) THEN s[i] ELSE u[i - Len(s)]
  <2>1. /\ s \o u \in Seq(S) /\ Len(s \o u) = Len(s) + Len(u)
        /\ \A i \in 1 .. Len(s) + Len(u) : (s \o u)[i] = IF i <= Len(s) THEN s[i] ELSE u[i - Len(s)]
    BY ConcatProperties
  <2> QED BY <2>1
<1>2. Len(s) \in Nat /\ DOMAIN s = 1 .. Len(s) /\ Len(u) \in Nat /\ DOMAIN u = 1 .. Len(u)
  OBVIOUS
<1> HIDE DEF w
<1>3. DOMAIN w = 1 .. Len(s) + Len(u)
  BY <1>1
<1>4. /\ \A i \in 1 .. Len(s) : w[i] = s[i] /\ i \in DOMAIN w
      /\ \A i \in 1 .. Len(u) : w[Len(s) + i] = u[i] /\ Len(s) + i \in DOMAIN w
  <2>1. \A i \in 1 .. Len(s) : i \in 1 .. Len(s) + Len(u) /\ i <= Len(s)
    BY <1>2
  <2>2. \A i \in 1 .. Len(u) : /\ Len(s) + i \in 1 .. Len(s) + Len(u) /\ ~(Len(s) + i <= Len(s))
                               /\ (Len(s) + i) - Len(s) = i
    BY <1>2
  <2>3. \A i \in 1 .. Len(u) : w[Len(s) + i] = u[(Len(s) + i) - Len(s)]
    BY <1>1, <2>2
  <2> QED BY <1>1, <1>3, <2>1, <2>2, <2>3
<1>5. \A i \in DOMAIN w : i \in 1 .. Len(s) \/ \E j \in 1 .. Len(u) : i = Len(s) + j
  <2> TAKE i \in DOMAIN w
  <2>1. i \in 1 .. Len(s) + Len(u)
    BY <1>3
  <2>2. CASE i > Len(s)
    <3>1. i - Len(s) \in 1 .. Len(u) /\ i = Len(s) + (i - Len(s))
      BY <1>2, <2>1, <2>2
    <3> QED BY <3>1
  <2> QED BY <1>2, <2>1, <2>2
<1>6. \A y : y \in Range(w) => y \in Range(s) \cup Range(u)
  <2>1. \A i \in DOMAIN w : w[i] \in Range(s) \cup Range(u)
    <3> TAKE i \in DOMAIN w
    <3>1. CASE i \in 1 .. Len(s)
      BY <1>2, <1>4, <3>1 DEF Range
    <3>2. CASE i \notin 1 .. Len(s)
      <4>1. PICK j \in 1 .. Len(u) : i = Len(s) + j
        BY <1>5, <3>2
      <4> QED BY <1>2, <1>4, <4>1 DEF Range
    <3> QED BY <3>1, <3>2
  <2> QED BY <2>1 DEF Range
<1>7. \A y : y \in Range(s) \cup Range(u) => y \in Range(w)
  BY <1>2, <1>4 DEF Range
<1>8. ASSUME IsInjective(s), IsInjective(u), Range(s) \cap Range(u) = {} PROVE IsInjective(w)
  <2> SUFFICES ASSUME NEW i \in DOMAIN w, NEW j \in DOMAIN w, w[i] = w[j] PROVE i = j
    BY DEF IsInjective
  <2>1. \A k \in 1 .. Len(s) : w[k] \in Range(s)
    BY <1>2, <1>4 DEF Range
  <2>2. \A k \in 1 .. Len(u) : w[Len(s) + k] \in Range(u)
    BY <1>2, <1>4 DEF Range
  <2>3. CASE i \in 1 .. Len(s) /\ j \in 1 .. Len(s)
    BY <1>2, <1>4, <1>8, <2>3 DEF IsInjective
  <2>4. CASE i \notin 1 .. Len(s) /\ j \notin 1 .. Len(s)
    <3>1. PICK k \in 1 .. Len(u) : i = Len(s) + k
      BY <1>5, <2>4
    <3>2. PICK l \in 1 .. Len(u) : j = Len(s) + l
      BY <1>5, <2>4
    <3>3. u[k] = u[l]
      BY <1>4, <3>1, <3>2
    <3>4. k = l
      BY <1>2, <1>8, <3>3 DEF IsInjective
    <3> QED BY <3>1, <3>2, <3>4
  <2>5. i \in 1 .. Len(s) <=> j \in 1 .. Len(s)
    BY <1>5, <1>8, <2>1, <2>2
  <2> QED BY <2>3, <2>4, <2>5
<1> QED BY <1>1, <1>2, <1>3, <1>4, <1>5, <1>6, <1>7, <1>8 DEF w

\* A packet is at one place of the queue.
PlaceIn(q, p) == CHOOSE i \in DOMAIN q : q[i] = p

LEMMA PlaceInFacts ==
    ASSUME NEW q \in Seq(Int), IsInjective(q), NEW i \in DOMAIN q
    PROVE  PlaceIn(q, q[i]) = i
<1>1. \E j \in DOMAIN q : q[j] = q[i]
  OBVIOUS
<1>2. PlaceIn(q, q[i]) \in DOMAIN q /\ q[PlaceIn(q, q[i])] = q[i]
  BY <1>1 DEF PlaceIn
<1> QED BY <1>2 DEF IsInjective

LEMMA PlaceInRange ==
    ASSUME NEW q \in Seq(Int), IsInjective(q), NEW p \in Range(q)
    PROVE  PlaceIn(q, p) \in 1 .. Len(q) /\ q[PlaceIn(q, p)] = p
<1>1. PICK i \in DOMAIN q : q[i] = p
  BY DEF Range
<1>2. PlaceIn(q, p) = i
  BY <1>1, PlaceInFacts
<1> QED BY <1>1, <1>2

\* The packets of a container that is queued.
LEMMA QueueGrows ==
    ASSUME Inv, NEW x \in Container, x \notin Out \cup Sending, Own(x) = Elems(x), cont[x].locked,
           outbound' = Append(outbound, x), queued' = queued \o Packets(x),
           UNCHANGED <<elem, cont, elemPool, packets, wire>>,
           \A c \in Container : Own(c)' = Own(c),
           Out' = Out \cup {x}, Sending' = Sending
    PROVE  PacketInv' /\ OrderInv'
<1> USE PartsOfInv
<1>a. cont[x].elems \in Seq(Elem)
  BY DEF PoolTypes, Box
<1>b. PICK es \in Seq(Elem) : es = cont[x].elems
  BY <1>a
<1>1. /\ Elems(x) = Range(es) /\ IsInjective(es) /\ Elems(x) \subseteq Elem
      /\ DOMAIN es = 1 .. Len(es) /\ Len(es) \in Nat
  BY <1>b DEF Elems, Range, ContainerInv
<1>2. /\ Elems(x) \cap elemPool.free = {}
      /\ \A c \in Container : c # x => Own(c) \cap Elems(x) = {}
      /\ \A c \in Container : Own(c) \cap elemPool.free = {} /\ Own(c) \subseteq Elem
  BY DEF ElementInv, Shares, Owned
<1>3. Packets(x) = [i \in DOMAIN es |-> elem[es[i]].packet]
  BY <1>b DEF Packets
<1>4. \A i \in DOMAIN es : es[i] \in Elem \ elemPool.free /\ es[i] \in Elems(x)
  BY <1>1, <1>2 DEF Range
<1>c. Packets(x) \in Seq(Int)
  <2>1. \A i \in 1 .. Len(es) : elem[es[i]].packet \in Int
    BY <1>1, <1>4 DEF PoolTypes, Element
  <2> QED BY <1>1, <1>3, <2>1
<1>d. PICK ps \in Seq(Int) : ps = Packets(x)
  BY <1>c
<1>5. /\ DOMAIN ps = 1 .. Len(es) /\ Len(ps) = Len(es)
      /\ \A i \in 1 .. Len(es) : ps[i] = elem[es[i]].packet
  <2>1. DOMAIN ps = 1 .. Len(es)
    BY <1>1, <1>3, <1>d
  <2>2. Len(ps) = Len(es)
    BY <1>1, <2>1
  <2> QED BY <1>1, <1>3, <1>d, <2>1, <2>2
<1>6. Range(ps) = {elem[e].packet : e \in Elems(x)}
  <2>1. \A y \in Range(ps) : \E e \in Elems(x) : y = elem[e].packet
    BY <1>1, <1>5, ZenonT(60) DEF Range
  <2>2. \A e \in Elems(x) : elem[e].packet \in Range(ps)
    BY <1>1, <1>5 DEF Range
  <2> QED BY <2>1, <2>2
<1>7. IsInjective(ps) /\ Range(queued) \cap Range(ps) = {}
  <2>1. IsInjective(ps)
    <3>1. \A e, f \in Elem \ elemPool.free : elem[e].packet = elem[f].packet => e = f
      BY DEF PacketInv
    <3>2. \A i, j \in DOMAIN es : es[i] = es[j] => i = j
      BY <1>1 DEF IsInjective
    <3>3. ASSUME NEW i \in DOMAIN ps, NEW j \in DOMAIN ps, ps[i] = ps[j] PROVE i = j
      <4>1. es[i] = es[j]
        <5>1. i \in 1 .. Len(es) /\ j \in 1 .. Len(es)
          BY <1>5
        <5>2. elem[es[i]].packet = elem[es[j]].packet
          BY <1>5, <3>3, <5>1
        <5>3. es[i] \in Elem \ elemPool.free /\ es[j] \in Elem \ elemPool.free
          BY <1>1, <1>4, <5>1
        <5> QED BY <3>1, <5>2, <5>3
      <4> QED BY <1>1, <1>5, <3>2, <4>1
    <3> QED BY <3>3 DEF IsInjective
  <2>2. \A e \in Elems(x) : elem[e].packet \notin Range(queued)
    BY DEF PacketInv
  <2> QED BY <1>6, <2>1, <2>2
<1>8. queued \in Seq(Int) /\ IsInjective(queued) /\ queued' = queued \o ps
  BY <1>d DEF PacketInv
<1>9. /\ queued' \in Seq(Int) /\ IsInjective(queued') /\ Range(queued') = Range(queued) \cup Range(ps)
      /\ DOMAIN queued' = 1 .. Len(queued) + Len(es)
      /\ \A i \in 1 .. Len(queued) : queued'[i] = queued[i]
      /\ \A i \in 1 .. Len(es) : queued'[Len(queued) + i] = ps[i]
      /\ Len(queued) \in Nat /\ DOMAIN queued = 1 .. Len(queued)
  <2>1. /\ queued \o ps \in Seq(Int) /\ IsInjective(queued \o ps)
        /\ Range(queued \o ps) = Range(queued) \cup Range(ps)
        /\ DOMAIN (queued \o ps) = 1 .. Len(queued) + Len(ps)
        /\ \A i \in 1 .. Len(queued) : (queued \o ps)[i] = queued[i]
        /\ \A i \in 1 .. Len(ps) : (queued \o ps)[Len(queued) + i] = ps[i]
        /\ Len(queued) \in Nat /\ DOMAIN queued = 1 .. Len(queued)
    BY <1>7, <1>8, ConcatFacts
  <2> QED BY <1>5, <1>8, <2>1
<1>10. \A c \in Out \cup Sending : c \in Container /\ c # x /\ Own(c) = Elems(c)
  <2>1. \A c \in Out \cup Sending : c \in Cooked /\ c \in Container /\ c # x
    BY RawCooked DEF Cooked
  <2>2. \A c \in Out \cup Sending : DrawnFor(c) = {}
    BY <2>1, NotDrawn
  <2> QED BY <2>1, <2>2, OwnFacts
<1>11. \A c : Elems(c)' = Elems(c)
  BY DEF Elems
<1>12. PacketInv'
  <2>1. Read' = Read /\ Range(ps) \subseteq Read
    <3>1. Read' = Read
      BY DEF Read
    <3>2. \A e \in Elems(x) : elem[e].packet \in Read
      BY <1>1, <1>2 DEF PacketInv
    <3> QED BY <1>6, <3>1, <3>2
  <2>2. \A c \in Out' \cup Sending' : \A e \in Elems(c)' : elem'[e].packet \in Range(queued')
    BY <1>6, <1>9, <1>11 DEF PacketInv
  <2>3. ASSUME NEW c \in Container \ (Out' \cup Sending'), NEW e \in Own(c)'
        PROVE  elem'[e].packet \notin Range(queued')
    <3>1. c # x /\ c \notin Out \cup Sending /\ e \in Own(c)
      BY <2>3
    <3>2. elem[e].packet \notin Range(queued)
      BY <3>1 DEF PacketInv
    <3>3. \A f \in Elems(x) : elem[f].packet # elem[e].packet
      <4> TAKE f \in Elems(x)
      <4>1. e # f /\ e \in Elem \ elemPool.free /\ f \in Elem \ elemPool.free
        BY <1>1, <1>2, <3>1
      <4> QED BY <4>1 DEF PacketInv
    <3> QED BY <1>6, <1>9, <3>2, <3>3
  <2>4. \A c \in Out' \cup Sending' : ~cont'[c].locked => \A e \in Elems(c)' : elem'[e].sealed
    BY <1>11 DEF PacketInv
  <2>5. /\ \A e \in Elem \ elemPool'.free : elem'[e].packet \in Read'
        /\ \A e, f \in Elem \ elemPool'.free : elem'[e].packet = elem'[f].packet => e = f
    BY <2>1 DEF PacketInv
  <2>6. Range(queued') \subseteq Read'
    BY <1>9, <2>1 DEF PacketInv
  <2> QED BY <1>9, <2>2, <2>3, <2>4, <2>5, <2>6 DEF PacketInv
<1>13. \A p : Position(p) = PlaceIn(queued, p) /\ Position(p)' = PlaceIn(queued', p)
  BY DEF Position, PlaceIn
<1>14. \A p \in Range(queued) : Position(p)' = Position(p) /\ Position(p) \in 1 .. Len(queued)
  <2> TAKE p \in Range(queued)
  <2>1. PlaceIn(queued, p) \in 1 .. Len(queued) /\ queued[PlaceIn(queued, p)] = p
    BY <1>8, PlaceInRange
  <2>2. queued'[PlaceIn(queued, p)] = p /\ PlaceIn(queued, p) \in DOMAIN queued'
    BY <1>1, <1>9, <2>1
  <2>3. PlaceIn(queued', queued'[PlaceIn(queued, p)]) = PlaceIn(queued, p)
    BY <1>9, <2>2, PlaceInFacts
  <2> QED BY <1>13, <2>1, <2>2, <2>3
<1>15. \A i \in 1 .. Len(es) : Pos(es[i])' = Len(queued) + i
  <2> TAKE i \in 1 .. Len(es)
  <2>1. Len(queued) + i \in DOMAIN queued' /\ queued'[Len(queued) + i] = elem[es[i]].packet
    BY <1>1, <1>5, <1>9, SMTT(40)
  <2>2. PlaceIn(queued', queued'[Len(queued) + i]) = Len(queued) + i
    BY <1>9, <2>1, PlaceInFacts
  <2> QED BY <1>13, <2>1, <2>2 DEF Pos
<1>16. \A e \in Elems(x) : \E i \in 1 .. Len(es) : e = es[i]
  BY <1>1 DEF Range
<1>17. \A c \in Out \cup Sending : \A e \in Elems(c) : Pos(e)' = Pos(e) /\ Pos(e) \in 1 .. Len(queued)
  BY <1>14 DEF Pos, PacketInv
<1>18. \A c \in Out \cup Sending : \A e \in Elems(c), f \in Elems(x) : Pos(e)' < Pos(f)'
  <2> TAKE c \in Out \cup Sending
  <2> TAKE e \in Elems(c), f \in Elems(x)
  <2>1. PICK i \in 1 .. Len(es) : f = es[i]
    BY <1>16
  <2>2. Pos(f)' = Len(queued) + i
    BY <1>15, <2>1
  <2> QED BY <1>9, <1>17, <2>2
<1>19. OrderInv'
  <2>1. \A c \in Out' \cup Sending' : InOrder(c)'
    <3> TAKE c \in Out' \cup Sending'
    <3>1. CASE c = x
      <4>1. cont'[c].elems = es /\ Elems(c)' = Elems(x)
        BY <1>b, <1>11, <3>1
      <4>2. ASSUME NEW i \in 1 .. Len(es), NEW j \in 1 .. Len(es), i < j
            PROVE  Pos(es[i])' < Pos(es[j])'
        BY <1>1, <1>9, <1>15, <4>2
      <4> QED BY <1>1, <4>1, <4>2 DEF InOrder
    <3>2. CASE c # x
      <4>1. c \in Out \cup Sending /\ c \in Container /\ InOrder(c)
        BY <1>10, <3>2 DEF OrderInv
      <4>2. \A e \in Elems(c) : Pos(e)' = Pos(e)
        BY <1>17, <4>1
      <4> QED BY <4>1, <4>2, InOrderKept
    <3> QED BY <3>1, <3>2
  <2>2. \A c, d \in Out \cup Sending : Before(c, d) => Before(c, d)'
    BY <1>11, <1>17 DEF Before
  <2>3. \A c \in Out \cup Sending : Before(c, x)'
    BY <1>11, <1>18 DEF Before
  <2>4. ASSUME NEW i \in DOMAIN outbound', NEW j \in DOMAIN outbound', NEW c \in Out', NEW d \in Out',
               i < j, outbound'[i] = c, outbound'[j] = d
        PROVE  Before(c, d)'
    <3>1. /\ DOMAIN outbound' = 1 .. Len(outbound) + 1 /\ outbound'[Len(outbound) + 1] = x
          /\ \A k \in DOMAIN outbound : outbound'[k] = outbound[k]
          /\ DOMAIN outbound = 1 .. Len(outbound) /\ Len(outbound) \in Nat
      BY AppendFacts DEF QueueTypes, Maybe
    <3>2. i \in DOMAIN outbound /\ outbound[i] = c
      BY <2>4, <3>1
    <3>3. c \in Out
      BY <3>2, RawCooked, Facts, <2>4 DEF Out, Range
    <3>4. CASE j \in DOMAIN outbound
      <4>1. outbound[j] = d
        BY <2>4, <3>1, <3>4
      <4>2. d \in Out
        BY <3>4, <4>1, <2>4, RawCooked, Facts DEF Out, Range
      <4>3. Before(c, d)
        BY <2>4, <3>2, <3>3, <3>4, <4>1, <4>2 DEF OrderInv
      <4> QED BY <2>2, <3>3, <4>2, <4>3
    <3>5. CASE j \notin DOMAIN outbound
      <4>1. j = Len(outbound) + 1
        BY <3>1, <3>5
      <4> QED BY <2>3, <2>4, <3>1, <3>3, <4>1
    <3> QED BY <3>4, <3>5
  <2>5. \A c \in Sending', d \in Out' : Before(c, d)'
    BY <2>2, <2>3 DEF OrderInv
  <2>6. \A i \in DOMAIN wire : /\ wire[i].packet \in Range(queued)
                               /\ Position(wire[i].packet)' = Position(wire[i].packet)
                               /\ Position(wire[i].packet) \in 1 .. Len(queued)
    BY <1>14 DEF OrderInv
  <2>7. \A c \in Out' \cup Sending' : SentBefore(c)'
    <3> TAKE c \in Out' \cup Sending'
    <3>1. CASE c = x
      <4> SUFFICES ASSUME NEW i \in DOMAIN wire, NEW e \in Elems(x)
                   PROVE  Position(wire[i].packet)' < Pos(e)'
        BY <1>11, <3>1 DEF SentBefore
      <4>1. PICK j \in 1 .. Len(es) : e = es[j]
        BY <1>16
      <4>2. Pos(e)' = Len(queued) + j
        BY <1>15, <4>1
      <4> QED BY <1>9, <2>6, <4>2
    <3>2. CASE c # x
      <4>1. c \in Out \cup Sending /\ SentBefore(c)
        BY <3>2 DEF OrderInv
      <4> QED BY <1>11, <1>17, <2>6, <4>1 DEF SentBefore
    <3> QED BY <3>1, <3>2
  <2>8. SentAsQueued'
    BY <2>6 DEF OrderInv, SentAsQueued
  <2>9. /\ wire' \in Seq(Sent)
        /\ \A i \in DOMAIN wire' : wire'[i].packet \in Range(queued')
    BY <1>9, <2>6 DEF OrderInv
  <2> QED BY <2>1, <2>4, <2>5, <2>7, <2>8, <2>9 DEF OrderInv
<1> QED BY <1>12, <1>19

\* A goroutine that only goes on.
LEMMA GotoFacts ==
    ASSUME QueueTypes, NEW t \in Thread, NEW pc \in Pc, Goto(t, pc)
    PROVE  /\ thread' \in [Thread -> Local] /\ thread'[t].pc = pc
           /\ thread'[t].c = thread[t].c /\ thread'[t].ooo = thread[t].ooo
           /\ thread'[t].key = thread[t].key /\ thread'[t].i = thread[t].i
           /\ thread'[t].kept = thread[t].kept
           /\ \A u \in Thread : u # t => thread'[u] = thread[u]
           /\ thread' = [thread EXCEPT ![t] = [thread[t] EXCEPT !.pc = pc]]
<1> DEFINE r == [thread[t] EXCEPT !.pc = pc]
<1>1. thread[t] \in Local
  BY DEF QueueTypes
<1>2. thread' = [thread EXCEPT ![t] = r]
  BY DEF Goto
<1>3. /\ r \in Local /\ r.pc = pc /\ r.c = thread[t].c /\ r.ooo = thread[t].ooo
      /\ r.key = thread[t].key /\ r.i = thread[t].i /\ r.kept = thread[t].kept
  BY <1>1, LocalPc
<1> HIDE DEF r
<1>4. /\ thread' \in [Thread -> Local] /\ thread'[t] = r
      /\ \A u \in Thread : u # t => thread'[u] = thread[u]
  BY <1>2, <1>3, ThreadExcept
<1> QED BY <1>2, <1>3, <1>4 DEF r

\* PushOutbound.
LEMMA PushedToSender ==
    ASSUME Inv, NEW t \in Thread, PushOutbound(t)
    PROVE  Inv'
<1> USE PartsOfInv
<1>a. thread[t].pc = "outbound" /\ thread[t].c \in Container /\ thread[t].c \in Hand(thread[t])
  <2>1. thread[t].pc = "outbound"
    BY DEF PushOutbound, At
  <2> QED BY <2>1, HandFacts DEF Done
<1>b. PICK x \in Container : x = thread[t].c
  BY <1>a
<1> DEFINE es == cont[x].elems
           ps == Packets(x)
<1>1. /\ outbound' = Append(outbound, x) /\ queued' = queued \o ps /\ Goto(t, "encryption")
      /\ UNCHANGED <<elem, cont, elemPool, contPool, staged, encryption, sender, keys, sendNonce, control,
                     packets, sealed, wire>>
  BY <1>b DEF PushOutbound, pools, peerState
<1>2. /\ thread' \in [Thread -> Local] /\ thread'[t].pc = "encryption"
      /\ thread'[t].c = x /\ thread'[t].ooo = thread[t].ooo /\ thread'[t].key = thread[t].key
      /\ \A u \in Thread : u # t => thread'[u] = thread[u]
  <2>1. "encryption" \in Pc
    BY DEF Pc
  <2> QED BY <1>b, <1>1, <2>1, GotoFacts
<1>3. LocalOK(thread'[t])
  <2>1. LocalOK(thread[t])
    BY DEF ThreadInv
  <2> QED BY <1>a, <1>b, <1>2, <2>1 DEF LocalOK, Drawing
<1>4. Hands[t] = {x} /\ Hands'[t] = {} /\ \A u \in Thread : u # t => Hands'[u] = Hands[u]
  <2>1. Hand(thread[t]) = {x} /\ Hand(thread'[t]) = {}
    BY <1>a, <1>b, <1>2, Facts DEF Hand
  <2> QED BY <1>2, <2>1, HandsOf
<1>5. x \notin contPool.free \cup Staged \cup Out \cup Sending /\ x # Nil /\ x \notin Range(outbound)
      /\ \A u \in Thread : u # t => x \notin Hand(thread[u])
  <2>1. x \notin contPool.free \cup Staged \cup Out \cup Sending
        /\ \A u \in Thread : u # t => x \notin Hand(thread[u])
    BY <1>a, <1>b, HandFacts
  <2> QED BY <2>1, Facts DEF Out
<1>6. /\ outbound' \in Seq(Maybe) /\ IsInjective(outbound') /\ Range(outbound') = Range(outbound) \cup {x}
      /\ DOMAIN outbound' = 1 .. Len(outbound) + 1 /\ outbound'[Len(outbound) + 1] = x
      /\ \A i \in DOMAIN outbound : outbound'[i] = outbound[i]
      /\ DOMAIN outbound = 1 .. Len(outbound) /\ Len(outbound) \in Nat
  BY <1>1, <1>5, AppendFacts DEF QueueTypes, PlaceInv, Maybe
<1>7. Out' = Out \cup {x} /\ Sending' = Sending /\ Staged' = Staged
  BY <1>1, <1>5, <1>6 DEF Out, Sending, Staged
<1>8. PlaceInv'
  <2>1. Places(contPool.free, Staged, Out, Sending, Hands)
    BY DEF PlaceInv
  <2>2. Places(contPool'.free, Staged', Out', Sending', Hands')
    BY <1>1, <1>4, <1>7, <2>1, SMTT(40) DEF Places
  <2> QED BY <1>1, <1>6, <2>2 DEF PlaceInv
<1>9. x \in Cooked /\ DrawnFor(x) = {} /\ Own(x) = Elems(x)
  BY <1>a, <1>b, NotDrawn, OwnFacts DEF Cooked, Done
<1>10. \A u \in Thread : thread'[u].pc \in Fresh \cup Drawing \cup Done => thread'[u] = thread[u]
  BY <1>2 DEF Fresh, Drawing, Done
<1>11. BusyKept
  BY <1>a, <1>2, <1>10 DEF BusyKept, Busy, Drawing
<1>12. Raw' \subseteq Raw /\ Cooked' \subseteq Cooked
  <2>1. "restage" \in Done
    BY DEF Done
  <2> QED BY <1>7, <1>9, <1>10, <2>1 DEF Raw, Cooked
<1>13. \A u \in Thread : LocalOK(thread'[u])
  BY <1>2, <1>3 DEF ThreadInv
<1>14. (\A c \in Container : Own(c)' = Own(c)) /\ ThreadInv' /\ KeyInv' /\ CounterInv'
  BY <1>1, <1>11, <1>12, <1>13, MoveBusy DEF CountersKept
<1>15. PoolTypes' /\ ContainerInv' /\ ElementInv' /\ NonceInv'
  BY <1>1, <1>12, <1>14, MoveParts DEF CountersKept
<1>16. cont[x].locked
  BY <1>a, <1>b DEF LockInv, Done
<1>17. LockInv'
  <2>1. \A c \in Range(encryption') : cont'[c].locked /\ c \in Out' \cup Sending'
    BY <1>1, <1>7 DEF LockInv
  <2>2. \A u \in Thread : thread'[u].pc \in Done \cup {"encryption"} => cont'[thread'[u].c].locked
    BY <1>1, <1>2, <1>16 DEF LockInv
  <2>3. x \notin Range(encryption)
    BY <1>5 DEF LockInv
  <2>4. \A u \in Thread : thread'[u].pc = "encryption" =>
          thread'[u].c \in Out' \cup Sending' /\ thread'[u].c \notin Range(encryption')
    BY <1>1, <1>2, <1>7, <2>3 DEF LockInv
  <2>5. \A u \in Thread : u # t /\ thread'[u].pc = "encryption" => thread'[u].c # x
    BY <1>2, <1>5 DEF LockInv
  <2>6. \A u, v \in Thread : thread'[u].pc = "encryption" /\ thread'[v].pc = "encryption"
          /\ thread'[u].c = thread'[v].c => u = v
    BY <1>2, <2>5 DEF LockInv
  <2> QED BY <2>1, <2>2, <2>4, <2>6 DEF LockInv
<1>18. SenderInv'
  BY <1>1, <1>5, <1>6 DEF SenderInv
<1>19. QueueTypes' /\ PeerTypes'
  BY <1>1, <1>2, <1>6, PeerTypesKept DEF QueueTypes
<1>20. PacketInv' /\ OrderInv'
  BY <1>1, <1>5, <1>6, <1>7, <1>9, <1>14, <1>16, QueueGrows
<1> QED BY <1>8, <1>14, <1>15, <1>17, <1>18, <1>19, <1>20, InvFromParts

-----------------------------------------------------------------------------
(* The queue and the sender give containers back *)

LEMMA PutQueuedStep ==
    ASSUME Inv, NEW c \in Container, ~cont[c].locked, PutAll(c),
           UNCHANGED <<staged, encryption, thread, keys, sendNonce, control, packets, sealed, queued>>,
           \/ c = sender.c /\ sender' = [pc |-> "idle", c |-> Nil] /\ outbound' = outbound
           \/ outbound # <<>> /\ c = Head(outbound) /\ outbound' = Tail(outbound) /\ sender' = sender
    PROVE  /\ PoolInv' /\ NonceInv' /\ KeyInv' /\ CounterInv' /\ PacketInv'
           /\ c \in Out \cup Sending /\ Out' \cup Sending' = (Out \cup Sending) \ {c} /\ Sending' \subseteq Sending
           /\ \A d \in Container : d # c => \A e \in Own(d) : elem'[e] = elem[e]
<1> USE PartsOfInv
<1>1. c # Nil
  BY Facts
<1>2. /\ outbound' \in Seq(Maybe) /\ IsInjective(outbound') /\ Range(outbound') \subseteq Range(outbound)
      /\ sender' \in [pc : {"idle", "send", "return", "off"}, c : Maybe]
      /\ \/ c = sender.c /\ sender' = [pc |-> "idle", c |-> Nil] /\ Range(outbound') = Range(outbound)
         \/ c \in Range(outbound) /\ Range(outbound') = Range(outbound) \ {c} /\ sender' = sender
  <2>1. CASE c = sender.c /\ sender' = [pc |-> "idle", c |-> Nil] /\ outbound' = outbound
    BY <2>1 DEF QueueTypes, PlaceInv, Maybe
  <2>2. CASE outbound # <<>> /\ c = Head(outbound) /\ outbound' = Tail(outbound) /\ sender' = sender
    <3>1. /\ Head(outbound) \in Range(outbound) /\ Tail(outbound) \in Seq(Maybe)
          /\ Range(Tail(outbound)) = Range(outbound) \ {Head(outbound)}
          /\ IsInjective(Tail(outbound))
      BY <2>2, TailFacts DEF QueueTypes, PlaceInv
    <3> QED BY <2>2, <3>1 DEF QueueTypes
  <2> QED BY <2>1, <2>2
<1>3. Places(contPool.free, Staged, Out, Sending, Hands)
  BY DEF PlaceInv
<1>4. c \in Out \cup Sending /\ Out' \cup Sending' = (Out \cup Sending) \ {c}
      /\ Out' \subseteq Out /\ Sending' \subseteq Sending
  <2>1. Out \cap Sending = {}
    BY <1>3 DEF Places
  <2>2. CASE c = sender.c /\ sender' = [pc |-> "idle", c |-> Nil] /\ Range(outbound') = Range(outbound)
    <3>1. Sending = {c} /\ Sending' = {} /\ Out' = Out
      BY <1>1, <2>2 DEF Out, Sending
    <3> QED BY <2>1, <3>1
  <2>3. CASE c \in Range(outbound) /\ Range(outbound') = Range(outbound) \ {c} /\ sender' = sender
    <3>1. c \in Out /\ Out' = Out \ {c} /\ Sending' = Sending
      BY <1>1, <2>3 DEF Out, Sending
    <3> QED BY <2>1, <3>1
  <2> QED BY <1>2, <2>2, <2>3
<1>5. c \notin contPool.free \cup Staged /\ \A t \in Thread : c \notin Hand(thread[t])
  BY <1>3, <1>4, HandsOf DEF Places
<1>6. DrawnFor(c) = {}
  BY <1>4, NotDrawn DEF Cooked
<1>7. contPool'.free = contPool.free \cup {c} /\ PoolTypes'
  BY PutFacts
<1>8. Staged' = Staged /\ Hands' = Hands
  BY DEF Staged, Hands
<1>9. PutKeeps(c)
  <2>1. BusyKept
    BY DEF BusyKept
  <2>2. \A t \in Thread : thread[t].pc \in Done \cup {"encryption"} => thread[t].c # c
    BY DEF LockInv
  <2>3. c \notin Range(encryption)
    BY DEF LockInv
  <2>4. \A t \in Thread : /\ thread[t].pc \in Fresh => thread[t].c # c
                          /\ thread[t].pc \in Drawing \cup {"restage"} => thread[t].ooo # c \/ thread[t].ooo = Nil
    BY <1>5, HandFacts
  <2>5. Raw' \subseteq Raw \ {c}
    <3>1. Raw' = Raw
      BY <1>8 DEF Raw
    <3>2. c \notin Raw
      BY <1>1, <1>5, <2>4 DEF Raw
    <3> QED BY <3>1, <3>2
  <2>6. Cooked' \subseteq Cooked \ {c}
    <3>1. Cooked' \subseteq Cooked
      BY <1>4 DEF Cooked
    <3>2. c \notin Cooked'
      BY <1>4, <2>2 DEF Cooked
    <3> QED BY <3>1, <3>2
  <2>7. thread' \in [Thread -> Local] /\ \A t \in Thread : LocalOK(thread'[t])
    BY DEF QueueTypes, ThreadInv
  <2> QED BY <1>4, <2>1, <2>2, <2>3, <2>5, <2>6, <2>7 DEF PutKeeps
<1>10. ThreadInv' /\ ContainerInv' /\ LockInv'
  BY <1>5, <1>6, <1>9, PutThreads
<1>11. ElementInv' /\ contPool'.count = Cardinality(Container \ contPool'.free)
       /\ \A d \in Container : d # c => \A e \in Own(d) : elem'[e] = elem[e]
  BY <1>5, <1>6, <1>9, PutElements DEF PutKeeps
<1>12. NonceInv' /\ KeyInv' /\ CounterInv' /\ PacketInv'
  BY <1>5, <1>6, <1>9, PutNonces
<1>13. PlaceInv'
  <2>1. Places(contPool'.free, Staged', Out', Sending', Hands')
    <3>1. /\ Out' \subseteq Out \ {c} /\ Sending' \subseteq Sending \ {c}
          /\ \A d : d \in Out \cup Sending => d = c \/ d \in Out' \cup Sending'
          /\ c \in Out \cup Sending
      BY <1>4
    <3>2. \A t \in Thread : c \notin Hands[t]
      BY <1>5, HandsOf
    <3> DEFINE new == contPool'.free
    <3>3. new = contPool.free \cup {c}
      BY <1>7
    <3> HIDE DEF new
    <3>4. Places(new, Staged, Out', Sending', Hands)
      BY <1>3, <1>5, <3>1, <3>2, <3>3 DEF Places
    <3> QED BY <1>8, <3>4 DEF new
  <2> QED BY <1>2, <1>11, <2>1 DEF PlaceInv
<1>14. SenderInv'
  <2>1. CASE c = sender.c /\ sender' = [pc |-> "idle", c |-> Nil] /\ Range(outbound') = Range(outbound)
    BY <1>1, <2>1 DEF SenderInv
  <2>2. CASE c \in Range(outbound) /\ Range(outbound') = Range(outbound) \ {c} /\ sender' = sender
    BY <2>2 DEF SenderInv
  <2> QED BY <1>2, <2>1, <2>2
<1>15. QueueTypes' /\ PeerTypes'
  BY <1>2, PeerTypesKept DEF QueueTypes
<1>16. PoolInv'
  BY <1>7, <1>10, <1>11, <1>13, <1>14, <1>15 DEF PoolInv
<1> QED BY <1>4, <1>11, <1>12, <1>16

\* FlushOne, by Start or by the finalizer.
LEMMA Flushed ==
    ASSUME Inv, FlushOne,
           UNCHANGED <<staged, encryption, thread, sender, keys, sendNonce, control, history>>,
           Head(outbound) \in Container
    PROVE  Inv'
<1>1. PICK c \in Container : c = Head(outbound)
  OBVIOUS
<1>2. /\ ~cont[c].locked /\ PutAll(c) /\ outbound # <<>> /\ outbound' = Tail(outbound)
      /\ UNCHANGED <<packets, sealed, queued, wire>>
  BY <1>1 DEF FlushOne, Unlocked, history
<1>3. /\ PoolInv' /\ NonceInv' /\ KeyInv' /\ CounterInv' /\ PacketInv'
      /\ Out' \cup Sending' = (Out \cup Sending) \ {c} /\ Sending' \subseteq Sending
      /\ \A d \in Container : d # c => \A e \in Own(d) : elem'[e] = elem[e]
  BY <1>1, <1>2, PutQueuedStep
<1>4. OrderInv'
  BY <1>2, <1>3, PutOrder
<1> QED BY <1>3, <1>4 DEF Inv

\* SenderReturns.
LEMMA Returned ==
    ASSUME Inv, SenderReturns
    PROVE  Inv'
<1>1. sender.c \in Container
  BY PartsOfInv DEF SenderReturns, QueueTypes, SenderInv, Maybe
<1>2. PICK c \in Container : c = sender.c
  BY <1>1
<1>3. /\ ~cont[c].locked /\ PutAll(c) /\ sender' = [pc |-> "idle", c |-> Nil] /\ outbound' = outbound
      /\ UNCHANGED <<staged, encryption, thread, keys, sendNonce, control, packets, sealed, queued, wire>>
  BY <1>2 DEF SenderReturns, Unlocked, peerState, history
<1>4. /\ PoolInv' /\ NonceInv' /\ KeyInv' /\ CounterInv' /\ PacketInv'
      /\ Out' \cup Sending' = (Out \cup Sending) \ {c} /\ Sending' \subseteq Sending
      /\ \A d \in Container : d # c => \A e \in Own(d) : elem'[e] = elem[e]
  BY <1>2, <1>3, PutQueuedStep
<1>5. OrderInv'
  BY <1>3, <1>4, PutOrder
<1> QED BY <1>4, <1>5 DEF Inv

\* The messages of a container.
LEMMA MessagesFacts ==
    ASSUME PoolTypes, NEW c \in Container
    PROVE  /\ Messages(c) \in Seq(Sent)
           /\ DOMAIN Messages(c) = 1 .. Len(cont[c].elems)
           /\ \A i \in 1 .. Len(cont[c].elems) :
                /\ Messages(c)[i].packet = elem[cont[c].elems[i]].packet
                /\ Messages(c)[i].sealed = elem[cont[c].elems[i]].sealed
<1> DEFINE m(i) == [packet |-> elem[cont[c].elems[i]].packet, sealed |-> elem[cont[c].elems[i]].sealed]
<1>1. Messages(c) = [i \in DOMAIN cont[c].elems |-> m(i)]
  BY DEF Messages
<1>2. cont[c].elems \in Seq(Elem)
  BY DEF PoolTypes, Box
<1>3. DOMAIN cont[c].elems = 1 .. Len(cont[c].elems) /\ Len(cont[c].elems) \in Nat
      /\ \A i \in 1 .. Len(cont[c].elems) : cont[c].elems[i] \in Elem
  BY <1>2
<1>4. \A i \in 1 .. Len(cont[c].elems) :
        /\ m(i) \in Sent
        /\ m(i).packet = elem[cont[c].elems[i]].packet /\ m(i).sealed = elem[cont[c].elems[i]].sealed
  BY <1>3 DEF PoolTypes, Element, Sent
<1> HIDE DEF m
<1>5. Messages(c) \in [1 .. Len(cont[c].elems) -> Sent]
  BY <1>1, <1>3, <1>4
<1>6. Messages(c) \in Seq(Sent)
  BY <1>3, <1>5
<1> QED BY <1>1, <1>3, <1>4, <1>6

\* SenderSends: what the container holds follows what was sent before.
LEMMA WireGrows ==
    ASSUME Inv, NEW c \in Sending, ~cont[c].locked, PutAll(c), UNCHANGED queued,
           wire' = wire \o Messages(c),
           outbound' = outbound, Sending' = {},
           \A d \in Container : d # c => \A e \in Own(d) : elem'[e] = elem[e]
    PROVE  OrderInv'
<1> USE PartsOfInv
<1>a. c \in Container /\ cont[c].elems \in Seq(Elem)
  BY RawCooked DEF PoolTypes, Box
<1>b. PICK es \in Seq(Elem) : es = cont[c].elems
  BY <1>a
<1>1. /\ Elems(c) = Range(es) /\ DOMAIN es = 1 .. Len(es) /\ Len(es) \in Nat
      /\ \A i \in 1 .. Len(es) : es[i] \in Elem /\ es[i] \in Elems(c)
  BY <1>b DEF Elems, Range
<1>2. /\ Messages(c) \in Seq(Sent)
      /\ DOMAIN Messages(c) = 1 .. Len(es)
      /\ \A i \in 1 .. Len(es) : /\ Messages(c)[i].packet = elem[es[i]].packet
                                 /\ Messages(c)[i].sealed = elem[es[i]].sealed
  <2>1. /\ Messages(c) \in Seq(Sent)
        /\ DOMAIN Messages(c) = 1 .. Len(cont[c].elems)
        /\ \A i \in 1 .. Len(cont[c].elems) :
             /\ Messages(c)[i].packet = elem[cont[c].elems[i]].packet
             /\ Messages(c)[i].sealed = elem[cont[c].elems[i]].sealed
    BY <1>a, MessagesFacts
  <2> QED BY <1>b, <2>1
<1>c. PICK w \in Seq(Sent) : w = Messages(c)
  BY <1>2
<1>3. /\ DOMAIN w = 1 .. Len(es) /\ Len(w) = Len(es)
      /\ \A i \in 1 .. Len(es) : w[i].packet = elem[es[i]].packet /\ w[i].sealed = elem[es[i]].sealed
  <2>1. DOMAIN w = 1 .. Len(es)
    BY <1>2, <1>c
  <2>2. Len(w) = Len(es)
    BY <1>1, <2>1
  <2> QED BY <1>2, <1>c, <2>1, <2>2
<1>4. wire' = wire \o w /\ wire \in Seq(Sent)
  BY <1>c DEF OrderInv
<1>5. /\ wire' \in Seq(Sent) /\ Len(wire) \in Nat /\ DOMAIN wire = 1 .. Len(wire)
      /\ \A i \in 1 .. Len(wire) : wire'[i] = wire[i]
      /\ \A i \in 1 .. Len(es) : wire'[Len(wire) + i] = w[i]
      /\ \A i \in DOMAIN wire' : i \in 1 .. Len(wire) \/ \E j \in 1 .. Len(es) : i = Len(wire) + j
  <2>1. /\ wire \o w \in Seq(Sent) /\ Len(wire) \in Nat /\ DOMAIN wire = 1 .. Len(wire)
        /\ \A i \in 1 .. Len(wire) : (wire \o w)[i] = wire[i]
        /\ \A i \in 1 .. Len(w) : (wire \o w)[Len(wire) + i] = w[i]
        /\ \A i \in DOMAIN (wire \o w) : i \in 1 .. Len(wire) \/ \E j \in 1 .. Len(w) : i = Len(wire) + j
    BY <1>3, <1>4, ConcatFacts
  <2> QED BY <1>3, <1>4, <2>1
<1>6. \A p : Position(p)' = Position(p)
  BY DEF Position
<1>7. \A j \in 1 .. Len(es) : /\ wire'[Len(wire) + j].sealed
                              /\ wire'[Len(wire) + j].packet \in Range(queued)
                              /\ Position(wire'[Len(wire) + j].packet) = Pos(es[j])
  <2>1. \A e \in Elems(c) : elem[e].packet \in Range(queued) /\ elem[e].sealed
    BY DEF PacketInv
  <2> TAKE j \in 1 .. Len(es)
  <2>2. wire'[Len(wire) + j] = w[j] /\ w[j].packet = elem[es[j]].packet /\ w[j].sealed = elem[es[j]].sealed
    BY <1>3, <1>5
  <2>3. es[j] \in Elems(c) /\ Pos(es[j]) = Position(elem[es[j]].packet)
    BY <1>1 DEF Pos
  <2> QED BY <2>1, <2>2, <2>3
<1>8. /\ InOrder(c) /\ SentBefore(c) /\ SentAsQueued /\ \A d \in Out : Before(c, d) /\ SentBefore(d) /\ InOrder(d)
      /\ \A i \in DOMAIN wire : wire[i].packet \in Range(queued)
  BY DEF OrderInv
<1>9. Out' = Out
  BY DEF Out
<1>10. \A d \in Out : d \in Container /\ d # c /\ cont'[d] = cont[d] /\ Elems(d)' = Elems(d)
         /\ \A e \in Elems(d) : Pos(e)' = Pos(e)
  <2> TAKE d \in Out
  <2>1. d \in Container /\ d # c
    BY RawCooked DEF PlaceInv, Places
  <2>2. cont'[d] = cont[d] /\ Elems(d)' = Elems(d)
    BY <1>a, <2>1, PutFacts DEF Elems
  <2>3. DrawnFor(d) = {}
    BY NotDrawn DEF Cooked
  <2>4. Own(d) = Elems(d)
    BY <2>3, OwnFacts
  <2>5. \A e \in Elems(d) : elem'[e] = elem[e]
    BY <2>1, <2>4
  <2>6. \A e \in Elems(d) : Pos(e)' = Pos(e)
    BY <2>5 DEF Pos, Position
  <2> QED BY <2>1, <2>2, <2>6
<1>11. \A d \in Out' \cup Sending' : InOrder(d)'
  BY <1>8, <1>9, <1>10, InOrderKept
<1>12. \A d \in Out : SentBefore(d)'
  <2> TAKE d \in Out
  <2> SUFFICES ASSUME NEW i \in DOMAIN wire', NEW e \in Elems(d) PROVE Position(wire'[i].packet) < Pos(e)
    BY <1>6, <1>10 DEF SentBefore
  <2>1. CASE i \in 1 .. Len(wire)
    BY <1>5, <1>8, <2>1 DEF SentBefore
  <2>2. CASE i \notin 1 .. Len(wire)
    <3>1. PICK j \in 1 .. Len(es) : i = Len(wire) + j
      BY <1>5, <2>2
    <3>2. Pos(es[j]) < Pos(e)
      BY <1>1, <1>8 DEF Before
    <3> QED BY <1>7, <3>1, <3>2
  <2> QED BY <2>1, <2>2
<1>13. SentAsQueued'
  <2>1. \A i \in DOMAIN wire' : wire'[i].sealed
    BY <1>5, <1>7, <1>8 DEF SentAsQueued
  <2>2. ASSUME NEW i \in DOMAIN wire', NEW j \in DOMAIN wire', i < j
        PROVE  Position(wire'[i].packet) < Position(wire'[j].packet)
    <3>1. CASE i \in 1 .. Len(wire) /\ j \in 1 .. Len(wire)
      BY <1>5, <1>8, <2>2, <3>1 DEF SentAsQueued
    <3>2. CASE i \in 1 .. Len(wire) /\ j \notin 1 .. Len(wire)
      <4>1. PICK k \in 1 .. Len(es) : j = Len(wire) + k
        BY <1>5, <3>2
      <4>2. Position(wire[i].packet) < Pos(es[k])
        BY <1>1, <1>5, <1>8, <3>2 DEF SentBefore
      <4> QED BY <1>5, <1>7, <3>2, <4>1, <4>2
    <3>3. CASE i \notin 1 .. Len(wire)
      <4>1. PICK l \in 1 .. Len(es) : i = Len(wire) + l
        BY <1>5, <3>3
      <4>2. j \notin 1 .. Len(wire)
        BY <1>5, <2>2, <4>1
      <4>3. PICK k \in 1 .. Len(es) : j = Len(wire) + k
        BY <1>5, <4>2
      <4>4. l < k
        BY <1>1, <1>5, <2>2, <4>1, <4>3
      <4>5. Pos(es[l]) < Pos(es[k])
        BY <1>b, <1>1, <1>8, <4>4 DEF InOrder
      <4> QED BY <1>7, <4>1, <4>3, <4>5
    <3> QED BY <3>1, <3>2, <3>3
  <2> QED BY <1>6, <2>1, <2>2 DEF SentAsQueued
<1>14. \A i \in DOMAIN wire' : wire'[i].packet \in Range(queued')
  BY <1>5, <1>7, <1>8
<1>15. \A i, j \in DOMAIN outbound' : \A d, f \in Out' :
         i < j /\ outbound'[i] = d /\ outbound'[j] = f => Before(d, f)'
  <2>1. \A d, f \in Out : Before(d, f) => Before(d, f)'
    BY <1>10 DEF Before
  <2> QED BY <1>9, <2>1 DEF OrderInv
<1> QED BY <1>5, <1>9, <1>11, <1>12, <1>13, <1>14, <1>15 DEF OrderInv

LEMMA SentOne ==
    ASSUME Inv, SenderSends
    PROVE  Inv'
<1>1. sender.c \in Container
  BY PartsOfInv DEF SenderSends, QueueTypes, SenderInv, Maybe
<1>2. PICK c \in Container : c = sender.c
  BY <1>1
<1>3. /\ ~cont[c].locked /\ PutAll(c) /\ sender' = [pc |-> "idle", c |-> Nil] /\ outbound' = outbound
      /\ UNCHANGED <<staged, encryption, thread, keys, sendNonce, control, packets, sealed, queued>>
      /\ wire' = wire \o Messages(c)
  BY <1>2 DEF SenderSends, Unlocked, peerState
<1>4. /\ PoolInv' /\ NonceInv' /\ KeyInv' /\ CounterInv' /\ PacketInv'
      /\ \A d \in Container : d # c => \A e \in Own(d) : elem'[e] = elem[e]
  BY <1>2, <1>3, PutQueuedStep
<1>5. c \in Sending /\ Sending' = {}
  BY <1>2, <1>3, Facts DEF Sending
<1>6. OrderInv'
  BY <1>3, <1>4, <1>5, WireGrows
<1> QED BY <1>4, <1>6 DEF Inv

-----------------------------------------------------------------------------
(* A new container *)

\* There are as many new elements as a read may need.
LEMMA NewElemsFacts ==
    ASSUME PoolTypes, PeerTypes, ElementInv, NEW n \in Nat,
           packets.read + packets.keepalives + n <= MaxPackets + MaxKeepalives
    PROVE  /\ NewElems(n) \in [1 .. n -> elemPool.free] /\ IsInjective(NewElems(n))
           /\ NewElems(n) \in Seq(Elem) /\ DOMAIN NewElems(n) = 1 .. n
           /\ Range(NewElems(n)) \subseteq elemPool.free
           /\ Cardinality(Range(NewElems(n))) \in Nat /\ Cardinality(Range(NewElems(n))) <= n
<1> DEFINE free == elemPool.free
<1>1. free \in SUBSET Elem /\ IsFiniteSet(free) /\ Cardinality(free) \in Nat
  BY NameFacts, FS_Subset, FS_CardinalityType DEF PoolTypes
<1>2. Cardinality(Elem \ free) = Cardinality(Elem) - Cardinality(free)
  <2>1. Cardinality(Elem \ free) = Cardinality(Elem) - Cardinality(Elem \cap free)
    BY NameFacts, FS_Difference
  <2>2. Elem \cap free = free
    BY <1>1
  <2> QED BY <2>1, <2>2
<1>3. Cardinality(free) >= n
  <2>1. elemPool.count = Cardinality(Elem \ free) /\ elemPool.count <= packets.read + packets.keepalives
        /\ elemPool.count \in Int
    BY DEF ElementInv, PoolTypes
  <2>2. packets.read \in Nat /\ packets.keepalives \in Nat
    BY DEF PeerTypes
  <2> QED BY <1>1, <1>2, <2>1, <2>2, NameFacts, Facts
<1> HIDE DEF free
<1>4. \E es \in [1 .. n -> free] : IsInjective(es)
  <2>1. PICK m \in Nat : ExistsBijection(1 .. m, free)
    BY <1>1, FS_NatBijection
  <2>2. m = Cardinality(free)
    BY <2>1, FS_CountingElements
  <2>3. PICK f : f \in Bijection(1 .. m, free)
    BY <2>1 DEF ExistsBijection
  <2>4. f \in [1 .. m -> free] /\ IsInjective(f)
    BY <2>3 DEF Bijection, Injection
  <2> DEFINE es == [i \in 1 .. n |-> f[i]]
  <2>5. \A i \in 1 .. n : i \in 1 .. m
    BY <1>3, <2>2
  <2>6. es \in [1 .. n -> free]
    BY <2>4, <2>5
  <2>7. IsInjective(es)
    BY <2>4, <2>5 DEF IsInjective
  <2> QED BY <2>6, <2>7
<1>5. NewElems(n) \in [1 .. n -> free] /\ IsInjective(NewElems(n))
  BY <1>4 DEF NewElems, free
<1> DEFINE es == NewElems(n)
<1> HIDE DEF es
<1>6. es \in [1 .. n -> free] /\ IsInjective(es) /\ DOMAIN es = 1 .. n
  BY <1>5 DEF es
<1>7. es \in Seq(Elem)
  BY <1>1, <1>6
<1>8. Range(es) \subseteq free
  BY <1>6 DEF Range
<1>9. Cardinality(Range(es)) \in Nat /\ Cardinality(Range(es)) <= n
  <2>1. n \in Int /\ IsFiniteSet(1 .. n) /\ Cardinality(1 .. n) = n
    <3>1. n \in Int /\ 1 \in Int
      OBVIOUS
    <3> QED BY <3>1, FS_Interval
  <2>2. es \in Surjection(1 .. n, Range(es))
    BY <1>6 DEF Surjection, Range
  <2>3. IsFiniteSet(Range(es)) /\ Cardinality(Range(es)) <= Cardinality(1 .. n)
    BY <2>1, <2>2, FS_Surjection
  <2> QED BY <2>1, <2>3, FS_CardinalityType
<1> QED BY <1>5, <1>6, <1>7, <1>8, <1>9 DEF es, free

\* What NewContainer does.
LEMMA NewContainerFacts ==
    ASSUME PoolTypes, PeerTypes, ElementInv, NEW c \in contPool.free, NEW ps \in Seq(Int),
           packets.read + packets.keepalives + Len(ps) <= MaxPackets + MaxKeepalives,
           NewContainer(c, ps)
    PROVE  \E es \in Seq(Elem) :
             /\ DOMAIN es = 1 .. Len(ps) /\ IsInjective(es) /\ Range(es) \subseteq elemPool.free
             /\ cont'[c].elems = es /\ \A d \in Container : d # c => cont'[d] = cont[d]
             /\ \A i \in 1 .. Len(ps) : elem'[es[i]].packet = ps[i] /\ elem'[es[i]].key = NoKey
             /\ \A e \in Elem \ Range(es) : elem'[e] = elem[e]
             /\ elemPool'.free = elemPool.free \ Range(es) /\ contPool'.free = contPool.free \ {c}
             /\ elemPool'.count = Cardinality(Elem \ elemPool'.free)
             /\ elemPool'.count <= elemPool.count + Len(ps)
             /\ contPool'.count = contPool.count + 1
             /\ PoolTypes'
<1> DEFINE es == NewElems(Len(ps))
<1>1. Len(ps) \in Nat /\ DOMAIN ps = 1 .. Len(ps) /\ \A i \in 1 .. Len(ps) : ps[i] \in Int
  OBVIOUS
<1>2. /\ IsInjective(es) /\ es \in Seq(Elem) /\ DOMAIN es = 1 .. Len(ps)
      /\ Range(es) \subseteq elemPool.free
      /\ Cardinality(Range(es)) \in Nat /\ Cardinality(Range(es)) <= Len(ps)
  BY <1>1, NewElemsFacts
<1>3. /\ elemPool' = GetFrom(elemPool, Range(es)) /\ contPool' = GetFrom(contPool, {c})
      /\ elem' = [e \in Elem |->
           IF e \in Range(es) THEN [Blank EXCEPT !.packet = ps[CHOOSE i \in DOMAIN es : es[i] = e]]
                              ELSE elem[e]]
      /\ cont' = [cont EXCEPT ![c] = [elems |-> es, locked |-> FALSE]]
  BY DEF NewContainer
<1> HIDE DEF es
<1> DEFINE at(e) == CHOOSE i \in DOMAIN es : es[i] = e
           new(e) == [Blank EXCEPT !.packet = ps[at(e)]]
<1>4. elem' = [e \in Elem |-> IF e \in Range(es) THEN new(e) ELSE elem[e]]
  BY <1>3
<1>5. \A e \in Range(es) : at(e) \in DOMAIN es /\ es[at(e)] = e
  BY DEF Range
<1>6. \A i \in DOMAIN es : es[i] \in Range(es) /\ es[i] \in Elem /\ at(es[i]) = i
  <2> TAKE i \in DOMAIN es
  <2>1. es[i] \in Range(es) /\ es[i] \in Elem
    BY <1>2 DEF Range
  <2> QED BY <1>2, <1>5, <2>1 DEF IsInjective
<1> HIDE DEF at
<1>7. \A e \in Range(es) : new(e) \in Element /\ new(e).packet = ps[at(e)] /\ new(e).key = NoKey
  BY <1>1, <1>2, <1>5, EmptyFacts DEF Element
<1> HIDE DEF new
<1>8. elem' \in [Elem -> Element]
  BY <1>4, <1>7 DEF PoolTypes
<1>9. \A i \in 1 .. Len(ps) : elem'[es[i]].packet = ps[i] /\ elem'[es[i]].key = NoKey
  BY <1>2, <1>4, <1>6, <1>7
<1>10. \A e \in Elem \ Range(es) : elem'[e] = elem[e]
  BY <1>4
<1> DEFINE box == [elems |-> es, locked |-> FALSE]
<1>11. c \in Container /\ box \in Box /\ box.elems = es
  BY <1>2 DEF PoolTypes, Box
<1>12. cont' = [cont EXCEPT ![c] = box]
  BY <1>3
<1> HIDE DEF box
<1>13. cont'[c].elems = es /\ (\A d \in Container : d # c => cont'[d] = cont[d]) /\ cont' \in [Container -> Box]
  BY <1>11, <1>12 DEF PoolTypes
<1>14. /\ elemPool' = [free |-> elemPool.free \ Range(es), count |-> elemPool.count + Cardinality(Range(es))]
       /\ contPool' = [free |-> contPool.free \ {c}, count |-> contPool.count + Cardinality({c})]
  BY <1>3 DEF GetFrom
<1>15. /\ elemPool.free \in SUBSET Elem /\ elemPool.count \in Int
       /\ contPool.free \in SUBSET Container /\ contPool.count \in Int
       /\ elemPool.count = Cardinality(Elem \ elemPool.free)
  BY DEF PoolTypes, ElementInv
<1>16. Cardinality(Elem \ (elemPool.free \ Range(es))) = Cardinality(Elem \ elemPool.free) + Cardinality(Range(es))
       /\ Cardinality({c}) = 1
  <2>1. Range(es) \in SUBSET Elem
    BY <1>2, <1>15
  <2> QED BY <1>2, <1>11, <1>15, <2>1, TakenNames
<1>17. /\ elemPool'.free = elemPool.free \ Range(es) /\ contPool'.free = contPool.free \ {c}
       /\ elemPool'.count = Cardinality(Elem \ elemPool'.free)
       /\ elemPool'.count <= elemPool.count + Len(ps)
       /\ contPool'.count = contPool.count + 1
       /\ elemPool' \in [free : SUBSET Elem, count : Int] /\ contPool' \in [free : SUBSET Container, count : Int]
  BY <1>1, <1>2, <1>14, <1>15, <1>16
<1>18. PoolTypes'
  BY <1>8, <1>13, <1>17 DEF PoolTypes
<1> QED BY <1>2, <1>9, <1>10, <1>13, <1>17, <1>18

\* A container that had nothing gets new elements.
LEMMA NewOwner ==
    ASSUME NEW c \in Container, NEW es \in SUBSET elemPool.free, elemPool.free \subseteq Elem,
           Shares(elemPool.free, Owned), Owned[c] = {}, Owned'[c] = es,
           \A d \in Container : d # c => Owned'[d] = Owned[d]
    PROVE  Shares(elemPool.free \ es, Owned')
<1> DEFINE own == Owned
           new == Owned'
           free == elemPool.free
<1> HIDE DEF own, new, free
<1>0. /\ es \subseteq free /\ free \subseteq Elem /\ Shares(free, own) /\ own[c] = {} /\ new[c] = es
      /\ \A d \in Container : d # c => new[d] = own[d]
  BY DEF own, new, free
<1>1. \A d \in Container : new[d] \subseteq Elem /\ new[d] \cap (free \ es) = {}
  BY <1>0 DEF Shares
<1>2. \A d \in Container : d # c => new[d] \cap es = {}
  BY <1>0 DEF Shares
<1>3. \A d, f \in Container : d # f => new[d] \cap new[f] = {}
  <2> TAKE d, f \in Container
  <2> HAVE d # f
  <2>1. CASE d = c
    BY <1>0, <1>2, <2>1
  <2>2. CASE f = c
    BY <1>0, <1>2, <2>2
  <2>3. CASE d # c /\ f # c
    BY <1>0, <2>3 DEF Shares
  <2> QED BY <2>1, <2>2, <2>3
<1>4. ASSUME NEW e \in Elem PROVE e \in free \ es \/ \E d \in Container : e \in new[d]
  <2>1. CASE e \in es
    BY <1>0, <2>1
  <2>2. CASE e \notin es /\ e \notin free
    <3>1. PICK d \in Container : e \in own[d]
      BY <1>0, <2>2 DEF Shares
    <3>2. d # c
      BY <1>0, <3>1
    <3> QED BY <1>0, <3>1, <3>2
  <2> QED BY <2>1, <2>2
<1>5. Shares(free \ es, new)
  BY <1>1, <1>3, <1>4 DEF Shares
<1> QED BY <1>5 DEF new, free

\* A free container comes into the hands of a goroutine that had none.
LEMMA NewPlace ==
    ASSUME NEW pool, NEW st, NEW out, NEW snd, NEW hands, NEW new, Places(pool, st, out, snd, hands),
           NEW c \in pool, NEW t \in Thread, hands[t] = {}, new[t] = {c},
           \A u \in Thread : u # t => new[u] = hands[u]
    PROVE  Places(pool \ {c}, st, out, snd, new)
<1>1. /\ (pool \ {c}) \cap st = {} /\ (pool \ {c}) \cap out = {} /\ (pool \ {c}) \cap snd = {}
      /\ st \cap out = {} /\ st \cap snd = {} /\ out \cap snd = {}
      /\ c \notin st \cup out \cup snd /\ \A u \in Thread : c \notin hands[u]
  BY DEF Places
<1>2. ASSUME NEW u \in Thread PROVE new[u] \cap ((pool \ {c}) \cup st \cup out \cup snd) = {}
  <2>1. CASE u = t
    BY <1>1, <2>1
  <2>2. CASE u # t
    BY <2>2 DEF Places
  <2> QED BY <2>1, <2>2
<1>3. ASSUME NEW u \in Thread, NEW v \in Thread, u # v PROVE new[u] \cap new[v] = {}
  <2>1. CASE u # t /\ v # t
    BY <1>3, <2>1 DEF Places
  <2>2. CASE u = t \/ v = t
    BY <1>1, <1>3, <2>2
  <2> QED BY <2>1, <2>2
<1>4. ASSUME NEW d \in Container
      PROVE  d \in (pool \ {c}) \cup st \cup out \cup snd \/ \E u \in Thread : d \in new[u]
  <2>1. CASE d = c
    BY <2>1
  <2>2. CASE d # c /\ d \notin pool \cup st \cup out \cup snd
    <3>1. PICK u \in Thread : d \in hands[u]
      BY <2>2 DEF Places
    <3>2. u # t
      BY <3>1
    <3> QED BY <3>1, <3>2
  <2> QED BY <2>1, <2>2
<1> QED BY <1>1, <1>2, <1>3, <1>4 DEF Places

\* RoutineReadFromTUN and SendKeepalive make a container.
LEMMA NewStep ==
    ASSUME Inv, NEW t \in Thread, thread[t].pc = "idle", NEW c \in contPool.free, NEW pc \in {"read", "keepalive"},
           NEW r, Starts(r, pc, NoKey, c), thread' = [thread EXCEPT ![t] = r],
           NEW ps \in Seq(Int), ps # <<>>, IsInjective(ps), NewContainer(c, ps),
           Range(ps) \cap Read = {}, Read' = Read \cup Range(ps), PeerTypes',
           packets.read + packets.keepalives + Len(ps) <= MaxPackets + MaxKeepalives,
           packets'.read + packets'.keepalives = packets.read + packets.keepalives + Len(ps),
           UNCHANGED <<staged, outbound, encryption, sender, peerState, sealed, queued, wire>>
    PROVE  Inv'
<1> USE PartsOfInv
<1>1. PICK es \in Seq(Elem) :
        /\ DOMAIN es = 1 .. Len(ps) /\ IsInjective(es) /\ Range(es) \subseteq elemPool.free
        /\ cont'[c].elems = es /\ \A d \in Container : d # c => cont'[d] = cont[d]
        /\ \A i \in 1 .. Len(ps) : elem'[es[i]].packet = ps[i] /\ elem'[es[i]].key = NoKey
        /\ \A e \in Elem \ Range(es) : elem'[e] = elem[e]
        /\ elemPool'.free = elemPool.free \ Range(es) /\ contPool'.free = contPool.free \ {c}
        /\ elemPool'.count = Cardinality(Elem \ elemPool'.free)
        /\ elemPool'.count <= elemPool.count + Len(ps)
        /\ contPool'.count = contPool.count + 1
        /\ PoolTypes'
  BY NewContainerFacts
<1>2. UNCHANGED <<staged, outbound, encryption, sender, keys, sendNonce, control, sealed, queued, wire>>
  BY DEF peerState
<1>3. c \in Container /\ c # Nil /\ Elems(c) = {} /\ Len(ps) \in Nat /\ Len(ps) >= 1 /\ DOMAIN ps = 1 .. Len(ps)
  <2>1. c \in Container
    BY DEF PoolTypes
  <2>2. cont[c].elems = <<>>
    BY DEF ContainerInv
  <2> QED BY <2>1, <2>2, Facts, EmptyFacts DEF Elems
<1>4. /\ r \in Local /\ LocalOK(r) /\ Hand(r) = {c} /\ r.pc = pc /\ r.c = c /\ r.ooo = Nil
  BY <1>3 DEF Starts, LocalOK, Hand, Drawing
<1>5. /\ thread' \in [Thread -> Local] /\ thread'[t] = r
      /\ \A u \in Thread : u # t => thread'[u] = thread[u]
  BY <1>4, ThreadExcept
<1>6. Staged' = Staged /\ Out' = Out /\ Sending' = Sending
  BY <1>2 DEF Staged, Out, Sending
<1>7. Hands[t] = {} /\ Hands'[t] = {c} /\ \A u \in Thread : u # t => Hands'[u] = Hands[u]
  <2>1. LocalOK(thread[t])
    BY DEF ThreadInv
  <2>2. Hand(thread[t]) = {}
    BY <2>1 DEF LocalOK, Hand
  <2> QED BY <1>4, <1>5, <2>2, HandsOf
<1>8. Places(contPool.free, Staged, Out, Sending, Hands)
  BY DEF PlaceInv
<1>9. c \notin Staged \cup Out \cup Sending /\ \A u \in Thread : c \notin Hand(thread[u])
  BY <1>8, HandsOf DEF Places
<1>10. PlaceInv'
  <2> DEFINE pool == contPool'.free
  <2>1. pool = contPool.free \ {c}
    BY <1>1
  <2> HIDE DEF pool
  <2>2. Places(pool, Staged, Out, Sending, Hands')
    BY <1>7, <1>8, <2>1, NewPlace
  <2>3. contPool'.count = Cardinality(Container \ contPool'.free)
    <3>1. contPool.free \in SUBSET Container
      BY DEF PoolTypes
    <3>2. Cardinality(Container \ (contPool.free \ {c})) = Cardinality(Container \ contPool.free) + 1
      BY <1>3, <3>1, TakenNames
    <3> QED BY <1>1, <3>2 DEF PlaceInv
  <2> QED BY <1>2, <1>6, <2>2, <2>3 DEF PlaceInv, pool
<1>11. BusyKept
  BY <1>4, <1>5 DEF BusyKept, Busy, Drawing
<1>12. DrawnFor(c) = {} /\ DrawnFor(c)' = {}
  <2>1. DrawnFor(c) = {}
    BY NotDrawn
  <2>2. \A u : u \in DrawnFor(c)' => u \in DrawnFor(c)
    BY <1>11 DEF DrawnFor, BusyKept, Busy
  <2> QED BY <2>1, <2>2
<1>13. Own(c) = {} /\ Own(c)' = Range(es) /\ Elems(c)' = Range(es)
  BY <1>1, <1>3, <1>12 DEF Own, Elems
<1>14. \A d \in Container : d # c => Own(d)' = Own(d) /\ Elems(d)' = Elems(d)
  BY <1>1, <1>11, OwnKept
<1>15. Shares(elemPool.free, Owned) /\ \A d \in Container : Owned[d] = Own(d) /\ Owned'[d] = Own(d)'
  BY DEF ElementInv, Owned
<1>16. \A d \in Container : d # c => \A e \in Own(d) : e \in Elem /\ e \notin Range(es) /\ elem'[e] = elem[e]
  BY <1>1, <1>15 DEF Shares
<1>17. ElementInv'
  <2> DEFINE free == elemPool'.free
  <2>1. free = elemPool.free \ Range(es) /\ Range(es) \subseteq elemPool.free /\ elemPool.free \subseteq Elem
    BY <1>1 DEF PoolTypes
  <2> HIDE DEF free
  <2>2. Shares(free, Owned')
    <3>1. Owned'[c] = Range(es) /\ Owned[c] = {} /\ \A d \in Container : d # c => Owned'[d] = Owned[d]
      BY <1>3, <1>13, <1>14, <1>15
    <3>2. Shares(elemPool.free \ Range(es), Owned')
      BY <1>3, <1>15, <2>1, <3>1, NewOwner
    <3> QED BY <2>1, <3>2
  <2>3. elemPool'.count <= packets'.read + packets'.keepalives
    <3>1. elemPool.count <= packets.read + packets.keepalives /\ elemPool.count \in Int /\ elemPool'.count \in Int
          /\ packets.read \in Nat /\ packets.keepalives \in Nat
      BY <1>1 DEF ElementInv, PoolTypes, PeerTypes
    <3> QED BY <1>1, <1>3, <3>1
  <2> QED BY <1>1, <2>2, <2>3 DEF ElementInv, free
<1>18. \A e \in Elem : elem'[e] = elem[e] \/ elem'[e].key = NoKey
  <2> TAKE e \in Elem
  <2>1. CASE e \in Range(es)
    <3>1. PICK i \in DOMAIN es : es[i] = e
      BY <2>1 DEF Range
    <3> QED BY <1>1, <3>1
  <2> QED BY <1>1, <2>1
<1>19. NonceInv'
  <2>1. \A a \in sealed : a[1] # NoKey
    BY Facts DEF NonceInv
  <2>2. NonceOnce'
    BY <1>2 DEF NonceInv, NonceOnce
  <2>3. \A e \in Elem : elem'[e].key # NoKey => Used(elem'[e].nonce, sendNonce'[elem'[e].key])
    BY <1>2, <1>18 DEF NonceInv
  <2>4. \A e, f \in Elem : elem'[e].key # NoKey /\ elem'[e].key = elem'[f].key
                             /\ elem'[e].nonce = elem'[f].nonce => e = f
    BY <1>18 DEF NonceInv
  <2>5. \A a \in sealed' : a[1] \in Key /\ a[2] \in Nat /\ Used(a[2], sendNonce'[a[1]])
    BY <1>2 DEF NonceInv
  <2>6. \A a \in sealed', e \in Elem : a[1] = elem'[e].key /\ a[2] = elem'[e].nonce =>
          a = <<elem'[e].key, elem'[e].nonce, elem'[e].packet>>
    BY <1>2, <1>18, <2>1 DEF NonceInv
  <2> QED BY <2>2, <2>3, <2>4, <2>5, <2>6 DEF NonceInv
<1>20. \A u \in Thread : thread'[u].pc \in Drawing \cup {"restage"} \cup Done \cup {"encryption"} =>
         thread'[u] = thread[u] /\ u # t
  BY <1>4, <1>5 DEF Drawing, Done
<1>21. Raw' \subseteq Raw \cup {c} /\ Cooked' \subseteq Cooked
  <2>1. \A u \in Thread : thread'[u].pc \in Fresh => thread'[u].c = c \/ thread'[u] = thread[u]
    BY <1>4, <1>5
  <2> QED BY <1>6, <1>20, <2>1 DEF Raw, Cooked
<1>22. c \notin Raw /\ c \notin Cooked /\ Raw \subseteq Container /\ Cooked \subseteq Container
  <2>1. \A u \in Thread : /\ thread[u].pc \in Fresh \cup Done => thread[u].c # c
                          /\ thread[u].pc \in Drawing \cup {"restage"} => thread[u].ooo # c
    BY <1>3, <1>9, HandFacts
  <2> QED BY <1>9, <2>1, RawCooked DEF Raw, Cooked
<1>23. \A d \in Raw \cup Cooked : d \in Container /\ d # c /\ Own(d) = Elems(d)
  <2>1. \A d \in Raw \cup Cooked : DrawnFor(d) = {}
    BY NotDrawn
  <2> QED BY <1>22, <2>1, OwnFacts
<1>24. KeyInv'
  <2>1. \A e \in Elems(c)' : elem'[e].key = NoKey
    BY <1>1, <1>13 DEF Range
  <2>2. ASSUME NEW d \in Raw \cup Cooked
        PROVE  Elems(d)' = Elems(d) /\ \A e \in Elems(d) : elem'[e] = elem[e]
    BY <1>14, <1>16, <1>23
  <2>3. \A d \in Raw' : \A e \in Elems(d)' : elem'[e].key = NoKey
    <3> SUFFICES ASSUME NEW d \in Raw', d # c PROVE \A e \in Elems(d)' : elem'[e].key = NoKey
      BY <2>1
    <3>1. d \in Raw
      BY <1>21
    <3>2. \A e \in Elems(d) : elem[e].key = NoKey
      BY <3>1 DEF KeyInv
    <3> QED BY <2>2, <3>1, <3>2
  <2>4. \A d \in Cooked' : \A e \in Elems(d)' : elem'[e].key # NoKey
    <3> TAKE d \in Cooked'
    <3>1. d \in Cooked
      BY <1>21
    <3>2. \A e \in Elems(d) : elem[e].key # NoKey
      BY <3>1 DEF KeyInv
    <3> QED BY <2>2, <3>1, <3>2
  <2>5. ASSUME NEW u \in Thread, Busy(u)'
        PROVE  /\ \A e \in Range(thread'[u].kept) : elem'[e].key # NoKey
               /\ \A e \in Rest(thread'[u], cont'[thread'[u].c].elems) : elem'[e].key = NoKey
    <3>1. thread'[u] = thread[u] /\ Busy(u)
      BY <1>11, <2>5 DEF BusyKept, Busy
    <3>2. thread[u].c \in Container /\ thread[u].c # c /\ DrawnFor(thread[u].c) = {u}
      <4>1. thread[u].c \in Container /\ thread[u].c \in Hand(thread[u])
        BY <3>1, HandFacts
      <4>2. DrawnFor(thread[u].c) = {u}
        BY <3>1, NotDrawn
      <4> QED BY <1>9, <4>1, <4>2
    <3>3. Own(thread[u].c) = Range(thread[u].kept) \cup Rest(thread[u], cont[thread[u].c].elems)
      BY <3>2, OwnFacts
    <3>4. \A e \in Range(thread[u].kept) \cup Rest(thread[u], cont[thread[u].c].elems) : elem'[e] = elem[e]
      BY <1>16, <3>2, <3>3
    <3> QED BY <1>1, <3>1, <3>2, <3>4 DEF KeyInv
  <2> QED BY <2>3, <2>4, <2>5 DEF KeyInv
<1>25. CounterInv'
  <2>1. \A k \in Key : Storing(k)' = Storing(k)
    BY <1>11, StoringKept
  <2> QED BY <1>2, <2>1 DEF CounterInv
<1>26. ThreadInv'
  <2>1. ASSUME NEW u \in Thread, Busy(u)' PROVE LoopOK(thread'[u], cont'[thread'[u].c].elems)
    <3>1. thread'[u] = thread[u] /\ Busy(u)
      BY <1>11, <2>1 DEF BusyKept, Busy
    <3>2. thread[u].c \in Container /\ thread[u].c # c
      BY <1>9, <3>1, HandFacts
    <3> QED BY <1>1, <3>1, <3>2 DEF ThreadInv
  <2>2. \A u \in Thread : LocalOK(thread'[u])
    BY <1>4, <1>5 DEF ThreadInv
  <2> QED BY <2>1, <2>2 DEF ThreadInv
<1>27. ContainerInv'
  <2>1. \A d \in Container : IsInjective(cont'[d].elems)
    BY <1>1 DEF ContainerInv
  <2>2. \A d \in contPool'.free : cont'[d].elems = <<>>
    BY <1>1 DEF ContainerInv, PoolTypes
  <2>3. es # <<>>
    BY <1>1, <1>3
  <2>4. \A d \in Raw' : cont'[d].elems # <<>>
    BY <1>1, <1>21, <1>23, <2>3 DEF ContainerInv
  <2> QED BY <2>1, <2>2, <2>4 DEF ContainerInv
<1>28. LockInv'
  <2>1. \A d \in Range(encryption) : d \in Container /\ d # c
    BY <1>9 DEF LockInv, QueueTypes, Range
  <2>2. \A u \in Thread : thread[u].pc \in Done \cup {"encryption"} => thread[u].c \in Container /\ thread[u].c # c
    <3>1. \A u \in Thread : thread[u].pc \in Done => thread[u].c \in Container /\ thread[u].c # c
      BY <1>9, HandFacts
    <3>2. \A u \in Thread : thread[u].pc = "encryption" => thread[u].c \in Container /\ thread[u].c # c
      BY <1>9, RawCooked DEF LockInv
    <3> QED BY <3>1, <3>2
  <2>3. \A d \in Range(encryption') : cont'[d].locked /\ d \in Out' \cup Sending'
    BY <1>1, <1>2, <1>6, <2>1 DEF LockInv
  <2>4. \A u \in Thread : thread'[u].pc \in Done \cup {"encryption"} => cont'[thread'[u].c].locked
    BY <1>1, <1>20, <2>2 DEF LockInv
  <2>5. \A u \in Thread : thread'[u].pc = "encryption" =>
          thread'[u].c \in Out' \cup Sending' /\ thread'[u].c \notin Range(encryption')
    BY <1>2, <1>6, <1>20 DEF LockInv
  <2>6. \A u, v \in Thread : thread'[u].pc = "encryption" /\ thread'[v].pc = "encryption"
          /\ thread'[u].c = thread'[v].c => u = v
    BY <1>20 DEF LockInv
  <2> QED BY <2>3, <2>4, <2>5, <2>6 DEF LockInv
<1>29. \A d \in Out \cup Sending : d \in Container /\ d # c /\ Own(d) = Elems(d)
  BY <1>23 DEF Cooked
<1>30. PacketInv'
  <2>1. \A e \in Range(es) : e \in Elem /\ e \in elemPool.free /\ \E i \in 1 .. Len(ps) : e = es[i]
    BY <1>1 DEF Range, PoolTypes
  <2>2. \A e \in Range(es) : elem'[e].packet \in Range(ps)
    BY <1>1, <1>3, <2>1 DEF Range
  <2>3. \A e, f \in Range(es) : elem'[e].packet = elem'[f].packet => e = f
    <3> TAKE e, f \in Range(es)
    <3> HAVE elem'[e].packet = elem'[f].packet
    <3>1. PICK i \in 1 .. Len(ps) : e = es[i]
      BY <2>1
    <3>2. PICK j \in 1 .. Len(ps) : f = es[j]
      BY <2>1
    <3>3. ps[i] = ps[j]
      BY <1>1, <3>1, <3>2
    <3> QED BY <1>3, <3>1, <3>2, <3>3 DEF IsInjective
  <2>4. \A e \in Elem \ elemPool'.free : e \in Range(es) \/ (e \in Elem \ elemPool.free /\ elem'[e] = elem[e])
    BY <1>1
  <2>5. \A e \in Elem \ elemPool.free : elem[e].packet \in Read
    BY DEF PacketInv
  <2>6. \A e \in Elem \ elemPool'.free : elem'[e].packet \in Read'
    BY <2>2, <2>4, <2>5
  <2>7. \A e, f \in Elem \ elemPool'.free : elem'[e].packet = elem'[f].packet => e = f
    BY <2>2, <2>3, <2>4, <2>5 DEF PacketInv
  <2>8. queued' \in Seq(Int) /\ IsInjective(queued') /\ Range(queued') \subseteq Read'
    BY <1>2 DEF PacketInv
  <2>9. \A d \in Out' \cup Sending' : \A e \in Elems(d)' :
          elem'[e].packet \in Range(queued') /\ (~cont'[d].locked => elem'[e].sealed)
    <3> TAKE d \in Out' \cup Sending'
    <3>1. d \in Out \cup Sending /\ d \in Container /\ d # c /\ Own(d) = Elems(d)
      BY <1>6, <1>29
    <3>2. Elems(d)' = Elems(d) /\ cont'[d] = cont[d] /\ \A e \in Elems(d) : elem'[e] = elem[e]
      BY <1>1, <1>14, <1>16, <3>1
    <3>3. \A e \in Elems(d) : elem[e].packet \in Range(queued) /\ (~cont[d].locked => elem[e].sealed)
      BY <3>1 DEF PacketInv
    <3> QED BY <1>2, <3>2, <3>3
  <2>10. \A d \in Container \ (Out' \cup Sending') : \A e \in Own(d)' : elem'[e].packet \notin Range(queued')
    <3> TAKE d \in Container \ (Out' \cup Sending')
    <3>1. CASE d = c
      BY <1>2, <1>13, <2>2, <3>1 DEF PacketInv
    <3>2. CASE d # c
      <4>1. \A e \in Own(d) : elem[e].packet \notin Range(queued)
        BY <1>6 DEF PacketInv
      <4>2. Own(d)' = Own(d) /\ \A e \in Own(d) : elem'[e] = elem[e]
        BY <1>14, <1>16, <3>2
      <4> QED BY <1>2, <4>1, <4>2
    <3> QED BY <3>1, <3>2
  <2> QED BY <2>6, <2>7, <2>8, <2>9, <2>10 DEF PacketInv
<1>31. OrderInv'
  <2>1. OrderKeeps
    <3>1. \A d \in Out' \cup Sending' : d \in Out \cup Sending /\ cont'[d].elems = cont[d].elems
            /\ \A e \in Elems(d) : elem'[e].packet = elem[e].packet
      BY <1>1, <1>6, <1>16, <1>29
    <3>2. /\ \A i, j \in DOMAIN outbound' : \A a, b \in Out' :
               i < j /\ outbound'[i] = a /\ outbound'[j] = b => Before(a, b)
          /\ \A a \in Sending', b \in Out' : Before(a, b)
      BY <1>2, <1>6 DEF OrderInv
    <3> QED BY <1>2, <3>1, <3>2 DEF OrderKeeps
  <2> QED BY <2>1, OrderKept
<1>32. QueueTypes' /\ SenderInv'
  BY <1>2, <1>5 DEF QueueTypes, SenderInv
<1> QED BY <1>1, <1>10, <1>17, <1>19, <1>24, <1>25, <1>26, <1>27, <1>28, <1>30, <1>31, <1>32,
           InvFromParts

LEMMA ReadStep ==
    ASSUME Inv, NEW n \in 1 .. Batch, ReadFromTUN(n)
    PROVE  Inv'
<1> USE PartsOfInv
<1>1. /\ thread[Tun].pc = "idle" /\ n \in Nat /\ n >= 1 /\ packets.read + n <= MaxPackets
      /\ packets' = [packets EXCEPT !.read = @ + n]
      /\ UNCHANGED <<staged, outbound, encryption, sender, peerState, sealed, queued, wire>>
  BY Facts DEF ReadFromTUN, At
<1>2. PICK c \in contPool.free :
        /\ NewContainer(c, [i \in 1 .. n |-> packets.read + i])
        /\ thread' = [thread EXCEPT ![Tun] = [Idle EXCEPT !.pc = "read", !.c = c]]
  BY DEF ReadFromTUN, Becomes
<1>3. c \in Maybe
  BY DEF PoolTypes, Maybe
<1>4. /\ packets.read \in Nat /\ packets.keepalives \in Nat /\ MaxPackets \in Nat /\ MaxKeepalives \in Nat
      /\ packets.keepalives <= MaxKeepalives
  BY Facts DEF PeerTypes
<1>5. /\ packets'.read = packets.read + n /\ packets'.keepalives = packets.keepalives
      /\ packets' \in [read : Nat, keepalives : Nat]
  BY <1>1, <1>4 DEF PeerTypes
<1>6. PeerTypes'
  BY <1>1, <1>4, <1>5 DEF PeerTypes, peerState
<1> DEFINE ps == [i \in 1 .. n |-> packets.read + i]
<1>7. ps \in Seq(Int) /\ Len(ps) = n /\ DOMAIN ps = 1 .. n /\ \A i \in 1 .. n : ps[i] = packets.read + i
  BY <1>1, <1>4
<1>8. NewContainer(c, ps)
  BY <1>2
<1> HIDE DEF ps
<1>9. ps # <<>> /\ IsInjective(ps)
  <2>1. ps # <<>>
    BY <1>1, <1>7
  <2> QED BY <1>1, <1>4, <1>7, <2>1 DEF IsInjective
<1>10. Range(ps) = packets.read + 1 .. packets.read + n
  <2>1. \A x : x \in Range(ps) => x \in packets.read + 1 .. packets.read + n
    BY <1>1, <1>4, <1>7 DEF Range
  <2>2. ASSUME NEW x \in packets.read + 1 .. packets.read + n PROVE x \in Range(ps)
    <3>1. x - packets.read \in 1 .. n /\ ps[x - packets.read] = x
      BY <1>1, <1>4, <1>7, SMTT(40)
    <3> QED BY <1>7, <3>1 DEF Range
  <2> QED BY <2>1, <2>2
<1>11. Range(ps) \cap Read = {} /\ Read' = Read \cup Range(ps)
  BY <1>1, <1>4, <1>5, <1>10 DEF Read
<1>12. /\ packets.read + packets.keepalives + Len(ps) <= MaxPackets + MaxKeepalives
       /\ packets'.read + packets'.keepalives = packets.read + packets.keepalives + Len(ps)
  BY <1>1, <1>4, <1>5, <1>7
<1>13. PICK r : Starts(r, "read", NoKey, c) /\ thread' = [thread EXCEPT ![Tun] = r]
  BY <1>2, <1>3, LocalNew DEF Pc
<1> QED BY <1>1, <1>6, <1>7, <1>8, <1>9, <1>11, <1>12, <1>13, Facts, NewStep

LEMMA KeepaliveStep ==
    ASSUME Inv, NEW t \in Thread, thread[t].pc = "idle", packets.keepalives < MaxKeepalives,
           packets' = [packets EXCEPT !.keepalives = @ + 1],
           NEW c \in contPool.free, NewContainer(c, <<-(packets.keepalives + 1)>>),
           thread' = [thread EXCEPT ![t] = [Idle EXCEPT !.pc = "keepalive", !.c = c]],
           UNCHANGED <<staged, outbound, encryption, sender, peerState, sealed, queued, wire>>
    PROVE  Inv'
<1> USE PartsOfInv
<1>1. c \in Maybe
  BY DEF PoolTypes, Maybe
<1>2. /\ packets.read \in Nat /\ packets.keepalives \in Nat /\ MaxPackets \in Nat /\ MaxKeepalives \in Nat
      /\ packets.read <= MaxPackets
  BY Facts DEF PeerTypes
<1>3. /\ packets'.read = packets.read /\ packets'.keepalives = packets.keepalives + 1
      /\ packets' \in [read : Nat, keepalives : Nat]
  BY <1>2 DEF PeerTypes
<1>4. PeerTypes'
  BY <1>2, <1>3 DEF PeerTypes, peerState
<1> DEFINE x == -(packets.keepalives + 1)
           ps == <<x>>
<1>5. x \in Int
  BY <1>2
<1>6. NewContainer(c, ps)
  OBVIOUS
<1>7. x < 0 /\ x < -packets.keepalives /\ x = -packets'.keepalives /\ packets.keepalives = -x - 1
  BY <1>2, <1>3
<1> HIDE DEF x
<1>8. ps \in Seq(Int) /\ ps # <<>> /\ Len(ps) = 1 /\ DOMAIN ps = 1 .. 1 /\ ps[1] = x
  BY <1>5
<1> HIDE DEF ps
<1>9. IsInjective(ps) /\ Range(ps) = {x}
  BY <1>8 DEF IsInjective, Range
<1>10. Range(ps) \cap Read = {} /\ Read' = Read \cup Range(ps)
  <2>1. x \notin Read
    BY <1>2, <1>5, <1>7 DEF Read
  <2>2. Read' = Read \cup {x}
    BY <1>2, <1>3, <1>5, <1>7 DEF Read
  <2> QED BY <1>9, <2>1, <2>2
<1>11. /\ packets.read + packets.keepalives + Len(ps) <= MaxPackets + MaxKeepalives
       /\ packets'.read + packets'.keepalives = packets.read + packets.keepalives + Len(ps)
  <2> DEFINE a == packets.read
             b == packets.keepalives
             n == Len(ps)
  <2>1. a \in Nat /\ b \in Nat /\ a <= MaxPackets /\ b < MaxKeepalives /\ n = 1
    BY <1>2, <1>8
  <2>2. packets'.read + packets'.keepalives = a + (b + 1)
    BY <1>3
  <2> HIDE DEF a, b, n
  <2>3. a + b + n <= MaxPackets + MaxKeepalives /\ a + (b + 1) = a + b + n
    BY <1>2, <2>1
  <2> QED BY <2>2, <2>3 DEF a, b, n
<1>12. PICK r : Starts(r, "keepalive", NoKey, c) /\ thread' = [thread EXCEPT ![t] = r]
  <2>1. Starts([Idle EXCEPT !.pc = "keepalive", !.c = c], "keepalive", NoKey, c)
    BY <1>1, LocalNew, ZenonT(60) DEF Pc
  <2> QED BY <2>1
<1> QED BY <1>4, <1>6, <1>8, <1>9, <1>10, <1>11, <1>12, NewStep

-----------------------------------------------------------------------------
(* Nonces are drawn *)

After(i, es) == {es[j] : j \in i + 1 .. Len(es)}

\* The element whose turn it is.
LEMMA DrawFacts ==
    ASSUME Inv, NEW t \in Thread, Busy(t)
    PROVE  /\ thread[t] \in Local /\ thread[t].c \in Container /\ thread[t].c # Nil
           /\ thread[t].key \in Key /\ thread[t].i \in Nat /\ thread[t].kept \in Seq(Elem)
           /\ thread[t].ooo # thread[t].c /\ (thread[t].ooo = Nil \/ thread[t].ooo \in Container)
           /\ cont[thread[t].c].elems \in Seq(Elem) /\ IsInjective(cont[thread[t].c].elems)
           /\ thread[t].i \in DOMAIN cont[thread[t].c].elems
           /\ thread[t].i <= Len(cont[thread[t].c].elems) /\ Len(cont[thread[t].c].elems) \in Nat
           /\ IsInjective(thread[t].kept)
           /\ Current(t) \in Elem /\ Current(t) \in Own(thread[t].c) /\ Current(t) \notin Range(thread[t].kept)
           /\ Current(t) \notin After(thread[t].i, cont[thread[t].c].elems)
           /\ elem[Current(t)].key = NoKey
           /\ Own(thread[t].c) = Range(thread[t].kept) \cup {Current(t)}
                                   \cup After(thread[t].i, cont[thread[t].c].elems)
           /\ Range(thread[t].kept) \cap After(thread[t].i, cont[thread[t].c].elems) = {}
           /\ \A d \in Container : d # thread[t].c => Current(t) \notin Own(d)
           /\ Current(t) \notin elemPool.free
           /\ DrawnFor(thread[t].c) = {t}
<1> USE PartsOfInv
<1>1. /\ thread[t] \in Local /\ thread[t].c \in Container /\ thread[t].c # Nil /\ LocalOK(thread[t])
      /\ LoopOK(thread[t], cont[thread[t].c].elems)
  BY HandFacts, Facts DEF ThreadInv
<1>2. /\ thread[t].key \in Key /\ thread[t].ooo # thread[t].c /\ (thread[t].ooo = Nil \/ thread[t].ooo \in Container)
      /\ thread[t].i \in Nat /\ thread[t].kept \in Seq(Elem)
  BY <1>1 DEF Busy, LocalOK, Local, Maybe
<1> DEFINE c == thread[t].c
           es == cont[thread[t].c].elems
           i == thread[t].i
<1>3. es \in Seq(Elem) /\ IsInjective(es)
  BY <1>1 DEF PoolTypes, Box, ContainerInv
<1>4. i \in DOMAIN es /\ IsInjective(thread[t].kept)
      /\ \A m \in DOMAIN thread[t].kept, j \in i .. Len(es) : thread[t].kept[m] # es[j]
  BY <1>1 DEF LoopOK
<1>5. Current(t) = es[i] /\ Rest(thread[t], es) = {es[j] : j \in i .. Len(es)}
  BY DEF Current, Rest
<1> HIDE DEF es, i
<1>6. i \in 1 .. Len(es) /\ Len(es) \in Nat /\ i <= Len(es) /\ es[i] \in Elem
  BY <1>3, <1>4
<1>7. {es[j] : j \in i .. Len(es)} = {es[i]} \cup After(i, es)
  BY <1>6 DEF After
<1>8. es[i] \notin After(i, es)
  BY <1>3, <1>6 DEF After, IsInjective
<1>9. es[i] \notin Range(thread[t].kept) /\ Range(thread[t].kept) \cap After(i, es) = {}
  BY <1>4, <1>6 DEF Range, After
<1>10. DrawnFor(c) = {t}
  BY NotDrawn
<1>11. Own(c) = Range(thread[t].kept) \cup Rest(thread[t], es)
  BY <1>10, OwnFacts DEF es
<1>12. elem[es[i]].key = NoKey
  <2>1. \A e \in Rest(thread[t], cont[thread[t].c].elems) : elem[e].key = NoKey
    BY DEF KeyInv
  <2>2. es[i] \in Rest(thread[t], es)
    BY <1>5, <1>7
  <2> QED BY <2>1, <2>2 DEF es
<1>13. Owned[c] = Own(c) /\ Shares(elemPool.free, Owned) /\ \A d \in Container : Owned[d] = Own(d)
  BY <1>1 DEF ElementInv, Owned
<1>14. es[i] \in Own(c)
  BY <1>5, <1>7, <1>11
<1>15. es[i] \notin elemPool.free /\ \A d \in Container : d # c => es[i] \notin Own(d)
  BY <1>1, <1>13, <1>14 DEF Shares
<1>16. Own(c) = Range(thread[t].kept) \cup {es[i]} \cup After(i, es)
  BY <1>5, <1>7, <1>11
<1>17. /\ es \in Seq(Elem) /\ IsInjective(es) /\ i \in DOMAIN es /\ i <= Len(es) /\ Len(es) \in Nat
  BY <1>3, <1>4, <1>6
<1>18. /\ Current(t) \in Elem /\ Current(t) \in Own(c) /\ Current(t) \notin Range(thread[t].kept)
       /\ Current(t) \notin After(i, es) /\ elem[Current(t)].key = NoKey
       /\ Own(c) = Range(thread[t].kept) \cup {Current(t)} \cup After(i, es)
       /\ \A d \in Container : d # c => Current(t) \notin Own(d)
       /\ Current(t) \notin elemPool.free
  BY <1>5, <1>6, <1>8, <1>9, <1>12, <1>14, <1>15, <1>16
<1> QED BY <1>1, <1>2, <1>4, <1>9, <1>10, <1>17, <1>18 DEF es, i, c

\* A step of the loop of goroutine t: it may take a container for the elements
\* without a nonce, and it moves elements between the two containers.
LoopStep(t, r) ==
    /\ thread' = [thread EXCEPT ![t] = r] /\ r \in Local
    /\ r.pc \in Drawing \cup {"restage", "check"} /\ r.c = thread[t].c
    /\ r.pc = "check" => r.ooo = Nil
    /\ \/ contPool' = contPool /\ r.ooo = thread[t].ooo
       \/ thread[t].ooo = Nil /\ r.ooo \in contPool.free /\ contPool' = GetFrom(contPool, {r.ooo})
    /\ elem' \in [Elem -> Element] /\ cont' \in [Container -> Box] /\ sendNonce' \in [Key -> Nat]
    /\ \A e \in Elem : elem'[e].packet = elem[e].packet /\ elem'[e].sealed = elem[e].sealed
    /\ \A d \in Container : d \notin {r.c, r.ooo} => cont'[d] = cont[d]
    /\ r.pc \in Done => cont'[r.c].locked
    /\ UNCHANGED <<elemPool, staged, outbound, encryption, sender, keys, control, packets, sealed, queued, wire>>

LEMMA LoopPlaces ==
    ASSUME Inv, NEW t \in Thread, Busy(t), NEW r, LoopStep(t, r)
    PROVE  /\ PoolTypes' /\ QueueTypes' /\ PeerTypes' /\ PlaceInv' /\ SenderInv' /\ LockInv'
           /\ r.c \in Container /\ r.ooo \in Maybe /\ r.ooo # r.c
           /\ r.c \notin contPool.free \cup Staged \cup Out \cup Sending
           /\ r.ooo \notin Staged \cup Out \cup Sending
           /\ Staged' = Staged /\ Out' = Out /\ Sending' = Sending
           /\ thread'[t] = r /\ (\A u \in Thread : u # t => thread'[u] = thread[u])
           /\ \A u \in Thread : u # t => {r.c, r.ooo} \cap Hand(thread[u]) = {}
<1> USE PartsOfInv
<1>1. /\ thread' \in [Thread -> Local] /\ thread'[t] = r
      /\ \A u \in Thread : u # t => thread'[u] = thread[u]
  BY ThreadExcept DEF LoopStep
<1>2. /\ thread[t].c \in Container /\ thread[t].ooo # thread[t].c /\ (thread[t].ooo = Nil \/ thread[t].ooo \in Container)
      /\ thread[t].c # Nil /\ r.c = thread[t].c /\ r \in Local
  BY DrawFacts DEF LoopStep
<1>3. thread[t].c \in Hand(thread[t]) /\ (thread[t].ooo # Nil => thread[t].ooo \in Hand(thread[t]))
      /\ Hand(thread[t]) = {thread[t].c, thread[t].ooo} \ {Nil}
  BY HandFacts DEF Busy, Drawing, Hand
<1>4. Hand(thread[t]) \cap (contPool.free \cup Staged \cup Out \cup Sending) = {}
      /\ \A u \in Thread : u # t => Hand(thread[t]) \cap Hand(thread[u]) = {}
  BY HandFacts
<1>5. Staged' = Staged /\ Out' = Out /\ Sending' = Sending
  BY DEF LoopStep, Staged, Out, Sending
<1>6. Nil \notin Staged \cup Out \cup Sending \cup contPool.free /\ \A u \in Thread : Nil \notin Hand(thread[u])
  BY Facts DEF Staged, Out, Sending, PoolTypes, QueueTypes, Hand, Range
<1>7. Hand(r) = {r.c, r.ooo} \ {Nil}
  BY DEF LoopStep, Hand, Drawing
<1>8. Places(contPool.free, Staged, Out, Sending, Hands)
  BY DEF PlaceInv
<1>9. /\ \A u \in Thread : Hand(thread[u]) = Hands[u]
      /\ Hands'[t] = Hand(r) /\ \A u \in Thread : u # t => Hands'[u] = Hands[u]
  BY <1>1, HandsOf
<1>10. /\ r.ooo \in Maybe /\ r.ooo # r.c /\ r.ooo \notin Staged \cup Out \cup Sending
       /\ \A u \in Thread : u # t => {r.c, r.ooo} \cap Hand(thread[u]) = {}
       /\ Places(contPool'.free, Staged, Out, Sending, Hands')
       /\ contPool' \in [free : SUBSET Container, count : Int]
       /\ contPool'.count = Cardinality(Container \ contPool'.free)
  <2>1. CASE contPool' = contPool /\ r.ooo = thread[t].ooo
    <3>1. Hands' = Hands
      <4>1. \A u \in Thread : Hands'[u] = Hands[u]
        BY <1>2, <1>3, <1>7, <1>9, <2>1
      <4>2. DOMAIN Hands' = Thread /\ DOMAIN Hands = Thread
        BY DEF Hands
      <4> QED BY <1>2, <1>3, <1>7, <1>1, <2>1, HandsOf, <4>1, <4>2 DEF Hands
    <3>2. r.ooo \in Maybe /\ r.ooo # r.c /\ r.ooo \notin Staged \cup Out \cup Sending
      BY <1>2, <1>3, <1>4, <1>6, <2>1 DEF Maybe
    <3>3. \A u \in Thread : u # t => {r.c, r.ooo} \cap Hand(thread[u]) = {}
      BY <1>2, <1>3, <1>4, <1>6, <2>1
    <3> QED BY <1>8, <2>1, <3>1, <3>2, <3>3 DEF PlaceInv, PoolTypes
  <2>2. CASE thread[t].ooo = Nil /\ r.ooo \in contPool.free /\ contPool' = GetFrom(contPool, {r.ooo})
    <3>1. r.ooo \in Container /\ contPool.free \in SUBSET Container /\ contPool.count \in Int
      BY <2>2 DEF PoolTypes
    <3>2. contPool' = [free |-> contPool.free \ {r.ooo}, count |-> contPool.count + Cardinality({r.ooo})]
      BY <2>2 DEF GetFrom
    <3>3. Cardinality(Container \ (contPool.free \ {r.ooo})) = Cardinality(Container \ contPool.free) + 1
          /\ Cardinality({r.ooo}) = 1 /\ Cardinality(Container \ contPool.free) \in Nat
      BY <2>2, <3>1, TakenNames
    <3>4. /\ contPool'.free = contPool.free \ {r.ooo} /\ contPool'.count = contPool.count + 1
          /\ contPool' \in [free : SUBSET Container, count : Int]
      BY <3>1, <3>2, <3>3
    <3>5. contPool'.count = Cardinality(Container \ contPool'.free)
      BY <3>3, <3>4 DEF PlaceInv
    <3>6. r.ooo # r.c /\ r.ooo # Nil /\ r.ooo \in Maybe
      BY <1>2, <1>3, <1>4, <1>6, <2>2, <3>1 DEF Maybe
    <3>7. r.ooo \notin Staged \cup Out \cup Sending /\ \A u \in Thread : r.ooo \notin Hand(thread[u])
      BY <1>8, <1>9, <2>2 DEF Places
    <3>8. \A u \in Thread : u # t => {r.c, r.ooo} \cap Hand(thread[u]) = {}
      BY <1>2, <1>3, <1>4, <3>7
    <3>9. Hands'[t] = Hands[t] \cup {r.ooo}
      BY <1>2, <1>3, <1>7, <1>9, <2>2, <3>6
    <3> DEFINE pool == contPool'.free
    <3>10. pool = contPool.free \ {r.ooo}
      BY <3>4
    <3> HIDE DEF pool
    <3>11. Places(pool, Staged, Out, Sending, Hands')
      BY <1>8, <1>9, <2>2, <3>7, <3>9, <3>10 DEF Places
    <3> QED BY <3>4, <3>5, <3>6, <3>7, <3>8, <3>11 DEF pool
  <2> QED BY <2>1, <2>2 DEF LoopStep
<1>11. PlaceInv'
  BY <1>5, <1>10 DEF PlaceInv, LoopStep
<1>12. PoolTypes'
  BY <1>10 DEF PoolTypes, LoopStep
<1>13. QueueTypes' /\ PeerTypes' /\ SenderInv'
  BY <1>1 DEF QueueTypes, PeerTypes, SenderInv, LoopStep
<1>14. LockInv'
  <2>1. \A d \in Range(encryption) \cup Out \cup Sending : d \in Container /\ cont'[d] = cont[d]
    <3>1. \A d \in Range(encryption) : d \in Out \cup Sending
      BY DEF LockInv
    <3>2. \A d \in Out \cup Sending : d \in Container /\ d \notin {r.c, r.ooo}
      BY <1>2, <1>3, <1>4, <1>10, RawCooked DEF Cooked
    <3> QED BY <3>1, <3>2 DEF LoopStep
  <2>2. \A u \in Thread : u # t /\ thread[u].pc \in Done => cont'[thread[u].c] = cont[thread[u].c]
    <3>1. \A u \in Thread : thread[u].pc \in Done => thread[u].c \in Container /\ thread[u].c \in Hand(thread[u])
      BY HandFacts
    <3> QED BY <1>10, <3>1 DEF LoopStep
  <2>3. \A u \in Thread : thread[u].pc = "encryption" => cont'[thread[u].c] = cont[thread[u].c]
    BY <2>1 DEF LockInv
  <2>4. \A u \in Thread : thread'[u].pc = "encryption" => u # t
    BY <1>1 DEF LoopStep, Drawing
  <2>5. \A d \in Range(encryption') : cont'[d].locked /\ d \in Out' \cup Sending'
    BY <1>5, <2>1 DEF LockInv, LoopStep
  <2>6. \A u \in Thread : thread'[u].pc \in Done \cup {"encryption"} => cont'[thread'[u].c].locked
    <3> TAKE u \in Thread
    <3> HAVE thread'[u].pc \in Done \cup {"encryption"}
    <3>1. CASE u = t
      BY <1>1, <2>4, <3>1 DEF LoopStep
    <3>2. CASE u # t
      BY <1>1, <2>2, <2>3, <3>2 DEF LockInv
    <3> QED BY <3>1, <3>2
  <2>7. \A u \in Thread : thread'[u].pc = "encryption" =>
          thread'[u].c \in Out' \cup Sending' /\ thread'[u].c \notin Range(encryption')
    BY <1>1, <1>5, <2>4 DEF LockInv, LoopStep
  <2>8. \A u, v \in Thread : thread'[u].pc = "encryption" /\ thread'[v].pc = "encryption"
          /\ thread'[u].c = thread'[v].c => u = v
    BY <1>1, <2>4 DEF LockInv
  <2> QED BY <2>5, <2>6, <2>7, <2>8 DEF LockInv
<1>15. r.c \in Container /\ r.c \notin contPool.free \cup Staged \cup Out \cup Sending
  BY <1>2, <1>3, <1>4
<1> QED BY <1>1, <1>5, <1>10, <1>11, <1>12, <1>13, <1>14, <1>15

\* The other containers keep their elements.
LEMMA LoopOwn ==
    ASSUME Inv, NEW t \in Thread, Busy(t), NEW r, LoopStep(t, r)
    PROVE  /\ \A d \in Container : d \notin {r.c, r.ooo} => Own(d)' = Own(d) /\ Elems(d)' = Elems(d)
           /\ r.ooo # Nil => DrawnFor(r.ooo) = {} /\ DrawnFor(r.ooo)' = {}
           /\ DrawnFor(r.c)' = IF r.pc \in Drawing THEN {t} ELSE {}
<1> USE PartsOfInv
<1>1. /\ r.c \in Container /\ r.ooo \in Maybe /\ r.ooo # r.c /\ r.c = thread[t].c
      /\ thread'[t] = r /\ (\A u \in Thread : u # t => thread'[u] = thread[u])
      /\ \A u \in Thread : u # t => {r.c, r.ooo} \cap Hand(thread[u]) = {}
  BY LoopPlaces, ZenonT(60) DEF LoopStep
<1>2. \A u \in Thread : Busy(u) => thread[u].c \in Hand(thread[u])
  BY HandFacts
<1>3. \A u \in Thread : u # t /\ Busy(u)' => Busy(u) /\ thread'[u] = thread[u]
  BY <1>1 DEF Busy
<1>4. \A u \in Thread : u # t /\ Busy(u)' => thread'[u].c \notin {r.c, r.ooo}
  BY <1>1, <1>2, <1>3
<1>5. \A u \in Thread : u # t /\ Busy(u) => thread[u].c \notin {r.c, r.ooo}
  BY <1>1, <1>2
<1>6. ASSUME NEW d \in Container, d \notin {r.c, r.ooo} PROVE Own(d)' = Own(d) /\ Elems(d)' = Elems(d)
  <2>1. cont'[d] = cont[d]
    BY <1>6 DEF LoopStep
  <2>2. \A u \in Thread : u \in DrawnFor(d) \/ u \in DrawnFor(d)' => thread'[u] = thread[u]
    BY <1>1, <1>6 DEF DrawnFor
  <2>3. Elems(d)' = Elems(d)
    BY <2>1 DEF Elems
  <2> QED BY <2>1, <2>2, <2>3, OwnSame
<1>7. r.ooo # Nil => DrawnFor(r.ooo) = {} /\ DrawnFor(r.ooo)' = {}
  BY <1>1, <1>4, <1>5 DEF DrawnFor
<1>8. DrawnFor(r.c)' = IF r.pc \in Drawing THEN {t} ELSE {}
  BY <1>1, <1>4 DEF DrawnFor, Busy
<1> QED BY <1>6, <1>7, <1>8

\* Packets stay where they are and in order.
LEMMA LoopPackets ==
    ASSUME Inv, NEW t \in Thread, Busy(t), NEW r, LoopStep(t, r),
           \A e \in Own(r.c)' : e \in Own(r.c),
           r.ooo # Nil => \A e \in Own(r.ooo)' : e \in Own(r.c) \cup Own(r.ooo)
    PROVE  PacketInv' /\ OrderInv'
<1> USE PartsOfInv
<1>1. /\ r.c \in Container /\ r.ooo \in Maybe
      /\ r.c \notin Out \cup Sending /\ r.ooo \notin Out \cup Sending
      /\ Out' = Out /\ Sending' = Sending
  BY LoopPlaces
<1>2. UNCHANGED <<elemPool, outbound, sender, packets, queued, wire>>
      /\ \A e \in Elem : elem'[e].packet = elem[e].packet /\ elem'[e].sealed = elem[e].sealed
  BY DEF LoopStep
<1>3. \A d \in Out \cup Sending : d \in Container /\ cont'[d] = cont[d] /\ Elems(d)' = Elems(d)
  <2>1. \A d \in Container : d \notin {r.c, r.ooo} => Own(d)' = Own(d) /\ Elems(d)' = Elems(d)
    BY LoopOwn
  <2>2. \A d \in Container : d \notin {r.c, r.ooo} => cont'[d] = cont[d]
    BY DEF LoopStep
  <2>3. \A d \in Out \cup Sending : d \in Container
    BY RawCooked DEF Cooked
  <2> QED BY <1>1, <2>1, <2>2, <2>3
<1>4. Read' = Read
  BY <1>2 DEF Read
<1>5. Shares(elemPool.free, Owned) /\ \A d \in Container : Owned[d] = Own(d)
  BY DEF ElementInv, Owned
<1>6. \A d \in Out \cup Sending : Elems(d) = Own(d)
  BY NotDrawn, OwnFacts DEF Cooked
<1>7. \A d \in Out \cup Sending : Elems(d) \subseteq Elem
  BY <1>3, <1>5, <1>6 DEF Shares
<1>8. \A d \in Container \ (Out \cup Sending) : \A e \in Own(d) : e \in Elem /\ elem[e].packet \notin Range(queued)
  BY <1>5 DEF Shares, PacketInv
<1>9. \A d \in Container \ (Out \cup Sending) : \A e \in Own(d)' : e \in Elem /\ elem[e].packet \notin Range(queued)
  <2> TAKE d \in Container \ (Out \cup Sending)
  <2>1. CASE d = r.c
    BY <1>1, <1>8, <2>1
  <2>2. CASE d = r.ooo
    <3>1. d # Nil
      BY Facts
    <3> QED BY <1>1, <1>8, <2>2, <3>1
  <2>3. CASE d \notin {r.c, r.ooo}
    BY <1>8, <2>3, LoopOwn
  <2> QED BY <2>1, <2>2, <2>3
<1>10. PacketInv'
  <2>1. \A e \in Elem \ elemPool'.free : elem'[e].packet \in Read'
    BY <1>2, <1>4 DEF PacketInv
  <2>2. \A e, f \in Elem \ elemPool'.free : elem'[e].packet = elem'[f].packet => e = f
    BY <1>2 DEF PacketInv
  <2>3. queued' \in Seq(Int) /\ IsInjective(queued') /\ Range(queued') \subseteq Read'
    BY <1>2, <1>4 DEF PacketInv
  <2>4. \A d \in Out' \cup Sending' : \A e \in Elems(d)' :
          elem'[e].packet \in Range(queued') /\ (~cont'[d].locked => elem'[e].sealed)
    <3> TAKE d \in Out' \cup Sending'
    <3>1. d \in Out \cup Sending /\ Elems(d)' = Elems(d) /\ cont'[d] = cont[d] /\ Elems(d) \subseteq Elem
      BY <1>1, <1>3, <1>7
    <3>2. \A e \in Elems(d) : elem[e].packet \in Range(queued) /\ (~cont[d].locked => elem[e].sealed)
      BY <3>1 DEF PacketInv
    <3> QED BY <1>2, <3>1, <3>2
  <2>5. \A d \in Container \ (Out' \cup Sending') : \A e \in Own(d)' : elem'[e].packet \notin Range(queued')
    BY <1>1, <1>2, <1>9
  <2> QED BY <2>1, <2>2, <2>3, <2>4, <2>5 DEF PacketInv
<1>11. OrderKeeps
  <2>1. \A d \in Out' \cup Sending' : d \in Out \cup Sending /\ cont'[d].elems = cont[d].elems
          /\ \A e \in Elems(d) : elem'[e].packet = elem[e].packet
    BY <1>1, <1>2, <1>3, <1>7
  <2>2. /\ \A i, j \in DOMAIN outbound' : \A a, b \in Out' :
             i < j /\ outbound'[i] = a /\ outbound'[j] = b => Before(a, b)
        /\ \A a \in Sending', b \in Out' : Before(a, b)
    BY <1>1, <1>2 DEF OrderInv
  <2> QED BY <1>2, <2>1, <2>2 DEF OrderKeeps
<1> QED BY <1>10, <1>11, OrderKept

\* What the goroutines and their containers keep to.
LEMMA LoopThreads ==
    ASSUME Inv, NEW t \in Thread, Busy(t), NEW r, LoopStep(t, r), LocalOK(r),
           r.pc \in Drawing => LoopOK(r, cont'[r.c].elems),
           \A d \in Container \ {r.c, r.ooo} : \A e \in Own(d) : elem'[e] = elem[e],
           r.pc \in Drawing => \A e \in Range(r.kept) : elem'[e].key # NoKey,
           r.pc \in Drawing => \A e \in Rest(r, cont'[r.c].elems) : elem'[e].key = NoKey,
           r.pc \in Done => \A e \in Elems(r.c)' : elem'[e].key # NoKey,
           r.ooo # Nil => \A e \in Elems(r.ooo)' : elem'[e].key = NoKey,
           IsInjective(cont'[r.c].elems),
           r.ooo # Nil => IsInjective(cont'[r.ooo].elems) /\ cont'[r.ooo].elems # <<>>
    PROVE  ThreadInv' /\ KeyInv' /\ ContainerInv'
<1> USE PartsOfInv
<1>1. /\ r.c \in Container /\ r.ooo \in Maybe /\ r.ooo # r.c /\ r.c = thread[t].c
      /\ r.c \notin contPool.free \cup Staged \cup Out \cup Sending
      /\ r.ooo \notin Staged \cup Out \cup Sending
      /\ Staged' = Staged /\ Out' = Out /\ Sending' = Sending
      /\ thread'[t] = r /\ (\A u \in Thread : u # t => thread'[u] = thread[u])
      /\ \A u \in Thread : u # t => {r.c, r.ooo} \cap Hand(thread[u]) = {}
  BY LoopPlaces, ZenonT(60) DEF LoopStep
<1>2. \A d \in Container : d \notin {r.c, r.ooo} => cont'[d] = cont[d]
  BY DEF LoopStep
<1>3. \A u \in Thread : u # t /\ thread[u].pc \in Fresh \cup Done \cup Drawing =>
         thread[u].c \in Container /\ thread[u].c \notin {r.c, r.ooo}
  BY <1>1, HandFacts, ZenonT(60) DEF Busy
<1>4. \A u \in Thread : u # t /\ thread[u].pc \in Drawing \cup {"restage"} /\ thread[u].ooo # Nil =>
         thread[u].ooo \in Container /\ thread[u].ooo \notin {r.c, r.ooo}
  BY <1>1, HandFacts
<1>5. /\ \A d \in Raw' : (d = r.ooo /\ r.ooo # Nil) \/ (d \in Raw /\ d \in Container /\ d \notin {r.c, r.ooo})
      /\ \A d \in Cooked' : (d = r.c /\ r.pc \in Done) \/ (d \in Cooked /\ d \in Container /\ d \notin {r.c, r.ooo})
  <2>1. \A d \in Staged : d \in Raw /\ d \in Container /\ d \notin {r.c, r.ooo}
    BY <1>1, RawCooked DEF Raw
  <2>2. \A d \in Out \cup Sending : d \in Cooked /\ d \in Container /\ d \notin {r.c, r.ooo}
    BY <1>1, RawCooked DEF Cooked
  <2>3. r.pc \notin Fresh
    BY DEF LoopStep, Fresh, Drawing
  <2>4. \A u \in Thread : thread'[u].pc \in Fresh =>
          thread'[u].c \in Raw /\ thread'[u].c \in Container /\ thread'[u].c \notin {r.c, r.ooo}
    BY <1>1, <1>3, <2>3 DEF Raw
  <2>5. \A u \in Thread : u # t /\ thread'[u].pc \in Drawing \cup {"restage"} /\ thread'[u].ooo # Nil =>
          thread'[u].ooo \in Raw /\ thread'[u].ooo \in Container /\ thread'[u].ooo \notin {r.c, r.ooo}
    BY <1>1, <1>4 DEF Raw
  <2>6. \A u \in Thread : u # t /\ thread'[u].pc \in Done =>
          thread'[u].c \in Cooked /\ thread'[u].c \in Container /\ thread'[u].c \notin {r.c, r.ooo}
    BY <1>1, <1>3 DEF Cooked
  <2>7. \A d \in Raw' : (d = r.ooo /\ r.ooo # Nil) \/ (d \in Raw /\ d \in Container /\ d \notin {r.c, r.ooo})
    <3> TAKE d \in Raw'
    <3>1. \/ d \in Staged'
          \/ \E u \in Thread : thread'[u].pc \in Fresh /\ d = thread'[u].c
          \/ d # Nil /\ \E u \in Thread : thread'[u].pc \in Drawing \cup {"restage"} /\ d = thread'[u].ooo
      BY DEF Raw
    <3>2. CASE d \in Staged'
      BY <1>1, <2>1, <3>2
    <3>3. CASE \E u \in Thread : thread'[u].pc \in Fresh /\ d = thread'[u].c
      BY <2>4, <3>3
    <3>4. ASSUME d # Nil, NEW u \in Thread, thread'[u].pc \in Drawing \cup {"restage"}, d = thread'[u].ooo
          PROVE  (d = r.ooo /\ r.ooo # Nil) \/ (d \in Raw /\ d \in Container /\ d \notin {r.c, r.ooo})
      <4>1. CASE u = t
        BY <1>1, <3>4, <4>1
      <4>2. CASE u # t
        BY <2>5, <3>4, <4>2
      <4> QED BY <4>1, <4>2
    <3> QED BY <3>1, <3>2, <3>3, <3>4
  <2>8. \A d \in Cooked' : (d = r.c /\ r.pc \in Done) \/ (d \in Cooked /\ d \in Container /\ d \notin {r.c, r.ooo})
    <3> TAKE d \in Cooked'
    <3>1. d \in Out' \cup Sending' \/ \E u \in Thread : thread'[u].pc \in Done /\ d = thread'[u].c
      BY DEF Cooked
    <3>2. CASE d \in Out' \cup Sending'
      BY <1>1, <2>2, <3>2
    <3>3. ASSUME NEW u \in Thread, thread'[u].pc \in Done, d = thread'[u].c
          PROVE  (d = r.c /\ r.pc \in Done) \/ (d \in Cooked /\ d \in Container /\ d \notin {r.c, r.ooo})
      <4>1. CASE u = t
        BY <1>1, <3>3, <4>1
      <4>2. CASE u # t
        BY <2>6, <3>3, <4>2
      <4> QED BY <4>1, <4>2
    <3> QED BY <3>1, <3>2, <3>3
  <2> QED BY <2>7, <2>8
<1>6. \A d \in Raw \cup Cooked : Own(d) = Elems(d)
  BY NotDrawn, OwnFacts
<1>7. \A d \in Raw \cup Cooked : d \in Container /\ d \notin {r.c, r.ooo} =>
        Elems(d)' = Elems(d) /\ \A e \in Elems(d) : elem'[e] = elem[e]
  BY <1>6, LoopOwn
<1>8. \A u \in Thread : u # t /\ Busy(u)' =>
         Busy(u) /\ thread'[u] = thread[u] /\ cont'[thread[u].c] = cont[thread[u].c]
  BY <1>1, <1>2, <1>3 DEF Busy
<1>9. ThreadInv'
  <2>1. \A u \in Thread : LocalOK(thread'[u])
    BY <1>1 DEF ThreadInv
  <2>2. \A u \in Thread : Busy(u)' => LoopOK(thread'[u], cont'[thread'[u].c].elems)
    <3> TAKE u \in Thread
    <3> HAVE Busy(u)'
    <3>1. CASE u = t
      BY <1>1, <3>1 DEF Busy
    <3>2. CASE u # t
      BY <1>8, <3>2 DEF ThreadInv
    <3> QED BY <3>1, <3>2
  <2> QED BY <2>1, <2>2 DEF ThreadInv
<1>10. KeyInv'
  <2>1. \A d \in Raw' : \A e \in Elems(d)' : elem'[e].key = NoKey
    BY <1>5, <1>7 DEF KeyInv
  <2>2. \A d \in Cooked' : \A e \in Elems(d)' : elem'[e].key # NoKey
    BY <1>5, <1>7 DEF KeyInv
  <2>3. ASSUME NEW u \in Thread, Busy(u)'
        PROVE  /\ \A e \in Range(thread'[u].kept) : elem'[e].key # NoKey
               /\ \A e \in Rest(thread'[u], cont'[thread'[u].c].elems) : elem'[e].key = NoKey
    <3>1. CASE u = t
      BY <1>1, <2>3, <3>1 DEF Busy
    <3>2. CASE u # t
      <4>1. Busy(u) /\ thread'[u] = thread[u] /\ cont'[thread[u].c] = cont[thread[u].c]
        BY <1>8, <2>3, <3>2
      <4>2. thread[u].c \in Container \ {r.c, r.ooo} /\ DrawnFor(thread[u].c) = {u}
        BY <1>3, <3>2, <4>1, NotDrawn DEF Busy
      <4>3. Own(thread[u].c) = Range(thread[u].kept) \cup Rest(thread[u], cont[thread[u].c].elems)
        BY <4>2, OwnFacts
      <4>4. \A e \in Range(thread[u].kept) \cup Rest(thread[u], cont[thread[u].c].elems) : elem'[e] = elem[e]
        BY <4>2, <4>3
      <4> QED BY <4>1, <4>4 DEF KeyInv
    <3> QED BY <3>1, <3>2
  <2> QED BY <2>1, <2>2, <2>3 DEF KeyInv
<1>11. ContainerInv'
  <2>1. \A d \in Container : IsInjective(cont'[d].elems)
    <3> TAKE d \in Container
    <3>1. CASE d \in {r.c, r.ooo}
      BY <3>1, Facts
    <3>2. CASE d \notin {r.c, r.ooo}
      BY <1>2, <3>2 DEF ContainerInv
    <3> QED BY <3>1, <3>2
  <2>2. \A d \in contPool'.free : cont'[d].elems = <<>>
    <3>1. \A d \in contPool'.free : d \in contPool.free /\ d \in Container /\ d # r.ooo
      <4>1. CASE contPool' = contPool /\ r.ooo = thread[t].ooo
        <5>1. r.ooo # Nil => r.ooo \notin contPool.free
          BY <4>1, HandFacts DEF Busy
        <5> QED BY <4>1, <5>1, Facts DEF PoolTypes
      <4>2. CASE contPool' = GetFrom(contPool, {r.ooo})
        BY <4>2 DEF GetFrom, PoolTypes
      <4> QED BY <4>1, <4>2 DEF LoopStep
    <3> QED BY <1>1, <1>2, <3>1 DEF ContainerInv
  <2>3. \A d \in Raw' : cont'[d].elems # <<>>
    BY <1>2, <1>5 DEF ContainerInv
  <2> QED BY <2>1, <2>2, <2>3 DEF ContainerInv
<1> QED BY <1>9, <1>10, <1>11

\* The goroutine is at the next element, or has kept the container's elements.
Advances(t, r) ==
    /\ LocalOK(r) /\ r.key = thread[t].key /\ r.pc # "store"
    /\ r.pc = "nonce" => LoopOK(r, cont'[r.c].elems) /\ cont'[r.c].elems = cont[r.c].elems
                           /\ Rest(r, cont'[r.c].elems) = After(thread[t].i, cont[r.c].elems)
    /\ r.pc # "nonce" => cont'[r.c].elems = r.kept /\ cont'[r.c].locked
                           /\ After(thread[t].i, cont[r.c].elems) = {}

AtNext(s, pc, kept, ooo) == [s EXCEPT !.i = @ + 1, !.kept = kept, !.ooo = ooo, !.pc = pc]

LEMMA LocalNext ==
    \A s \in Local, pc \in Pc, kept \in Seq(Elem), ooo \in Maybe :
        /\ AtNext(s, pc, kept, ooo) \in Local
        /\ AtNext(s, pc, kept, ooo).c = s.c /\ AtNext(s, pc, kept, ooo).key = s.key
        /\ AtNext(s, pc, kept, ooo).kept = kept /\ AtNext(s, pc, kept, ooo).ooo = ooo
        /\ AtNext(s, pc, kept, ooo).i = s.i + 1 /\ AtNext(s, pc, kept, ooo).pc = pc
<1> TAKE s \in Local, pc \in Pc, kept \in Seq(Elem), ooo \in Maybe
<1>1. s.i \in Nat /\ s.i + 1 \in Nat
  BY DEF Local
<1> QED BY <1>1 DEF Local, AtNext

LEMMA NextElemFacts ==
    ASSUME Inv, NEW t \in Thread, Busy(t), NEW kept \in Seq(Elem), NEW ooo \in Maybe,
           NextElem(t, kept, ooo), IsInjective(kept), ooo # thread[t].c,
           Range(kept) \cap After(thread[t].i, cont[thread[t].c].elems) = {},
           IsLast(t) => cont'[thread[t].c].elems = kept /\ cont'[thread[t].c].locked,
           ~IsLast(t) => cont'[thread[t].c] = cont[thread[t].c]
    PROVE  \E r \in Local : /\ thread' = [thread EXCEPT ![t] = r]
                            /\ r.c = thread[t].c /\ r.kept = kept /\ r.ooo = ooo
                            /\ r.pc \in {"nonce", "restage", "check"} /\ (r.pc = "check" => r.ooo = Nil)
                            /\ Advances(t, r)
<1> DEFINE es == cont[thread[t].c].elems
           i == thread[t].i
           pc == IF ~IsLast(t) THEN "nonce" ELSE IF ooo = Nil THEN "check" ELSE "restage"
           r == [thread[t] EXCEPT !.i = @ + 1, !.kept = kept, !.ooo = ooo, !.pc = pc]
<1>1. thread[t] \in Local /\ thread[t].c # Nil /\ thread[t].key \in Key
      /\ i \in Nat /\ i <= Len(es) /\ Len(es) \in Nat /\ es \in Seq(Elem) /\ i \in DOMAIN es
  BY DrawFacts
<1>2. thread' = [thread EXCEPT ![t] = r]
  BY DEF NextElem, Becomes
<1>3. IsLast(t) <=> i = Len(es)
  BY DEF IsLast
<1>4. pc \in Pc
  BY DEF Pc
<1> HIDE DEF pc
<1>5. r = AtNext(thread[t], pc, kept, ooo)
  BY DEF AtNext
<1> HIDE DEF r
<1>6. /\ r \in Local /\ r.c = thread[t].c /\ r.key = thread[t].key /\ r.kept = kept /\ r.ooo = ooo
      /\ r.i = i + 1 /\ r.pc = pc
  BY <1>1, <1>4, <1>5, LocalNext
<1>7. LocalOK(r)
  <2>1. r.key # NoKey /\ r.c # Nil /\ r.ooo # r.c
    BY <1>1, <1>6, Facts
  <2> QED BY <1>6, <2>1 DEF LocalOK, Drawing, pc
<1>8. After(i, es) = {es[j] : j \in i + 1 .. Len(es)}
  BY DEF After
<1> HIDE DEF es, i
<1>9. CASE ~IsLast(t)
  <2>1. r.pc = "nonce" /\ cont'[r.c].elems = es /\ cont[r.c].elems = es
    BY <1>6, <1>9 DEF pc, es
  <2>2. i + 1 \in DOMAIN es
    BY <1>1, <1>3, <1>9
  <2>3. Rest(r, es) = After(i, es)
    BY <1>6, <1>8 DEF Rest
  <2>4. \A m \in DOMAIN kept, j \in i + 1 .. Len(es) : kept[m] # es[j]
    BY <1>8 DEF Range, es, i
  <2>5. LoopOK(r, es)
    BY <1>6, <2>2, <2>4 DEF LoopOK
  <2>6. Advances(t, r)
    BY <1>6, <1>7, <2>1, <2>3, <2>5 DEF Advances, i
  <2> QED BY <1>2, <1>6, <2>1, <2>6
<1>10. CASE IsLast(t)
  <2>1. r.pc \in {"restage", "check"} /\ (r.pc = "check" => r.ooo = Nil)
    BY <1>6, <1>10 DEF pc
  <2>2. After(i, es) = {}
    BY <1>1, <1>3, <1>8, <1>10
  <2>3. Advances(t, r)
    BY <1>6, <1>7, <1>10, <2>1, <2>2 DEF Advances, i, es
  <2> QED BY <1>2, <1>6, <2>1, <2>3
<1> QED BY <1>9, <1>10

LEMMA AdvanceOwn ==
    ASSUME Inv, NEW t \in Thread, Busy(t), NEW r, LoopStep(t, r), Advances(t, r)
    PROVE  /\ Own(r.c)' = Range(r.kept) \cup After(thread[t].i, cont[r.c].elems)
           /\ r.pc \in Drawing => LoopOK(r, cont'[r.c].elems)
                                    /\ Rest(r, cont'[r.c].elems) = After(thread[t].i, cont[r.c].elems)
           /\ r.pc \in Done => Elems(r.c)' = Range(r.kept)
<1>1. DrawnFor(r.c)' = (IF r.pc \in Drawing THEN {t} ELSE {}) /\ thread'[t] = r
  BY LoopOwn, LoopPlaces
<1>2. r.pc \in Drawing <=> r.pc = "nonce"
  BY DEF LoopStep, Advances, Drawing
<1>3. r.pc = "nonce" => Own(r.c)' = Range(r.kept) \cup After(thread[t].i, cont[r.c].elems)
  BY <1>1, <1>2 DEF Own, Advances
<1>4. r.pc # "nonce" => Elems(r.c)' = Range(r.kept)
  BY DEF Advances, Elems
<1>5. r.pc # "nonce" => Own(r.c)' = Range(r.kept) \cup After(thread[t].i, cont[r.c].elems)
  BY <1>1, <1>2, <1>4 DEF Own, Advances
<1> QED BY <1>2, <1>3, <1>4, <1>5 DEF Advances, Done

\* The nonce is below the limit: the element has it.
LEMMA AcceptedStep ==
    ASSUME Inv, NEW t \in Thread, AddNonce(t), Accepted(sendNonce[thread[t].key])
    PROVE  Inv'
<1> DEFINE c == thread[t].c
           es == cont[thread[t].c].elems
           k == thread[t].key
           n == sendNonce[thread[t].key]
           e == Current(t)
           kept == Append(thread[t].kept, Current(t))
           ooo == thread[t].ooo
<1> USE PartsOfInv
<1>1. Busy(t) /\ thread[t].pc = "nonce"
  BY DEF AddNonce, At, Busy, Drawing
<1>2. /\ sendNonce' = [sendNonce EXCEPT ![k] = (n + 1) % Counter]
      /\ elem' = [elem EXCEPT ![e].nonce = n, ![e].key = k]
      /\ NextElem(t, kept, ooo) /\ cont' = LockAfterLast(t, kept)
      /\ UNCHANGED <<elemPool, contPool, staged, outbound, encryption, sender, keys, control, packets, sealed,
                     queued, wire>>
  BY DEF AddNonce, history
<1>3. /\ thread[t] \in Local /\ c \in Container /\ c # Nil /\ k \in Key /\ thread[t].kept \in Seq(Elem)
      /\ ooo # c /\ ooo \in Maybe /\ es \in Seq(Elem)
      /\ IsInjective(thread[t].kept) /\ e \in Elem /\ e \notin Range(thread[t].kept)
      /\ e \notin After(thread[t].i, es) /\ elem[e].key = NoKey /\ e \notin elemPool.free
      /\ Own(c) = Range(thread[t].kept) \cup {e} \cup After(thread[t].i, es)
      /\ Range(thread[t].kept) \cap After(thread[t].i, es) = {}
      /\ \A d \in Container : d # c => e \notin Own(d)
  BY <1>1, DrawFacts DEF Maybe
<1>4. n \in Nat /\ n < RejectAfter /\ k # NoKey
  BY <1>3, Facts DEF Accepted, PeerTypes
<1> HIDE DEF e, n, k
<1>5. /\ sendNonce' \in [Key -> Nat] /\ sendNonce'[k] = n + 1 /\ n = sendNonce[k]
      /\ \A j \in Key : j # k => sendNonce'[j] = sendNonce[j]
  <2>1. (n + 1) % Counter = n + 1 /\ n + 1 \in Nat
    BY <1>4, Facts
  <2>2. n = sendNonce[k]
    BY DEF n, k
  <2> QED BY <1>2, <1>3, <2>1, <2>2 DEF PeerTypes
<1>6. /\ elem' \in [Elem -> Element] /\ elem'[e].nonce = n /\ elem'[e].key = k
      /\ elem'[e].packet = elem[e].packet /\ elem'[e].sealed = elem[e].sealed
      /\ \A f \in Elem : f # e => elem'[f] = elem[f]
  BY <1>2, <1>3, <1>4 DEF PoolTypes, Element
<1>7. /\ kept \in Seq(Elem) /\ IsInjective(kept) /\ Range(kept) = Range(thread[t].kept) \cup {e}
      /\ kept # <<>>
  BY <1>3, AppendFacts DEF e
<1> HIDE DEF kept
<1>8. Range(kept) \cap After(thread[t].i, es) = {} /\ Own(c) = Range(kept) \cup After(thread[t].i, es)
  BY <1>3, <1>7
<1>9. /\ IsLast(t) => cont'[c].elems = kept /\ cont'[c].locked
      /\ ~IsLast(t) => cont'[c] = cont[c]
      /\ \A d \in Container : d # c => cont'[d] = cont[d]
      /\ cont' \in [Container -> Box]
  <2> DEFINE box == [elems |-> kept, locked |-> TRUE]
  <2>1. box \in Box /\ box.elems = kept /\ box.locked
    BY <1>7 DEF Box
  <2>2. cont' = IF IsLast(t) THEN [cont EXCEPT ![c] = box] ELSE cont
    BY <1>2 DEF LockAfterLast
  <2> HIDE DEF box
  <2> QED BY <1>3, <2>1, <2>2 DEF PoolTypes
<1>10. PICK r \in Local : /\ thread' = [thread EXCEPT ![t] = r]
                          /\ r.c = c /\ r.kept = kept /\ r.ooo = ooo
                          /\ r.pc \in {"nonce", "restage", "check"} /\ (r.pc = "check" => r.ooo = Nil)
                          /\ Advances(t, r)
  BY <1>1, <1>2, <1>3, <1>7, <1>8, <1>9, NextElemFacts
<1>11. LoopStep(t, r)
  <2>1. \A f \in Elem : elem'[f].packet = elem[f].packet /\ elem'[f].sealed = elem[f].sealed
    BY <1>6
  <2>2. r.pc \in Done => cont'[r.c].locked
    BY <1>10 DEF Advances, Done
  <2>3. r.pc \in Drawing \cup {"restage", "check"}
    BY <1>10 DEF Drawing
  <2> QED BY <1>2, <1>5, <1>6, <1>9, <1>10, <2>1, <2>2, <2>3 DEF LoopStep
<1>12. /\ Own(r.c)' = Range(r.kept) \cup After(thread[t].i, cont[r.c].elems)
       /\ r.pc \in Drawing => LoopOK(r, cont'[r.c].elems)
                                /\ Rest(r, cont'[r.c].elems) = After(thread[t].i, cont[r.c].elems)
       /\ r.pc \in Done => Elems(r.c)' = Range(r.kept)
  BY <1>1, <1>10, <1>11, AdvanceOwn
<1>13. Own(c)' = Own(c)
  BY <1>8, <1>10, <1>12
<1>14. r.ooo # Nil => /\ r.ooo \in Container /\ Own(r.ooo)' = Own(r.ooo)
                      /\ Elems(r.ooo)' = Elems(r.ooo) /\ Elems(r.ooo) = Own(r.ooo)
                      /\ cont'[r.ooo] = cont[r.ooo] /\ r.ooo \in Raw
  <2> HAVE r.ooo # Nil
  <2>1. r.ooo \in Container /\ cont'[r.ooo] = cont[r.ooo]
    BY <1>3, <1>9, <1>10 DEF Maybe
  <2>2. DrawnFor(r.ooo) = {} /\ DrawnFor(r.ooo)' = {}
    BY <1>1, <1>11, LoopOwn
  <2>3. Elems(r.ooo)' = Elems(r.ooo)
    BY <2>1 DEF Elems
  <2>4. Own(r.ooo) = Elems(r.ooo) /\ Own(r.ooo)' = Elems(r.ooo)'
    BY <2>2 DEF Own
  <2>5. r.ooo \in Raw
    BY <1>1, <1>10 DEF Raw, Drawing
  <2> QED BY <2>1, <2>3, <2>4, <2>5
<1>15. \A d \in Container : Own(d)' = Own(d)
  <2>1. \A d \in Container : d \notin {r.c, r.ooo} => Own(d)' = Own(d)
    BY <1>1, <1>11, LoopOwn
  <2> QED BY <1>10, <1>13, <1>14, <2>1, Facts
<1>16. PoolTypes' /\ QueueTypes' /\ PeerTypes' /\ PlaceInv' /\ SenderInv' /\ LockInv'
  BY <1>1, <1>11, LoopPlaces
<1>17. PacketInv' /\ OrderInv'
  BY <1>1, <1>10, <1>11, <1>13, <1>14, LoopPackets
<1>18. ThreadInv' /\ KeyInv' /\ ContainerInv'
  <2>1. \A d \in Container \ {r.c, r.ooo} : \A f \in Own(d) : elem'[f] = elem[f]
    <3>1. \A d \in Container : Own(d) \subseteq Elem
      BY DEF ElementInv, Owned, Shares
    <3> QED BY <1>3, <1>6, <1>10, <3>1
  <2>2. \A f \in Range(thread[t].kept) : f \in Elem /\ elem[f].key # NoKey
    BY <1>1, <1>3 DEF KeyInv, Range
  <2>3. \A f \in Range(r.kept) : elem'[f].key # NoKey
    BY <1>4, <1>6, <1>7, <1>10, <2>2
  <2>4. r.pc \in Drawing => \A f \in Rest(r, cont'[r.c].elems) : elem'[f].key = NoKey
    <3>1. \A f \in After(thread[t].i, es) : f # e /\ f \in Elem /\ elem[f].key = NoKey
      <4>1. \A f \in After(thread[t].i, es) : f \in Rest(thread[t], cont[thread[t].c].elems) /\ f \in Elem
        <5>1. thread[t].i \in Nat /\ Len(es) \in Nat /\ \A j \in 1 .. Len(es) : es[j] \in Elem
          BY <1>1, <1>3, DrawFacts
        <5> QED BY <5>1 DEF After, Rest
      <4> QED BY <1>1, <1>3, <4>1 DEF KeyInv
    <3> QED BY <1>6, <1>10, <1>12, <3>1
  <2>5. r.pc \in Done => \A f \in Elems(r.c)' : elem'[f].key # NoKey
    BY <1>12, <2>3
  <2>6. r.ooo # Nil => \A f \in Elems(r.ooo)' : elem'[f].key = NoKey
    <3> HAVE r.ooo # Nil
    <3>1. \A f \in Elems(r.ooo) : f \in Elem /\ elem[f].key = NoKey /\ f # e
      <4>1. \A f \in Elems(r.ooo) : elem[f].key = NoKey
        BY <1>14 DEF KeyInv
      <4>2. Own(r.ooo) \subseteq Elem
        BY <1>14 DEF ElementInv, Owned, Shares
      <4> QED BY <1>3, <1>10, <1>14, <4>1, <4>2
    <3> QED BY <1>6, <1>14, <3>1
  <2>7. IsInjective(cont'[r.c].elems)
    <3>1. IsInjective(cont[c].elems)
      BY <1>3 DEF ContainerInv
    <3> QED BY <1>7, <1>9, <1>10, <3>1
  <2>8. r.ooo # Nil => IsInjective(cont'[r.ooo].elems) /\ cont'[r.ooo].elems # <<>>
    BY <1>14 DEF ContainerInv
  <2>9. LocalOK(r)
    BY <1>10 DEF Advances
  <2> QED BY <1>1, <1>11, <1>12, <2>1, <2>3, <2>4, <2>5, <2>6, <2>7, <2>8, <2>9, LoopThreads
<1>19. ElementInv'
  <2>1. Owned' = Owned
    BY <1>15 DEF Owned
  <2> QED BY <1>2, <2>1 DEF ElementInv
<1>20. CounterInv'
  <2> SUFFICES ASSUME NEW j \in Key PROVE sendNonce'[j] <= RejectAfter + Cardinality(Storing(j))'
    BY DEF CounterInv
  <2>1. /\ thread'[t] = r /\ \A u \in Thread : u # t => thread'[u] = thread[u]
    BY <1>1, <1>11, LoopPlaces
  <2>2. r.pc # "store" /\ thread[t].pc # "store"
    BY <1>1, <1>10
  <2>3. Storing(j)' = Storing(j)
    BY <2>1, <2>2 DEF Storing
  <2>4. Storing(j) \subseteq Thread
    BY DEF Storing
  <2>5. Cardinality(Storing(j)) \in Nat
    BY <2>4, Facts, FS_Subset, FS_CardinalityType
  <2>6. Cardinality(Storing(j))' = Cardinality(Storing(j))
    BY <2>3
  <2>7. sendNonce[j] <= RejectAfter + Cardinality(Storing(j))
    BY DEF CounterInv
  <2> DEFINE x == Cardinality(Storing(j))
  <2> HIDE DEF x
  <2>8. x \in Nat /\ sendNonce[j] <= RejectAfter + x
    BY <2>5, <2>7 DEF x
  <2>9. CASE j = k
    <3>1. n + 1 <= RejectAfter + x
      BY <1>4, <2>8, Facts
    <3> QED BY <1>5, <2>6, <2>9, <3>1 DEF x
  <2>10. CASE j # k
    BY <1>5, <2>6, <2>8, <2>10 DEF x
  <2> QED BY <2>9, <2>10
<1>21. NonceInv'
  <2>1. \A m \in Nat, j \in Key : Used(m, sendNonce[j]) => Used(m, sendNonce'[j])
    <3> TAKE m \in Nat, j \in Key
    <3>1. CASE j = k
      <4>1. Used(m, n) => Used(m, n + 1)
        BY <1>4, Facts DEF Used
      <4> QED BY <1>5, <3>1, <4>1
    <3>2. CASE j # k
      BY <1>5, <3>2
    <3> QED BY <3>1, <3>2
  <2>2. ~Used(n, sendNonce[k]) /\ Used(n, sendNonce'[k])
    BY <1>4, <1>5, Facts DEF Used
  <2>3. \A f \in Elem : elem[f].key # NoKey => elem[f].key \in Key /\ elem[f].nonce \in Nat
    BY DEF PoolTypes, Element
  <2>4. \A f \in Elem : elem'[f].key # NoKey => Used(elem'[f].nonce, sendNonce'[elem'[f].key])
    BY <1>6, <2>1, <2>2, <2>3 DEF NonceInv
  <2>5. \A f \in Elem : ~(elem[f].key = k /\ elem[f].nonce = n)
    BY <1>4, <2>2 DEF NonceInv
  <2>6. \A f, g \in Elem : elem'[f].key # NoKey /\ elem'[f].key = elem'[g].key
          /\ elem'[f].nonce = elem'[g].nonce => f = g
    BY <1>6, <2>5 DEF NonceInv
  <2>7. \A a \in sealed : ~(a[1] = k /\ a[2] = n)
    BY <2>2 DEF NonceInv
  <2>8. \A a \in sealed' : a[1] \in Key /\ a[2] \in Nat /\ Used(a[2], sendNonce'[a[1]])
    BY <1>2, <2>1 DEF NonceInv
  <2>9. \A a \in sealed', f \in Elem : a[1] = elem'[f].key /\ a[2] = elem'[f].nonce =>
          a = <<elem'[f].key, elem'[f].nonce, elem'[f].packet>>
    BY <1>2, <1>6, <2>7 DEF NonceInv
  <2>10. NonceOnce'
    BY <1>2 DEF NonceInv, NonceOnce
  <2> QED BY <2>4, <2>6, <2>8, <2>9, <2>10 DEF NonceInv
<1> QED BY <1>16, <1>17, <1>18, <1>19, <1>20, <1>21, InvFromParts

\* The limit is reached: Storing grows before the counter is put back.
LEMMA RefusedStep ==
    ASSUME Inv, NEW t \in Thread, AddNonce(t), ~Accepted(sendNonce[thread[t].key])
    PROVE  Inv'
<1> DEFINE c == thread[t].c
           es == cont[thread[t].c].elems
           k == thread[t].key
           n == sendNonce[thread[t].key]
           e == Current(t)
           next == [thread[t] EXCEPT !.pc = "store"]
<1> USE PartsOfInv
<1>1. Busy(t) /\ thread[t].pc = "nonce"
  BY DEF AddNonce, At, Busy, Drawing
<1>2. /\ sendNonce' = [sendNonce EXCEPT ![k] = (n + 1) % Counter]
      /\ elem' = [elem EXCEPT ![e].nonce = n, ![e].key = elem[e].key]
      /\ Goto(t, "store") /\ UNCHANGED cont
      /\ UNCHANGED <<elemPool, contPool, staged, outbound, encryption, sender, keys, control, packets, sealed,
                     queued, wire>>
  <2>1. elem' = [elem EXCEPT ![e].nonce = n, ![e].key = @]
    BY DEF AddNonce
  <2> QED BY <2>1 DEF AddNonce, history
<1>3. /\ thread[t] \in Local /\ c \in Container /\ c # Nil /\ k \in Key /\ thread[t].kept \in Seq(Elem)
      /\ thread[t].ooo # c /\ e \in Elem /\ elem[e].key = NoKey /\ DrawnFor(c) = {t}
      /\ IsInjective(es) /\ \A d \in Container : d # c => e \notin Own(d)
  BY <1>1, DrawFacts
<1>4. n \in Nat /\ n >= RejectAfter
  BY <1>3, Facts, SMTT(40) DEF Accepted, PeerTypes
<1>5. PICK r \in Local :
        /\ r.pc = "store" /\ r.c = c /\ r.ooo = thread[t].ooo /\ r.key = k
        /\ r.i = thread[t].i /\ r.kept = thread[t].kept
        /\ thread' = [thread EXCEPT ![t] = r]
  <2>1. next \in Local /\ next.pc = "store" /\ next.c = c /\ next.ooo = thread[t].ooo /\ next.key = k
        /\ next.i = thread[t].i /\ next.kept = thread[t].kept
    BY <1>3, LocalPc, ZenonT(60) DEF Pc
  <2>2. thread' = [thread EXCEPT ![t] = next]
    BY <1>2 DEF Goto
  <2> HIDE DEF next
  <2> QED BY <2>1, <2>2
<1> HIDE DEF e, n, k, c, es, next
<1>7. \A j \in Key : Storing(j) \subseteq Thread /\ IsFiniteSet(Storing(j)) /\ Cardinality(Storing(j)) \in Nat
  <2> TAKE j \in Key
  <2>1. Storing(j) \subseteq Thread
    BY DEF Storing
  <2> QED BY <2>1, Facts, FS_Subset, FS_CardinalityType
<1>8. Cardinality(Storing(k)) + 1 <= Cardinality(Thread) /\ t \notin Storing(k)
      /\ Cardinality(Storing(k) \cup {t}) = Cardinality(Storing(k)) + 1
  <2>1. t \notin Storing(k)
    BY <1>1 DEF Storing
  <2>2. Cardinality(Storing(k) \cup {t}) = Cardinality(Storing(k)) + 1
    BY <1>3, <1>7, <2>1, FS_AddElement
  <2>3. Storing(k) \cup {t} \subseteq Thread
    BY <1>3, <1>7
  <2>4. Cardinality(Storing(k) \cup {t}) <= Cardinality(Thread)
    BY <2>3, Facts, FS_Subset
  <2> QED BY <2>1, <2>2, <2>4
<1>9. /\ sendNonce' \in [Key -> Nat] /\ sendNonce'[k] = n + 1 /\ n = sendNonce[k]
      /\ \A j \in Key : j # k => sendNonce'[j] = sendNonce[j]
  <2>1. n = sendNonce[k]
    BY DEF n, k
  <2>2. n <= RejectAfter + Cardinality(Storing(k))
    BY <1>3, <2>1 DEF CounterInv
  <2> DEFINE x == Cardinality(Storing(k))
             y == Cardinality(Thread)
  <2>3. x \in Nat /\ y \in Nat /\ x + 1 <= y /\ n <= RejectAfter + x /\ Counter > RejectAfter + y
    BY <1>3, <1>7, <1>8, <2>2, Facts
  <2> HIDE DEF x, y
  <2>5. n + 1 \in 0 .. Counter - 1 /\ Counter \in Nat
    BY <1>4, <2>3, Facts
  <2>4. (n + 1) % Counter = n + 1 /\ n + 1 \in Nat
    BY <2>5
  <2> QED BY <1>2, <1>3, <2>1, <2>4 DEF PeerTypes
<1>10. /\ elem' \in [Elem -> Element] /\ elem'[e].key = NoKey
       /\ elem'[e].packet = elem[e].packet /\ elem'[e].sealed = elem[e].sealed
       /\ \A f \in Elem : f # e => elem'[f] = elem[f]
  BY <1>2, <1>3, <1>4 DEF PoolTypes, Element
<1>11. LoopStep(t, r)
  <2>1. \A f \in Elem : elem'[f].packet = elem[f].packet /\ elem'[f].sealed = elem[f].sealed
    BY <1>10
  <2>2. r.pc \in Drawing /\ r.pc \notin Done /\ r.pc # "check"
    BY <1>5 DEF Drawing, Done
  <2>3. r.c = thread[t].c
    BY <1>5 DEF c
  <2>4. cont' \in [Container -> Box] /\ \A d \in Container : cont'[d] = cont[d]
    BY <1>2 DEF PoolTypes
  <2>5. sendNonce' \in [Key -> Nat] /\ elem' \in [Elem -> Element]
    BY <1>9, <1>10
  <2> QED BY <1>2, <1>5, <2>1, <2>2, <2>3, <2>4, <2>5 DEF LoopStep
<1>12. /\ thread'[t] = r /\ \A u \in Thread : u # t => thread'[u] = thread[u]
  BY <1>1, <1>11, LoopPlaces
<1>13. \A es1 : Rest(r, es1) = Rest(thread[t], es1)
  BY <1>5 DEF Rest
<1>14. Own(r.c)' = Own(r.c) /\ Own(r.c) = Range(thread[t].kept) \cup Rest(thread[t], cont[thread[t].c].elems)
  <2>1. DrawnFor(r.c)' = {t}
    BY <1>1, <1>5, <1>11, LoopOwn DEF Drawing
  <2>2. Own(r.c)' = Range(r.kept) \cup Rest(r, cont'[r.c].elems)
    BY <1>12, <2>1 DEF Own
  <2>3. Own(thread[t].c) = Range(thread[t].kept) \cup Rest(thread[t], cont[thread[t].c].elems)
    BY <1>3, OwnFacts DEF c
  <2>4. r.c = thread[t].c
    BY <1>5 DEF c
  <2> QED BY <1>2, <1>5, <1>13, <2>2, <2>3, <2>4
<1>15. r.ooo # Nil => /\ r.ooo \in Container /\ Own(r.ooo)' = Own(r.ooo)
                      /\ Elems(r.ooo)' = Elems(r.ooo) /\ Elems(r.ooo) = Own(r.ooo)
                      /\ r.ooo \in Raw
  <2> HAVE r.ooo # Nil
  <2>1. r.ooo \in Container
    BY <1>1, <1>5, HandFacts DEF Drawing
  <2>2. DrawnFor(r.ooo) = {} /\ DrawnFor(r.ooo)' = {}
    BY <1>1, <1>11, LoopOwn
  <2>3. Elems(r.ooo)' = Elems(r.ooo)
    BY <1>2 DEF Elems
  <2>4. Own(r.ooo) = Elems(r.ooo) /\ Own(r.ooo)' = Elems(r.ooo)'
    BY <2>2 DEF Own
  <2>5. r.ooo \in Raw
    BY <1>1, <1>5 DEF Raw, Drawing
  <2> QED BY <2>1, <2>3, <2>4, <2>5
<1>16. \A d \in Container : Own(d)' = Own(d)
  <2>1. \A d \in Container : d \notin {r.c, r.ooo} => Own(d)' = Own(d)
    BY <1>1, <1>11, LoopOwn
  <2> QED BY <1>5, <1>14, <1>15, <2>1, Facts
<1>17. PoolTypes' /\ QueueTypes' /\ PeerTypes' /\ PlaceInv' /\ SenderInv' /\ LockInv'
  BY <1>1, <1>11, LoopPlaces
<1>18. PacketInv' /\ OrderInv'
  BY <1>1, <1>5, <1>11, <1>14, <1>15, LoopPackets
<1>19. \A f \in Elem : elem'[f].key = elem[f].key /\ (elem[f].key # NoKey => elem'[f] = elem[f])
  BY <1>3, <1>10
<1>20. ThreadInv' /\ KeyInv' /\ ContainerInv'
  <2>0. \A d \in Container : Own(d) \subseteq Elem
    BY DEF ElementInv, Owned, Shares
  <2>1. \A d \in Container \ {r.c, r.ooo} : \A f \in Own(d) : elem'[f] = elem[f]
    BY <1>3, <1>5, <1>10, <2>0
  <2>2. /\ \A f \in Range(thread[t].kept) : f \in Elem /\ elem[f].key # NoKey
        /\ \A f \in Rest(thread[t], cont[c].elems) : f \in Elem /\ elem[f].key = NoKey
    <3>1. Range(thread[t].kept) \cup Rest(thread[t], cont[c].elems) \subseteq Elem
      BY <1>3, <1>5, <1>14, <2>0 DEF c
    <3> QED BY <1>1, <1>3, <3>1 DEF KeyInv, c
  <2>3. \A f \in Range(r.kept) : elem'[f].key # NoKey
    BY <1>5, <1>19, <2>2
  <2>4. \A f \in Rest(r, cont'[r.c].elems) : elem'[f].key = NoKey
    BY <1>2, <1>5, <1>13, <1>19, <2>2
  <2>5. r.pc \notin Done
    BY <1>5 DEF Done
  <2>6. r.ooo # Nil => \A f \in Elems(r.ooo)' : elem'[f].key = NoKey
    BY <1>15, <1>19, <2>0 DEF KeyInv
  <2>7. IsInjective(cont'[r.c].elems)
    BY <1>2, <1>3, <1>5 DEF es, c
  <2>8. r.ooo # Nil => IsInjective(cont'[r.ooo].elems) /\ cont'[r.ooo].elems # <<>>
    BY <1>2, <1>15 DEF ContainerInv
  <2>9. LocalOK(r)
    BY <1>1, <1>3, <1>5, Facts DEF LocalOK, Drawing
  <2>10. LoopOK(r, cont'[r.c].elems)
    <3>1. LoopOK(thread[t], cont[thread[t].c].elems)
      BY <1>1 DEF ThreadInv
    <3>2. cont'[r.c].elems = cont[thread[t].c].elems
      BY <1>2, <1>5 DEF c
    <3>3. r.i = thread[t].i /\ r.kept = thread[t].kept
      BY <1>5
    <3> QED BY <3>1, <3>2, <3>3 DEF LoopOK
  <2> QED BY <1>1, <1>11, <2>1, <2>3, <2>4, <2>5, <2>6, <2>7, <2>8, <2>9, <2>10, LoopThreads
<1>21. ElementInv'
  <2>1. Owned' = Owned
    BY <1>16 DEF Owned
  <2> QED BY <1>2, <2>1 DEF ElementInv
<1>22. CounterInv'
  <2> SUFFICES ASSUME NEW j \in Key PROVE sendNonce'[j] <= RejectAfter + Cardinality(Storing(j))'
    BY DEF CounterInv
  <2>1. sendNonce[j] <= RejectAfter + Cardinality(Storing(j)) /\ Cardinality(Storing(j)) \in Nat
    BY <1>7 DEF CounterInv
  <2>2. CASE j = k
    <3>1. Storing(j)' = Storing(j) \cup {t}
      BY <1>3, <1>5, <1>12, <2>2 DEF Storing
    <3>2. Cardinality(Storing(j))' = Cardinality(Storing(j)) + 1
      BY <1>8, <2>2, <3>1
    <3> DEFINE x == Cardinality(Storing(j))
    <3> HIDE DEF x
    <3>3. x \in Nat /\ n <= RejectAfter + x
      BY <1>9, <2>1, <2>2 DEF x
    <3>4. n + 1 <= RejectAfter + (x + 1)
      BY <1>4, <3>3, Facts
    <3> QED BY <1>9, <2>2, <3>2, <3>4 DEF x
  <2>3. CASE j # k
    <3>1. Storing(j)' = Storing(j)
      BY <1>1, <1>5, <1>12, <2>3 DEF Storing
    <3>2. Cardinality(Storing(j))' = Cardinality(Storing(j))
      BY <3>1
    <3> QED BY <1>9, <2>1, <2>3, <3>2
  <2> QED BY <2>2, <2>3
<1>23. NonceInv'
  <2>1. \A m \in Nat, j \in Key : Used(m, sendNonce[j]) => Used(m, sendNonce'[j])
    <3> TAKE m \in Nat, j \in Key
    <3>1. CASE j = k
      <4>1. Used(m, n) => Used(m, n + 1)
        BY <1>4, Facts DEF Used
      <4> QED BY <1>9, <3>1, <4>1
    <3>2. CASE j # k
      BY <1>9, <3>2
    <3> QED BY <3>1, <3>2
  <2>2. \A f \in Elem : elem[f].key # NoKey => elem[f].key \in Key /\ elem[f].nonce \in Nat
    BY DEF PoolTypes, Element
  <2>3. \A f \in Elem : elem'[f].key # NoKey => Used(elem'[f].nonce, sendNonce'[elem'[f].key])
    BY <1>19, <2>1, <2>2 DEF NonceInv
  <2>4. \A f, g \in Elem : elem'[f].key # NoKey /\ elem'[f].key = elem'[g].key
          /\ elem'[f].nonce = elem'[g].nonce => f = g
    BY <1>19 DEF NonceInv
  <2>5. \A a \in sealed' : a[1] \in Key /\ a[2] \in Nat /\ Used(a[2], sendNonce'[a[1]])
    BY <1>2, <2>1 DEF NonceInv
  <2>6. \A a \in sealed : a[1] # NoKey
    BY Facts DEF NonceInv
  <2>7. \A a \in sealed', f \in Elem : a[1] = elem'[f].key /\ a[2] = elem'[f].nonce =>
          a = <<elem'[f].key, elem'[f].nonce, elem'[f].packet>>
    <3> TAKE a \in sealed', f \in Elem
    <3> HAVE a[1] = elem'[f].key /\ a[2] = elem'[f].nonce
    <3>1. a \in sealed /\ a[1] # NoKey
      BY <1>2, <2>6
    <3>2. elem'[f] = elem[f]
      BY <1>19, <3>1
    <3> QED BY <3>1, <3>2 DEF NonceInv
  <2>8. NonceOnce'
    BY <1>2 DEF NonceInv, NonceOnce
  <2> QED BY <2>3, <2>4, <2>5, <2>7, <2>8 DEF NonceInv
<1> QED BY <1>17, <1>18, <1>20, <1>21, <1>22, <1>23, InvFromParts

\* An element moves from one container to another.
LEMMA MovedElement ==
    ASSUME NEW c \in Container, NEW x \in Container, c # x, NEW e \in Elem, e \in Owned[c],
           Shares(elemPool.free, Owned),
           Owned'[c] = Owned[c] \ {e}, Owned'[x] = Owned[x] \cup {e},
           \A d \in Container : d \notin {c, x} => Owned'[d] = Owned[d]
    PROVE  Shares(elemPool.free, Owned')
<1> DEFINE own == Owned
           new == Owned'
           free == elemPool.free
<1> HIDE DEF own, new, free
<1>1. /\ e \in own[c] /\ Shares(free, own) /\ new[c] = own[c] \ {e} /\ new[x] = own[x] \cup {e}
      /\ \A d \in Container : d \notin {c, x} => new[d] = own[d]
  BY DEF own, new, free
<1>2. e \notin free /\ \A d \in Container : d # c => e \notin own[d]
  BY <1>1 DEF Shares
<1>3. \A d \in Container : new[d] \subseteq Elem /\ new[d] \cap free = {}
  <2> TAKE d \in Container
  <2>1. own[d] \subseteq Elem /\ own[d] \cap free = {}
    BY <1>1 DEF Shares
  <2> QED BY <1>1, <1>2, <2>1
<1>4. \A d, f \in Container : d # f => new[d] \cap new[f] = {}
  <2> TAKE d, f \in Container
  <2> HAVE d # f
  <2>1. own[d] \cap own[f] = {}
    BY <1>1 DEF Shares
  <2>2. \A g \in Container : new[g] \subseteq own[g] \cup {e} /\ (e \in new[g] => g = x)
    BY <1>1, <1>2
  <2> QED BY <2>1, <2>2
<1>5. \A f \in Elem : f \in free \/ \E d \in Container : f \in new[d]
  <2> TAKE f \in Elem
  <2>1. CASE f = e
    BY <1>1, <2>1
  <2>2. CASE f # e
    <3>1. f \in free \/ \E d \in Container : f \in own[d]
      BY <1>1 DEF Shares
    <3>2. \A d \in Container : f \in own[d] => f \in new[d]
      BY <1>1, <2>2
    <3> QED BY <3>1, <3>2
  <2> QED BY <2>1, <2>2
<1>6. Shares(free, new)
  BY <1>3, <1>4, <1>5 DEF Shares
<1> QED BY <1>6 DEF new, free

\* The counter is put back and the element goes to elemsContainerOOO.
LEMMA StoreStep ==
    ASSUME Inv, NEW t \in Thread, StoreNonce(t)
    PROVE  Inv'
<1> DEFINE c == thread[t].c
           es == cont[thread[t].c].elems
           k == thread[t].key
           e == Current(t)
           kept == thread[t].kept
<1> USE PartsOfInv
<1>1. Busy(t) /\ thread[t].pc = "store"
  BY DEF StoreNonce, At, Busy, Drawing
<1>2. /\ sendNonce' = [sendNonce EXCEPT ![k] = RejectAfter]
      /\ UNCHANGED <<elem, elemPool, staged, outbound, encryption, sender, keys, control, packets, sealed,
                     queued, wire>>
  BY DEF StoreNonce, StoreLimit, history
<1>3. PICK x \in IF thread[t].ooo = Nil THEN contPool.free ELSE {thread[t].ooo} :
        /\ contPool' = IF thread[t].ooo = Nil THEN GetFrom(contPool, {x}) ELSE contPool
        /\ cont' = [LockAfterLast(t, kept) EXCEPT ![x].elems = Append(@, e)]
        /\ NextElem(t, kept, x)
  BY DEF StoreNonce
<1>4. /\ thread[t] \in Local /\ c \in Container /\ c # Nil /\ k \in Key /\ kept \in Seq(Elem)
      /\ thread[t].ooo # c /\ (thread[t].ooo = Nil \/ thread[t].ooo \in Container) /\ es \in Seq(Elem)
      /\ IsInjective(es)
      /\ IsInjective(kept) /\ e \in Elem /\ e \notin Range(kept)
      /\ e \notin After(thread[t].i, es) /\ elem[e].key = NoKey /\ e \in Own(c)
      /\ Own(c) = Range(kept) \cup {e} \cup After(thread[t].i, es)
      /\ Range(kept) \cap After(thread[t].i, es) = {}
      /\ \A d \in Container : d # c => e \notin Own(d)
  BY <1>1, DrawFacts
<1>5. x \in Container /\ x # c /\ x \in Maybe /\ x # Nil
  <2>1. CASE thread[t].ooo = Nil
    <3>1. x \in contPool.free /\ x \in Container
      BY <1>3, <2>1 DEF PoolTypes
    <3>2. c \notin contPool.free
      BY <1>1, HandFacts
    <3> QED BY <3>1, <3>2, Facts DEF Maybe
  <2>2. CASE thread[t].ooo # Nil
    BY <1>3, <1>4, <2>2, Facts DEF Maybe
  <2> QED BY <2>1, <2>2
<1> HIDE DEF e
<1>6. /\ DrawnFor(x) = {} /\ Own(x) = Elems(x) /\ e \notin Elems(x)
      /\ \A f \in Elems(x) : elem[f].key = NoKey
      /\ cont[x].elems \in Seq(Elem) /\ IsInjective(cont[x].elems)
  <2>1. x \in contPool.free \/ x \in Raw
    BY <1>1, <1>3 DEF Raw, Drawing
  <2>2. DrawnFor(x) = {}
    BY <2>1, NotDrawn
  <2>3. Own(x) = Elems(x)
    BY <2>2, OwnFacts
  <2>4. \A f \in Elems(x) : elem[f].key = NoKey
    <3>1. CASE x \in contPool.free
      BY <3>1, EmptyFacts DEF ContainerInv, Elems
    <3>2. CASE x \in Raw
      BY <3>2 DEF KeyInv
    <3> QED BY <2>1, <3>1, <3>2
  <2>5. cont[x].elems \in Seq(Elem) /\ IsInjective(cont[x].elems)
    BY <1>5 DEF PoolTypes, Box, ContainerInv
  <2> QED BY <1>4, <1>5, <2>2, <2>3, <2>4, <2>5
<1>7. PICK more \in Seq(Elem) : /\ more = Append(cont[x].elems, e) /\ more # <<>> /\ IsInjective(more)
                                /\ Range(more) = Elems(x) \cup {e}
  <2>1. e \notin Range(cont[x].elems) /\ e \in Elem /\ Range(cont[x].elems) = Elems(x)
    BY <1>4, <1>6 DEF Elems
  <2>2. /\ Append(cont[x].elems, e) \in Seq(Elem) /\ Append(cont[x].elems, e) # <<>>
        /\ IsInjective(Append(cont[x].elems, e))
        /\ Range(Append(cont[x].elems, e)) = Elems(x) \cup {e}
    BY <1>6, <2>1, AppendFacts
  <2> QED BY <2>2
<1>8. /\ cont' \in [Container -> Box] /\ cont'[x].elems = more
      /\ IsLast(t) => cont'[c].elems = kept /\ cont'[c].locked
      /\ ~IsLast(t) => cont'[c] = cont[c]
      /\ \A d \in Container : d \notin {c, x} => cont'[d] = cont[d]
  <2> DEFINE box == [elems |-> kept, locked |-> TRUE]
             mid == LockAfterLast(t, kept)
  <2>1. box \in Box /\ box.elems = kept /\ box.locked
    BY <1>4 DEF Box
  <2>2. mid = IF IsLast(t) THEN [cont EXCEPT ![c] = box] ELSE cont
    BY DEF LockAfterLast
  <2> HIDE DEF box
  <2>3. /\ mid \in [Container -> Box] /\ mid[x] = cont[x] /\ \A d \in Container : d # c => mid[d] = cont[d]
        /\ IsLast(t) => mid[c].elems = kept /\ mid[c].locked
        /\ ~IsLast(t) => mid[c] = cont[c]
    BY <1>4, <1>5, <2>1, <2>2 DEF PoolTypes
  <2>4. cont' = [mid EXCEPT ![x].elems = Append(@, e)]
    BY <1>3
  <2> HIDE DEF mid
  <2>5. cont' = [mid EXCEPT ![x].elems = more]
    BY <1>7, <2>3, <2>4
  <2> QED BY <1>4, <1>5, <2>3, <2>5 DEF Box
<1>9. PICK r \in Local : /\ thread' = [thread EXCEPT ![t] = r]
                         /\ r.c = c /\ r.kept = kept /\ r.ooo = x
                         /\ r.pc \in {"nonce", "restage", "check"} /\ (r.pc = "check" => r.ooo = Nil)
                         /\ Advances(t, r)
  <2>1. NextElem(t, kept, x)
    BY <1>3
  <2>2. /\ kept \in Seq(Elem) /\ IsInjective(kept) /\ x \in Maybe /\ x # thread[t].c
        /\ Range(kept) \cap After(thread[t].i, cont[thread[t].c].elems) = {}
    BY <1>4, <1>5
  <2>3. /\ IsLast(t) => cont'[thread[t].c].elems = kept /\ cont'[thread[t].c].locked
        /\ ~IsLast(t) => cont'[thread[t].c] = cont[thread[t].c]
    BY <1>8
  <2> HIDE DEF kept
  <2> QED BY <1>1, <2>1, <2>2, <2>3, NextElemFacts
<1>10. /\ sendNonce' \in [Key -> Nat] /\ sendNonce'[k] = RejectAfter
       /\ \A j \in Key : j # k => sendNonce'[j] = sendNonce[j]
  BY <1>2, <1>4, Facts DEF PeerTypes
<1> HIDE DEF k
<1>11. LoopStep(t, r)
  <2>1. elem' \in [Elem -> Element]
    BY <1>2 DEF PoolTypes
  <2>2. r.pc \in Done => cont'[r.c].locked
    BY <1>9 DEF Advances, Done
  <2>3. r.pc \in Drawing \cup {"restage", "check"}
    BY <1>9 DEF Drawing
  <2>4. \/ contPool' = contPool /\ r.ooo = thread[t].ooo
        \/ thread[t].ooo = Nil /\ r.ooo \in contPool.free /\ contPool' = GetFrom(contPool, {r.ooo})
    BY <1>3, <1>9
  <2>5. \A d \in Container : d \notin {r.c, r.ooo} => cont'[d] = cont[d]
    BY <1>8, <1>9
  <2>6. UNCHANGED <<elemPool, staged, outbound, encryption, sender, keys, control, packets, sealed, queued, wire>>
    BY <1>2
  <2> QED BY <1>2, <1>8, <1>9, <1>10, <2>1, <2>2, <2>3, <2>4, <2>5, <2>6 DEF LoopStep
<1>12. /\ Own(r.c)' = Range(r.kept) \cup After(thread[t].i, cont[r.c].elems)
       /\ r.pc \in Drawing => LoopOK(r, cont'[r.c].elems)
                                /\ Rest(r, cont'[r.c].elems) = After(thread[t].i, cont[r.c].elems)
       /\ r.pc \in Done => Elems(r.c)' = Range(r.kept)
  BY <1>1, <1>9, <1>11, AdvanceOwn
<1>13. Own(r.c)' = Own(r.c) \ {e} /\ e \in Own(r.c)
  BY <1>4, <1>9, <1>12
<1>14. Own(x)' = Own(x) \cup {e} /\ Elems(x)' = Elems(x) \cup {e}
  <2>1. Elems(x)' = Elems(x) \cup {e}
    BY <1>7, <1>8 DEF Elems
  <2>2. DrawnFor(x)' = {}
    BY <1>1, <1>5, <1>9, <1>11, LoopOwn
  <2>3. Own(x)' = Elems(x)'
    BY <2>2 DEF Own
  <2> QED BY <1>6, <2>1, <2>3
<1>15. \A d \in Container : d \notin {r.c, x} => Own(d)' = Own(d)
  BY <1>1, <1>9, <1>11, LoopOwn
<1>16. PoolTypes' /\ QueueTypes' /\ PeerTypes' /\ PlaceInv' /\ SenderInv' /\ LockInv'
  BY <1>1, <1>11, LoopPlaces
<1>17. PacketInv' /\ OrderInv'
  <2>1. \A f \in Own(r.c)' : f \in Own(r.c)
    BY <1>13
  <2>2. \A f \in Own(r.ooo)' : f \in Own(r.c) \cup Own(r.ooo)
    BY <1>9, <1>13, <1>14
  <2> QED BY <1>1, <1>11, <2>1, <2>2, LoopPackets
<1>18. ThreadInv' /\ KeyInv' /\ ContainerInv'
  <2>1. \A d \in Container \ {r.c, r.ooo} : \A f \in Own(d) : elem'[f] = elem[f]
    BY <1>2
  <2>2. \A f \in Range(r.kept) : elem'[f].key # NoKey
    BY <1>1, <1>2, <1>9 DEF KeyInv
  <2>3. r.pc \in Drawing => \A f \in Rest(r, cont'[r.c].elems) : elem'[f].key = NoKey
    <3>1. \A f \in After(thread[t].i, es) : elem[f].key = NoKey
      <4>1. \A f \in After(thread[t].i, es) : f \in Rest(thread[t], cont[thread[t].c].elems)
        <5>1. thread[t].i \in Nat /\ Len(es) \in Nat
          BY <1>1, DrawFacts
        <5> QED BY <5>1 DEF After, Rest
      <4> QED BY <1>1, <4>1 DEF KeyInv
    <3> QED BY <1>2, <1>9, <1>12, <3>1
  <2>4. r.pc \in Done => \A f \in Elems(r.c)' : elem'[f].key # NoKey
    BY <1>12, <2>2
  <2>5. \A f \in Elems(r.ooo)' : elem'[f].key = NoKey
    BY <1>2, <1>4, <1>6, <1>9, <1>14
  <2>6. IsInjective(cont'[r.c].elems)
    BY <1>4, <1>8, <1>9
  <2>7. IsInjective(cont'[r.ooo].elems) /\ cont'[r.ooo].elems # <<>>
    BY <1>7, <1>8, <1>9
  <2>8. LocalOK(r)
    BY <1>9 DEF Advances
  <2> QED BY <1>1, <1>11, <1>12, <2>1, <2>2, <2>3, <2>4, <2>5, <2>6, <2>7, <2>8, LoopThreads
<1>19. ElementInv'
  <2>1. /\ \A d \in Container : Owned[d] = Own(d) /\ Owned'[d] = Own(d)'
        /\ Shares(elemPool.free, Owned)
    BY DEF Owned, ElementInv
  <2>2. r.c \in Container /\ r.c # x
    BY <1>4, <1>5, <1>9
  <2>3. Shares(elemPool.free, Owned')
    BY <1>4, <1>5, <1>13, <1>14, <1>15, <2>1, <2>2, MovedElement, SMTT(40)
  <2> QED BY <1>2, <2>3 DEF ElementInv
<1>20. CounterInv'
  <2> SUFFICES ASSUME NEW j \in Key PROVE sendNonce'[j] <= RejectAfter + Cardinality(Storing(j))'
    BY DEF CounterInv
  <2>1. /\ thread'[t] = r /\ \A u \in Thread : u # t => thread'[u] = thread[u]
    BY <1>1, <1>11, LoopPlaces
  <2>2. r.pc # "store" /\ thread[t].key = k
    BY <1>9 DEF k
  <2>3. CASE j = k
    <3>1. Storing(j)' \subseteq Thread
      BY DEF Storing
    <3>2. Cardinality(Storing(j)') \in Nat
      BY <3>1, Facts, FS_Subset, FS_CardinalityType
    <3>3. Cardinality(Storing(j))' = Cardinality(Storing(j)')
      OBVIOUS
    <3> QED BY <1>10, <2>3, <3>2, <3>3, Facts
  <2>4. CASE j # k
    <3>1. Storing(j)' = Storing(j)
      BY <2>1, <2>2, <2>4 DEF Storing
    <3>2. Cardinality(Storing(j))' = Cardinality(Storing(j))
      BY <3>1
    <3>3. sendNonce[j] <= RejectAfter + Cardinality(Storing(j))
      BY DEF CounterInv
    <3> QED BY <1>10, <2>4, <3>2, <3>3
  <2> QED BY <2>3, <2>4
<1>21. NonceInv'
  <2>1. \A m \in Nat, j \in Key : Used(m, sendNonce[j]) => Used(m, sendNonce'[j])
    <3> TAKE m \in Nat, j \in Key
    <3>1. CASE j = k
      BY <1>10, <3>1, Facts DEF Used
    <3>2. CASE j # k
      BY <1>10, <3>2
    <3> QED BY <3>1, <3>2
  <2>2. \A f \in Elem : elem[f].key # NoKey => elem[f].key \in Key /\ elem[f].nonce \in Nat
    BY DEF PoolTypes, Element
  <2>3. \A f \in Elem : elem'[f].key # NoKey => Used(elem'[f].nonce, sendNonce'[elem'[f].key])
    BY <1>2, <2>1, <2>2 DEF NonceInv
  <2>4. \A a \in sealed' : a[1] \in Key /\ a[2] \in Nat /\ Used(a[2], sendNonce'[a[1]])
    BY <1>2, <2>1 DEF NonceInv
  <2>5. NonceOnce'
    BY <1>2 DEF NonceInv, NonceOnce
  <2> QED BY <1>2, <2>3, <2>4, <2>5 DEF NonceInv
<1> QED BY <1>16, <1>17, <1>18, <1>19, <1>20, <1>21, InvFromParts

-----------------------------------------------------------------------------
(* Containers are sealed *)

Pair(e) == <<elem[e].key, elem[e].nonce, elem[e].packet>>

\* What is sealed under a nonce is what the element with it holds.
LEMMA SealedNonces ==
    ASSUME Inv, NEW T \in SUBSET Elem, \A e \in T : elem[e].key # NoKey,
           sealed' = sealed \cup {Pair(e) : e \in T}, UNCHANGED sendNonce,
           \A e \in Elem : /\ elem'[e].key = elem[e].key /\ elem'[e].nonce = elem[e].nonce
                           /\ elem'[e].packet = elem[e].packet
    PROVE  NonceInv'
<1> USE PartsOfInv
<1>1. \A e \in Elem : Pair(e)[1] = elem[e].key /\ Pair(e)[2] = elem[e].nonce /\ Pair(e)[3] = elem[e].packet
  BY DEF Pair
<1>2. \A e \in T : e \in Elem /\ elem[e].key # NoKey /\ elem[e].key \in Key /\ elem[e].nonce \in Nat
  BY DEF PoolTypes, Element
<1>3. \A a \in sealed : a[1] # NoKey
  BY Facts DEF NonceInv
<1>4. \A a \in sealed' : a \in sealed \/ \E e \in T : a = Pair(e)
  OBVIOUS
<1>5. \A a \in sealed : a[1] \in Key /\ a[2] \in Nat /\ Used(a[2], sendNonce[a[1]]) /\ a[2] < RejectAfter
  BY DEF NonceInv, NonceOnce
<1>6. \A e \in T : Used(elem[e].nonce, sendNonce[elem[e].key])
  BY <1>2 DEF NonceInv
<1>7. \A a \in sealed' : a[1] \in Key /\ a[2] \in Nat /\ Used(a[2], sendNonce'[a[1]]) /\ a[2] < RejectAfter
  BY <1>1, <1>2, <1>4, <1>5, <1>6 DEF Used
<1>8. \A a \in sealed, e \in Elem : a[1] = elem[e].key /\ a[2] = elem[e].nonce => a = Pair(e)
  BY DEF NonceInv, Pair
<1>9. \A e, f \in Elem : elem[e].key # NoKey /\ elem[e].key = elem[f].key
                         /\ elem[e].nonce = elem[f].nonce => e = f
  BY DEF NonceInv
<1>10. \A a \in sealed', e \in Elem : a[1] = elem[e].key /\ a[2] = elem[e].nonce => a = Pair(e)
  <2> TAKE a \in sealed', e \in Elem
  <2> HAVE a[1] = elem[e].key /\ a[2] = elem[e].nonce
  <2>1. CASE a \in sealed
    BY <1>8, <2>1
  <2>2. ASSUME NEW f \in T, a = Pair(f) PROVE a = Pair(e)
    <3>1. elem[f].key = elem[e].key /\ elem[f].nonce = elem[e].nonce /\ elem[f].key # NoKey /\ f \in Elem
      BY <1>1, <1>2, <2>2
    <3>2. f = e
      BY <1>9, <3>1
    <3> QED BY <2>2, <3>2
  <2> QED BY <1>4, <2>1, <2>2
<1>11. \A a, b \in sealed' : a[1] = b[1] /\ a[2] = b[2] => a = b
  <2> TAKE a, b \in sealed'
  <2> HAVE a[1] = b[1] /\ a[2] = b[2]
  <2>1. CASE a \in sealed /\ b \in sealed
    BY <2>1 DEF NonceInv, NonceOnce
  <2>2. ASSUME NEW e \in T, a = Pair(e) PROVE a = b
    BY <1>1, <1>2, <1>10, <2>2
  <2>3. ASSUME NEW e \in T, b = Pair(e) PROVE a = b
    BY <1>1, <1>2, <1>10, <2>3
  <2> QED BY <1>4, <2>1, <2>2, <2>3
<1>12. NonceOnce'
  BY <1>7, <1>11 DEF NonceOnce
<1>13. \A e \in Elem : elem'[e].key # NoKey => Used(elem'[e].nonce, sendNonce'[elem'[e].key])
  BY DEF NonceInv
<1>14. \A e, f \in Elem : elem'[e].key # NoKey /\ elem'[e].key = elem'[f].key
                          /\ elem'[e].nonce = elem'[f].nonce => e = f
  BY <1>9
<1>15. \A a \in sealed', e \in Elem : a[1] = elem'[e].key /\ a[2] = elem'[e].nonce =>
         a = <<elem'[e].key, elem'[e].nonce, elem'[e].packet>>
  BY <1>10 DEF Pair
<1> QED BY <1>7, <1>12, <1>13, <1>14, <1>15 DEF NonceInv

LEMMA SealStep ==
    ASSUME Inv, NEW i \in 1 .. Workers, Seal(i)
    PROVE  Inv'
<1> USE PartsOfInv
<1>1. i \in DOMAIN encryption /\ encryption \in Seq(Container)
  BY DEF Seal, QueueTypes
<1>2. PICK c \in Container : c = encryption[i] /\ c \in Range(encryption)
  BY <1>1 DEF Range
<1>3. /\ elem' = [e \in Elem |-> IF e \in Elems(c) THEN [elem[e] EXCEPT !.sealed = TRUE] ELSE elem[e]]
      /\ sealed' = sealed \cup {<<elem[e].key, elem[e].nonce, elem[e].packet>> : e \in Elems(c)}
      /\ cont' = [cont EXCEPT ![c].locked = FALSE]
      /\ encryption' = RemoveAt(encryption, i)
      /\ UNCHANGED <<elemPool, contPool, staged, outbound, thread, sender, keys, sendNonce, control, packets,
                     queued, wire>>
  BY <1>2 DEF Seal, peerState
<1>4. /\ encryption' \in Seq(Container) /\ Range(encryption') = Range(encryption) \ {c} /\ IsInjective(encryption')
  BY <1>1, <1>2, <1>3, RemoveAtFacts DEF PlaceInv
<1>5. /\ elem' \in [Elem -> Element]
      /\ \A e \in Elem : /\ elem'[e].key = elem[e].key /\ elem'[e].nonce = elem[e].nonce
                         /\ elem'[e].packet = elem[e].packet
                         /\ (elem[e].sealed \/ e \in Elems(c)) => elem'[e].sealed
  BY <1>3 DEF PoolTypes, Element
<1>6. /\ cont' \in [Container -> Box] /\ cont'[c].elems = cont[c].elems
      /\ \A d \in Container : d # c => cont'[d] = cont[d]
  BY <1>3 DEF PoolTypes, Box
<1>7. \A d \in Container : cont'[d].elems = cont[d].elems
  BY <1>6
<1>8. Staged' = Staged /\ Out' = Out /\ Sending' = Sending /\ Hands' = Hands /\ Raw' = Raw /\ Cooked' = Cooked
  BY <1>3 DEF Staged, Out, Sending, Hands, Raw, Cooked
<1>9. \A d \in Container : Own(d)' = Own(d) /\ Elems(d)' = Elems(d)
  BY <1>3, <1>7, OwnKept DEF BusyKept
<1>10. c \in Out \cup Sending /\ c \in Cooked
  BY <1>2 DEF LockInv, Cooked
<1>11. PoolTypes' /\ QueueTypes' /\ PeerTypes' /\ SenderInv'
  BY <1>3, <1>4, <1>5, <1>6 DEF PoolTypes, QueueTypes, PeerTypes, SenderInv
<1>12. PlaceInv'
  BY <1>3, <1>4, <1>8 DEF PlaceInv
<1>13. ElementInv'
  <2>1. Owned' = Owned
    BY <1>9 DEF Owned
  <2> QED BY <1>3, <2>1 DEF ElementInv
<1>14. \A d \in Container : Own(d) \subseteq Elem
  BY DEF ElementInv, Owned, Shares
<1>15. \A d \in Raw \cup Cooked : d \in Container /\ Elems(d) \subseteq Elem /\ Elems(d)' = Elems(d)
  BY <1>9, <1>14, RawCooked, NotDrawn, OwnFacts
<1>16. \A t \in Thread : Busy(t) =>
         /\ thread[t].c \in Container
         /\ Range(thread[t].kept) \cup Rest(thread[t], cont[thread[t].c].elems) \subseteq Elem
  <2> TAKE t \in Thread
  <2> HAVE Busy(t)
  <2>1. thread[t].c \in Container /\ DrawnFor(thread[t].c) = {t}
    BY HandFacts, NotDrawn
  <2>2. Own(thread[t].c) = Range(thread[t].kept) \cup Rest(thread[t], cont[thread[t].c].elems)
    BY <2>1, OwnFacts
  <2> QED BY <1>14, <2>1, <2>2
<1>17. \A t \in Thread : Busy(t)' => Busy(t)
  BY <1>3 DEF Busy
<1>18. ThreadInv'
  BY <1>3, <1>7, <1>16, <1>17 DEF ThreadInv
<1>19. ContainerInv'
  BY <1>3, <1>7, <1>8, <1>15 DEF ContainerInv, PoolTypes
<1>20. KeyInv'
  <2>1. \A d \in Raw' : \A e \in Elems(d)' : elem'[e].key = NoKey
    BY <1>5, <1>8, <1>15 DEF KeyInv
  <2>2. \A d \in Cooked' : \A e \in Elems(d)' : elem'[e].key # NoKey
    BY <1>5, <1>8, <1>15 DEF KeyInv
  <2>3. ASSUME NEW t \in Thread, Busy(t)'
        PROVE  /\ \A e \in Range(thread'[t].kept) : elem'[e].key # NoKey
               /\ \A e \in Rest(thread'[t], cont'[thread'[t].c].elems) : elem'[e].key = NoKey
    <3>1. Busy(t) /\ thread'[t] = thread[t] /\ thread[t].c \in Container
      BY <1>3, <1>16, <1>17, <2>3
    <3>2. cont'[thread'[t].c].elems = cont[thread[t].c].elems
      BY <1>7, <3>1
    <3> QED BY <1>5, <1>16, <3>1, <3>2 DEF KeyInv
  <2> QED BY <2>1, <2>2, <2>3 DEF KeyInv
<1>21. CounterInv'
  BY <1>3 DEF CounterInv, Storing
<1>22. NonceInv'
  <2>1. sealed' = sealed \cup {Pair(e) : e \in Elems(c)}
    BY <1>3 DEF Pair
  <2>2. Elems(c) \in SUBSET Elem /\ \A e \in Elems(c) : elem[e].key # NoKey
    BY <1>10, <1>15 DEF KeyInv
  <2> QED BY <1>3, <1>5, <2>1, <2>2, SealedNonces
<1>23. LockInv'
  <2>1. \A t \in Thread : thread[t].pc \in Done \cup {"encryption"} => thread[t].c # c /\ thread[t].c \in Container
    <3>1. \A t \in Thread : thread[t].pc \in Done => thread[t].c # c /\ thread[t].c \in Container
      BY <1>10, HandFacts
    <3>2. \A t \in Thread : thread[t].pc = "encryption" => thread[t].c # c /\ thread[t].c \in Container
      BY <1>2, RawCooked DEF LockInv
    <3> QED BY <3>1, <3>2
  <2>2. \A t \in Thread : thread'[t].pc \in Done \cup {"encryption"} => cont'[thread'[t].c].locked
    BY <1>3, <1>6, <2>1 DEF LockInv
  <2>3. \A d \in Range(encryption') : cont'[d].locked /\ d \in Out' \cup Sending'
    <3>1. \A d \in Range(encryption') : d \in Range(encryption) /\ d # c /\ d \in Container
      BY <1>1, <1>4 DEF Range
    <3> QED BY <1>6, <1>8, <3>1 DEF LockInv
  <2>4. \A t \in Thread : thread'[t].pc = "encryption" =>
          thread'[t].c \in Out' \cup Sending' /\ thread'[t].c \notin Range(encryption')
    BY <1>3, <1>4, <1>8 DEF LockInv
  <2>5. \A t, u \in Thread : thread'[t].pc = "encryption" /\ thread'[u].pc = "encryption"
          /\ thread'[t].c = thread'[u].c => t = u
    BY <1>3 DEF LockInv
  <2> QED BY <2>2, <2>3, <2>4, <2>5 DEF LockInv
<1>24. \A d \in Out \cup Sending : d \in Cooked
  BY DEF Cooked
<1>25. PacketInv'
  <2>1. Read' = Read
    BY <1>3 DEF Read
  <2>2. \A e \in Elem \ elemPool'.free : elem'[e].packet \in Read'
    BY <1>3, <1>5, <2>1 DEF PacketInv
  <2>3. \A e, f \in Elem \ elemPool'.free : elem'[e].packet = elem'[f].packet => e = f
    BY <1>3, <1>5 DEF PacketInv
  <2>4. queued' \in Seq(Int) /\ IsInjective(queued') /\ Range(queued') \subseteq Read'
    BY <1>3, <2>1 DEF PacketInv
  <2>5. \A d \in Out' \cup Sending' : \A e \in Elems(d)' :
          elem'[e].packet \in Range(queued') /\ (~cont'[d].locked => elem'[e].sealed)
    <3> TAKE d \in Out' \cup Sending'
    <3>1. d \in Out \cup Sending /\ d \in Container /\ Elems(d)' = Elems(d) /\ Elems(d) \subseteq Elem
      BY <1>8, <1>15, <1>24
    <3>2. \A e \in Elems(d) : elem[e].packet \in Range(queued) /\ (~cont[d].locked => elem[e].sealed)
      BY <3>1 DEF PacketInv
    <3>3. \A e \in Elems(d) : ~cont'[d].locked => elem'[e].sealed
      <4>1. CASE d = c
        BY <1>5, <3>1, <4>1
      <4>2. CASE d # c
        BY <1>5, <1>6, <3>1, <3>2, <4>2
      <4> QED BY <4>1, <4>2
    <3> QED BY <1>3, <1>5, <3>1, <3>2, <3>3
  <2>6. \A d \in Container \ (Out' \cup Sending') : \A e \in Own(d)' : elem'[e].packet \notin Range(queued')
    BY <1>3, <1>5, <1>8, <1>9, <1>14 DEF PacketInv
  <2> QED BY <2>2, <2>3, <2>4, <2>5, <2>6 DEF PacketInv
<1>26. OrderInv'
  <2>1. \A d \in Out' \cup Sending' : d \in Out \cup Sending /\ cont'[d].elems = cont[d].elems
          /\ \A e \in Elems(d) : elem'[e].packet = elem[e].packet
    BY <1>5, <1>7, <1>8, <1>15, <1>24
  <2>2. /\ \A j, k \in DOMAIN outbound' : \A a, b \in Out' :
             j < k /\ outbound'[j] = a /\ outbound'[k] = b => Before(a, b)
        /\ \A a \in Sending', b \in Out' : Before(a, b)
    BY <1>3, <1>8 DEF OrderInv
  <2> QED BY <1>3, <2>1, <2>2, OrderKept DEF OrderKeeps
<1> QED BY <1>11, <1>12, <1>13, <1>18, <1>19, <1>20, <1>21, <1>22, <1>23, <1>25, <1>26, InvFromParts

-----------------------------------------------------------------------------
(* Every step keeps the invariant *)

\* A goroutine moves on with what it has.
LEMMA ThreadMoves ==
    ASSUME Inv, NEW t \in Thread, NEW r \in Local, LocalOK(r), Same(r, thread[t]),
           thread' = [thread EXCEPT ![t] = r],
           UNCHANGED <<pools, staged, outbound, encryption, sender, sendNonce, control, history>>, PeerTypes'
    PROVE  Inv'
<1> USE PartsOfInv
<1>1. /\ thread' \in [Thread -> Local] /\ thread'[t] = r
      /\ \A u \in Thread : u # t => thread'[u] = thread[u]
  BY ThreadExcept
<1>2. CountersKept
  BY DEF CountersKept
<1>3. SenderInv'
  BY DEF SenderInv
<1>4. sender' \in [pc : {"idle", "send", "return", "off"}, c : Maybe]
  BY DEF QueueTypes
<1>5. UNCHANGED <<elem, cont, elemPool, contPool, staged, encryption, history>>
  BY DEF pools
<1>6. \A u \in Thread : thread'[u] = thread[u] \/ (LocalOK(thread'[u]) /\ Same(thread'[u], thread[u]))
  BY <1>1
<1>7. sender'.c = sender.c /\ outbound' = outbound
  OBVIOUS
<1> QED BY ONLY Inv, PeerTypes', <1>1, <1>2, <1>3, <1>4, <1>5, <1>6, <1>7, QuietStep

\* The same for one that has no container.
LEMMA StartsAgain ==
    ASSUME Inv, NEW t \in Thread, thread[t].pc \in {"idle", "flush", "top", "take"},
           NEW pc \in {"idle", "flush", "top", "take"}, NEW k \in Key \cup {NoKey}, pc = "take" => k # NoKey,
           NEW r, Starts(r, pc, k, Nil), thread' = [thread EXCEPT ![t] = r],
           UNCHANGED <<pools, staged, outbound, encryption, sender, sendNonce, control, history>>, PeerTypes'
    PROVE  Inv'
<1>1. r \in Local /\ LocalOK(r) /\ r.pc = pc /\ r.c = Nil /\ r.ooo = Nil
  BY StartsFacts DEF Starts
<1>2. LocalOK(thread[t])
  BY PartsOfInv DEF ThreadInv
<1>3. Same(r, thread[t])
  BY <1>1, <1>2 DEF Same, LocalOK
<1> QED BY <1>1, <1>3, ThreadMoves

\* What starts and stops the peer, and what makes and deletes its keypairs.
LEMMA ControlMoves ==
    ASSUME Inv, UNCHANGED <<pools, staged, outbound, encryption, thread, sender, history>>, CountersKept,
           PeerTypes', SenderInv'
    PROVE  Inv'
<1> USE PartsOfInv
<1>1. sender' \in [pc : {"idle", "send", "return", "off"}, c : Maybe]
  BY DEF QueueTypes
<1>2. UNCHANGED <<elem, cont, elemPool, contPool, staged, encryption, history>>
  BY DEF pools
<1>3. thread' \in [Thread -> Local]
  BY DEF QueueTypes
<1>4. (\A u \in Thread : thread'[u] = thread[u]) /\ sender'.c = sender.c /\ outbound' = outbound
  OBVIOUS
<1> QED BY ONLY Inv, PeerTypes', SenderInv', CountersKept, <1>1, <1>2, <1>3, <1>4, QuietStep

LEMMA StageIfRunningStep == Inv /\ StageIfRunning => Inv'
<1> SUFFICES ASSUME Inv, StageIfRunning PROVE Inv'
  OBVIOUS
<1> USE PartsOfInv
<1>1. /\ thread[Tun].pc = "read" /\ Tun \in Thread /\ thread[Tun] \in Local /\ LocalOK(thread[Tun])
      /\ UNCHANGED <<staged, outbound, encryption, sender, keys, sendNonce, control, packets, sealed, queued, wire>>
      /\ UNCHANGED history
  BY Facts DEF StageIfRunning, At, peerState, history, QueueTypes, ThreadInv
<1>2. PeerTypes'
  BY <1>1, PeerTypesKept
<1>3. CASE isRunning
  <2>1. Goto(Tun, "stage") /\ UNCHANGED pools
    BY <1>3 DEF StageIfRunning
  <2> DEFINE r == [thread[Tun] EXCEPT !.pc = "stage"]
  <2>2. r \in Local /\ r.pc = "stage" /\ r.c = thread[Tun].c /\ r.ooo = thread[Tun].ooo /\ r.key = thread[Tun].key
    BY <1>1, LocalPc, ZenonT(60) DEF Pc
  <2>3. thread' = [thread EXCEPT ![Tun] = r]
    BY <2>1 DEF Goto
  <2> HIDE DEF r
  <2>4. LocalOK(r) /\ Same(r, thread[Tun])
    BY <1>1, <2>2 DEF LocalOK, Same, Drawing, Fresh
  <2> QED BY <1>1, <1>2, <2>1, <2>2, <2>3, <2>4, ThreadMoves
<1>4. CASE ~isRunning
  <2>1. PutAll(thread[Tun].c) /\ Becomes(Tun, Idle)
    BY <1>4 DEF StageIfRunning
  <2>2. Starts(Idle, "idle", NoKey, Nil) /\ NoKey \in Key \cup {NoKey}
    BY LocalNew DEF Pc, Maybe
  <2>3. thread' = [thread EXCEPT ![Tun] = Idle]
    BY <2>1 DEF Becomes
  <2>4. staged' = IF thread[Tun].pc = "restage" THEN Append(staged, thread[Tun].ooo) ELSE staged
    BY <1>1
  <2> QED BY <1>1, <2>1, <2>2, <2>3, <2>4, PutHandStep
<1> QED BY <1>3, <1>4

LEMMA StagePacketsStep == ASSUME NEW t \in Thread PROVE Inv /\ StagePackets(t) => Inv'
<1> SUFFICES ASSUME Inv, StagePackets(t) PROVE Inv'
  OBVIOUS
<1> USE PartsOfInv
<1>1. /\ thread[t] \in Local /\ LocalOK(thread[t])
      /\ UNCHANGED <<outbound, encryption, sender, peerState, history>>
  BY DEF StagePackets, QueueTypes, ThreadInv
<1>2. PICK r : Starts(r, "top", NoKey, Nil) /\ r = [Idle EXCEPT !.pc = "top"]
  BY LocalNew DEF Pc, Maybe
<1>3. r \in Local /\ LocalOK(r) /\ r.pc = "top"
  BY <1>2, StartsFacts
<1>4. CASE At(t, "stage")
  <2>1. /\ thread[t].pc = "stage" /\ staged' = Append(staged, thread[t].c)
        /\ thread' = [thread EXCEPT ![t] = r] /\ UNCHANGED pools
    BY <1>2, <1>4 DEF StagePackets, At, Becomes
  <2> QED BY <1>1, <1>3, <2>1, StageStep
<1>5. CASE At(t, "restage") /\ thread[t].kept # <<>>
  <2>1. /\ thread[t].pc = "restage" /\ staged' = Append(staged, thread[t].ooo)
        /\ Goto(t, "check") /\ UNCHANGED pools
    BY <1>5 DEF StagePackets, At
  <2>2. PICK s \in Local : /\ s.pc = "check" /\ s.c = thread[t].c /\ s.ooo = thread[t].ooo /\ s.key = thread[t].key
                           /\ thread' = [thread EXCEPT ![t] = s]
    <3> DEFINE s == [thread[t] EXCEPT !.pc = "check"]
    <3>1. s \in Local /\ s.pc = "check" /\ s.c = thread[t].c /\ s.ooo = thread[t].ooo /\ s.key = thread[t].key
      BY <1>1, LocalPc DEF Pc
    <3>2. thread' = [thread EXCEPT ![t] = s]
      BY <2>1 DEF Goto
    <3> HIDE DEF s
    <3> QED BY <3>1, <3>2
  <2>3. LocalOK(s)
    BY <1>1, <2>1, <2>2 DEF LocalOK, Drawing
  <2> QED BY <1>1, <2>1, <2>2, <2>3, StageStep
<1>6. CASE At(t, "restage") /\ thread[t].kept = <<>>
  <2>1. /\ thread[t].pc = "restage" /\ staged' = Append(staged, thread[t].ooo)
        /\ PutAll(thread[t].c) /\ thread' = [thread EXCEPT ![t] = r]
    BY <1>2, <1>6 DEF StagePackets, At, Becomes
  <2>2. UNCHANGED <<outbound, encryption, sender, keys, sendNonce, packets, sealed, queued, wire, control>>
    BY <1>1 DEF peerState, history
  <2>3. staged' = IF thread[t].pc = "restage" THEN Append(staged, thread[t].ooo) ELSE staged
    BY <2>1
  <2> QED BY <1>2, <2>1, <2>2, <2>3, PutHandStep
<1> QED BY <1>4, <1>5, <1>6 DEF StagePackets

LEMMA DropStep ==
    ASSUME Inv, staged # <<>>, staged' = Tail(staged), PutAll(Head(staged)),
           UNCHANGED <<outbound, encryption, thread, sender, keys, sendNonce, control, history>>
    PROVE  Inv'
<1>1. UNCHANGED <<packets, sealed, queued, wire>>
  BY DEF history
<1> QED BY <1>1, PutStagedStep

LEMMA DropTooOldStep == ASSUME NEW t \in Thread PROVE Inv /\ DropTooOld(t) => Inv'
<1> SUFFICES ASSUME Inv, DropTooOld(t) PROVE Inv'
  OBVIOUS
<1>1. Len(staged) >= 1
  <2>1. ~(Len(staged) < StagedSize) /\ staged \in Seq(Container)
    BY PartsOfInv DEF DropTooOld, HasRoom, QueueTypes
  <2>2. Len(staged) \in Nat
    BY <2>1
  <2> QED BY <2>1, <2>2, Facts
<1>2. staged # <<>>
  BY <1>1
<1> QED BY <1>2, DropStep DEF DropTooOld, peerState

LEMMA SendKeepaliveStep == ASSUME NEW t \in Thread PROVE Inv /\ SendKeepalive(t) => Inv'
<1> SUFFICES ASSUME Inv, SendKeepalive(t) PROVE Inv'
  OBVIOUS
<1> USE PartsOfInv
<1>1. /\ thread[t].pc = "idle"
      /\ UNCHANGED <<staged, outbound, encryption, sender, peerState, sealed, queued, wire>>
  BY DEF SendKeepalive, At
<1>2. CASE /\ packets.keepalives < MaxKeepalives
           /\ \E c \in contPool.free :
                /\ NewContainer(c, <<-(packets.keepalives + 1)>>)
                /\ Becomes(t, [Idle EXCEPT !.pc = "keepalive", !.c = c])
           /\ packets' = [packets EXCEPT !.keepalives = @ + 1]
  <2>1. PICK c \in contPool.free : /\ NewContainer(c, <<-(packets.keepalives + 1)>>)
                                   /\ thread' = [thread EXCEPT ![t] = [Idle EXCEPT !.pc = "keepalive", !.c = c]]
    BY <1>2 DEF Becomes
  <2> QED BY <1>1, <1>2, <2>1, KeepaliveStep
<1>3. CASE Becomes(t, [Idle EXCEPT !.pc = "top"]) /\ UNCHANGED <<pools, packets>>
  <2>1. PICK r : Starts(r, "top", NoKey, Nil) /\ r = [Idle EXCEPT !.pc = "top"]
    BY LocalNew DEF Pc, Maybe
  <2>2. thread' = [thread EXCEPT ![t] = r]
    BY <1>3, <2>1 DEF Becomes
  <2>3. UNCHANGED <<pools, staged, outbound, encryption, sender, sendNonce, control, history>>
        /\ UNCHANGED <<keys, packets>>
    BY <1>1, <1>3 DEF peerState, history
  <2>4. PeerTypes'
    BY <2>3, PeerTypesKept
  <2> QED BY <1>1, <2>1, <2>2, <2>3, <2>4, StartsAgain
<1> QED BY <1>2, <1>3 DEF SendKeepalive

LEMMA StageKeepaliveStep == ASSUME NEW t \in Thread PROVE Inv /\ StageKeepalive(t) => Inv'
<1> SUFFICES ASSUME Inv, StageKeepalive(t) PROVE Inv'
  OBVIOUS
<1> USE PartsOfInv
<1>1. /\ thread[t].pc = "keepalive"
      /\ UNCHANGED <<outbound, encryption, sender, peerState, history>>
      /\ UNCHANGED <<outbound, encryption, sender, keys, sendNonce, packets, sealed, queued, wire, control>>
  BY DEF StageKeepalive, At, peerState, history
<1>2. PICK r : Starts(r, "top", NoKey, Nil) /\ r = [Idle EXCEPT !.pc = "top"]
  BY LocalNew DEF Pc, Maybe
<1>3. thread' = [thread EXCEPT ![t] = r]
  BY <1>2 DEF StageKeepalive, Becomes
<1>4. r \in Local /\ LocalOK(r) /\ r.pc = "top"
  BY <1>2, StartsFacts
<1>5. CASE staged' = Append(staged, thread[t].c) /\ UNCHANGED pools
  BY <1>1, <1>3, <1>4, <1>5, StageStep
<1>6. CASE PutAll(thread[t].c) /\ UNCHANGED staged
  <2>1. staged' = IF thread[t].pc = "restage" THEN Append(staged, thread[t].ooo) ELSE staged
    BY <1>1, <1>6
  <2> QED BY <1>1, <1>2, <1>3, <1>6, <2>1, PutHandStep
<1> QED BY <1>5, <1>6 DEF StageKeepalive

LEMMA FlushSteps ==
    ASSUME NEW t \in Thread
    PROVE  Inv /\ (StartFlush(t) \/ FlushStagedPackets(t)) => Inv'
<1> SUFFICES ASSUME Inv, StartFlush(t) \/ FlushStagedPackets(t) PROVE Inv'
  OBVIOUS
<1> USE PartsOfInv
<1>1. thread[t] \in Local /\ LocalOK(thread[t])
  BY DEF QueueTypes, ThreadInv
<1>2. /\ UNCHANGED <<outbound, encryption, sender, keys, sendNonce, control, history>>
      /\ UNCHANGED packets
  BY DEF StartFlush, FlushStagedPackets, peerState, history
<1>3. PeerTypes'
  BY <1>2, PeerTypesKept
<1>4. CASE StartFlush(t)
  <2> DEFINE r == [thread[t] EXCEPT !.pc = "flush"]
  <2>1. thread[t].pc = "idle" /\ thread' = [thread EXCEPT ![t] = r] /\ UNCHANGED <<pools, staged>>
    BY <1>4 DEF StartFlush, At, Goto
  <2>2. r \in Local /\ r.pc = "flush" /\ r.c = thread[t].c /\ r.ooo = thread[t].ooo /\ r.key = thread[t].key
    BY <1>1, LocalPc, ZenonT(60) DEF Pc
  <2> HIDE DEF r
  <2>3. LocalOK(r) /\ Same(r, thread[t])
    BY <1>1, <2>1, <2>2 DEF LocalOK, Same, Drawing
  <2> QED BY <1>2, <1>3, <2>1, <2>2, <2>3, ThreadMoves
<1>5. CASE FlushStagedPackets(t) /\ staged = <<>>
  <2>1. thread[t].pc = "flush" /\ thread' = [thread EXCEPT ![t] = Idle] /\ UNCHANGED <<pools, staged>>
    BY <1>5 DEF FlushStagedPackets, At, Becomes
  <2>2. Starts(Idle, "idle", NoKey, Nil)
    BY LocalNew DEF Pc, Maybe
  <2> QED BY <1>2, <1>3, <2>1, <2>2, StartsAgain
<1>6. CASE FlushStagedPackets(t) /\ staged # <<>>
  <2>1. PutAll(Head(staged)) /\ staged' = Tail(staged) /\ UNCHANGED thread
    BY <1>6 DEF FlushStagedPackets
  <2> QED BY <1>2, <1>6, <2>1, DropStep
<1> QED BY <1>4, <1>5, <1>6

LEMMA TopStep == ASSUME NEW t \in Thread PROVE Inv /\ Top(t) => Inv'
<1> SUFFICES ASSUME Inv, Top(t) PROVE Inv'
  OBVIOUS
<1> USE PartsOfInv
<1>1. /\ thread[t].pc = "top"
      /\ UNCHANGED <<pools, staged, outbound, encryption, sender, sendNonce, control, history>>
      /\ UNCHANGED <<keys, packets>>
  BY DEF Top, At, peerState, history
<1>2. PeerTypes'
  BY <1>1, PeerTypesKept
<1>3. CASE Becomes(t, Idle)
  <2>1. Starts(Idle, "idle", NoKey, Nil)
    BY LocalNew DEF Pc, Maybe
  <2>2. thread' = [thread EXCEPT ![t] = Idle]
    BY <1>3 DEF Becomes
  <2> QED BY <1>1, <1>2, <2>1, <2>2, StartsAgain
<1>4. CASE keys.current # NoKey /\ Becomes(t, [Idle EXCEPT !.pc = "take", !.key = keys.current])
  <2>1. PICK k \in Key \cup {NoKey} : k = keys.current
    BY DEF PeerTypes
  <2>2. PICK r : Starts(r, "take", k, Nil) /\ r = [Idle EXCEPT !.pc = "take", !.key = k]
    BY LocalNew DEF Pc, Maybe
  <2>3. thread' = [thread EXCEPT ![t] = r] /\ k # NoKey
    BY <1>4, <2>1, <2>2 DEF Becomes
  <2> QED BY <1>1, <1>2, <2>2, <2>3, StartsAgain
<1> QED BY <1>3, <1>4 DEF Top

LEMMA TakeStep == ASSUME NEW t \in Thread PROVE Inv /\ Take(t) => Inv'
<1> SUFFICES ASSUME Inv, Take(t) PROVE Inv'
  OBVIOUS
<1> USE PartsOfInv
<1>1. CASE staged # <<>>
  BY <1>1, TakenFromStaged
<1>2. CASE staged = <<>>
  <2>1. /\ thread[t].pc = "take" /\ thread' = [thread EXCEPT ![t] = Idle]
        /\ UNCHANGED <<pools, staged, outbound, encryption, sender, sendNonce, control, history>>
        /\ UNCHANGED <<keys, packets>>
    BY <1>2 DEF Take, At, Becomes, peerState, history
  <2>2. PeerTypes'
    BY <2>1, PeerTypesKept
  <2>3. Starts(Idle, "idle", NoKey, Nil)
    BY LocalNew DEF Pc, Maybe
  <2> QED BY <2>1, <2>2, <2>3, StartsAgain
<1> QED BY <1>1, <1>2

LEMMA CheckRunningStep == ASSUME NEW t \in Thread PROVE Inv /\ CheckRunning(t) => Inv'
<1> SUFFICES ASSUME Inv, CheckRunning(t) PROVE Inv'
  OBVIOUS
<1> USE PartsOfInv
<1>1. /\ thread[t].pc = "check" /\ thread[t] \in Local /\ LocalOK(thread[t])
      /\ UNCHANGED <<staged, outbound, encryption, sender, keys, sendNonce, packets, sealed, queued, wire, control>>
      /\ UNCHANGED history
  BY DEF CheckRunning, At, peerState, history, QueueTypes, ThreadInv
<1>2. PeerTypes'
  BY <1>1, PeerTypesKept
<1>3. CASE isRunning
  <2> DEFINE r == [thread[t] EXCEPT !.pc = "outbound"]
  <2>1. thread' = [thread EXCEPT ![t] = r] /\ UNCHANGED pools
    BY <1>3 DEF CheckRunning, Goto
  <2>2. r \in Local /\ r.pc = "outbound" /\ r.c = thread[t].c /\ r.ooo = thread[t].ooo /\ r.key = thread[t].key
    BY <1>1, LocalPc, ZenonT(60) DEF Pc
  <2> HIDE DEF r
  <2>3. LocalOK(r) /\ Same(r, thread[t])
    BY <1>1, <2>2 DEF LocalOK, Same, Drawing
  <2> QED BY <1>1, <1>2, <2>1, <2>2, <2>3, ThreadMoves
<1>4. CASE ~isRunning
  <2>1. PutAll(thread[t].c) /\ Continue(t)
    BY <1>4 DEF CheckRunning
  <2>2. PICK pc \in {"top", "take"}, k \in Key \cup {NoKey}, r \in Local :
          /\ pc = "take" => k # NoKey
          /\ Starts(r, pc, k, Nil) /\ thread' = [thread EXCEPT ![t] = r]
    BY <1>1, <2>1, ContinueFacts
  <2>3. staged' = IF thread[t].pc = "restage" THEN Append(staged, thread[t].ooo) ELSE staged
    BY <1>1
  <2> QED BY <1>1, <2>1, <2>2, <2>3, PutHandStep
<1> QED BY <1>3, <1>4

LEMMA ReceivedStep == ASSUME NEW t \in Thread PROVE Inv /\ ReceivedWithKeypair(t) => Inv'
<1> SUFFICES ASSUME Inv, ReceivedWithKeypair(t) PROVE Inv'
  OBVIOUS
<1> USE PartsOfInv
<1>1. /\ thread[t].pc = "idle" /\ keys' = [keys EXCEPT !.current = keys.next, !.next = NoKey]
      /\ UNCHANGED <<pools, staged, outbound, encryption, sender, sendNonce, control, history>>
      /\ UNCHANGED packets
  BY DEF ReceivedWithKeypair, At, history
<1>2. PICK r : Starts(r, "top", NoKey, Nil) /\ r = [Idle EXCEPT !.pc = "top"]
  BY LocalNew DEF Pc, Maybe
<1>3. thread' = [thread EXCEPT ![t] = r]
  BY <1>2 DEF ReceivedWithKeypair, Becomes
<1>4. PeerTypes'
  BY <1>1 DEF PeerTypes
<1> QED BY <1>1, <1>2, <1>3, <1>4, StartsAgain

LEMMA KeypairSteps ==
    Inv /\ (ExpireCurrentKeypairs \/ \E isInitiator \in BOOLEAN : NewKeypair(isInitiator)) => Inv'
<1> SUFFICES ASSUME Inv, ExpireCurrentKeypairs \/ \E isInitiator \in BOOLEAN : NewKeypair(isInitiator)
             PROVE  Inv'
  OBVIOUS
<1> USE PartsOfInv
<1>1. /\ UNCHANGED <<pools, staged, outbound, encryption, thread, sender, history, control>>
      /\ UNCHANGED packets
  BY DEF ExpireCurrentKeypairs, NewKeypair, history
<1>2. SenderInv'
  BY <1>1 DEF SenderInv
<1>3. CASE ExpireCurrentKeypairs
  <2>1. /\ sendNonce' = [k \in Key |-> IF k \in {keys.current, keys.next} THEN RejectAfter ELSE sendNonce[k]]
        /\ UNCHANGED keys
    BY <1>3 DEF ExpireCurrentKeypairs
  <2>2. CountersKept
    BY <2>1 DEF CountersKept
  <2>3. sendNonce' \in [Key -> Nat]
    BY <2>1, Facts DEF PeerTypes
  <2>4. PeerTypes'
    BY <1>1, <2>1, <2>3 DEF PeerTypes
  <2> QED BY <1>1, <1>2, <2>2, <2>4, ControlMoves
<1>4. ASSUME NEW isInitiator \in BOOLEAN, NewKeypair(isInitiator) PROVE Inv'
  <2>1. /\ keys.made < MaxKeys /\ UNCHANGED sendNonce
        /\ keys' = [made |-> keys.made + 1,
                    current |-> IF isInitiator THEN keys.made + 1 ELSE keys.current,
                    next |-> IF isInitiator THEN NoKey ELSE keys.made + 1]
    BY <1>4 DEF NewKeypair
  <2>2. keys.made + 1 \in Key /\ keys.made + 1 \in Nat /\ keys.made + 1 <= MaxKeys
    BY <2>1, Facts DEF PeerTypes
  <2>3. keys' \in [current : Key \cup {NoKey}, next : Key \cup {NoKey}, made : Nat] /\ keys'.made <= MaxKeys
    BY <2>1, <2>2 DEF PeerTypes
  <2>4. PeerTypes'
    BY <1>1, <2>1, <2>3 DEF PeerTypes
  <2>5. CountersKept
    BY <2>1 DEF CountersKept
  <2> QED BY <1>1, <1>2, <2>4, <2>5, ControlMoves
<1> QED BY <1>3, <1>4

LEMMA ControlSteps ==
    Inv /\ (Stop \/ ZeroKeys \/ Start \/ RemovePeer) => Inv'
<1> SUFFICES ASSUME Inv, Stop \/ ZeroKeys \/ Start \/ RemovePeer PROVE Inv'
  OBVIOUS
<1> USE PartsOfInv
<1>1. /\ UNCHANGED <<pools, staged, outbound, encryption, thread, sender, history, sendNonce>>
      /\ UNCHANGED packets
  BY DEF Stop, ZeroKeys, Start, RemovePeer, history
<1>2. CountersKept
  BY <1>1 DEF CountersKept
<1>3. PeerTypes'
  <2>1. UNCHANGED keys \/ keys' = [keys EXCEPT !.current = NoKey, !.next = NoKey]
    BY DEF Stop, ZeroKeys, Start, RemovePeer
  <2>2. keys' \in [current : Key \cup {NoKey}, next : Key \cup {NoKey}, made : Nat] /\ keys'.made <= MaxKeys
    BY <2>1 DEF PeerTypes
  <2>3. control' \in Controls
    BY DEF Stop, ZeroKeys, Start, RemovePeer, Controls
  <2> QED BY <1>1, <2>2, <2>3 DEF PeerTypes
<1>4. SenderInv'
  <2>1. \/ control = "started" /\ control' = "nil"
        \/ control = "stopping" /\ sender.pc = "off" /\ control' = "flushing"
        \/ control = "stopped" /\ control' \in {"starting", "removed"}
    BY DEF Stop, ZeroKeys, Start, RemovePeer
  <2> QED BY <1>1, <2>1 DEF SenderInv
<1> QED BY <1>1, <1>2, <1>3, <1>4, ControlMoves

LEMMA StopPushesNilStep == Inv /\ StopPushesNil => Inv'
<1> SUFFICES ASSUME Inv, StopPushesNil PROVE Inv'
  OBVIOUS
<1> USE PartsOfInv
<1>1. /\ control = "nil" /\ control' = "stopping" /\ outbound' = Append(outbound, Nil)
      /\ UNCHANGED <<elem, cont, elemPool, contPool, staged, encryption, history>>
      /\ UNCHANGED <<thread, sender, keys, sendNonce, packets>>
  BY DEF StopPushesNil, pools, history
<1>2. Nil \notin Range(outbound) /\ sender.pc # "off"
  BY <1>1 DEF SenderInv
<1>3. SenderInv'
  BY <1>1, <1>2 DEF SenderInv
<1>4. PeerTypes'
  BY <1>1 DEF PeerTypes, Controls
<1>5. CountersKept
  BY <1>1 DEF CountersKept
<1>6. /\ sender' \in [pc : {"idle", "send", "return", "off"}, c : Maybe] /\ sender'.c = sender.c
      /\ thread' \in [Thread -> Local] /\ \A t \in Thread : thread'[t] = thread[t]
  BY <1>1 DEF QueueTypes
<1> QED BY <1>1, <1>2, <1>3, <1>4, <1>5, <1>6, QuietStep

LEMMA StopFlushesStep == Inv /\ StopFlushes => Inv'
<1> SUFFICES ASSUME Inv, StopFlushes PROVE Inv'
  OBVIOUS
<1> USE PartsOfInv
<1>1. /\ control = "flushing"
      /\ UNCHANGED <<outbound, encryption, thread, sender, keys, sendNonce, history>>
      /\ UNCHANGED packets
  BY DEF StopFlushes, history
<1>2. CASE staged # <<>>
  BY <1>1, <1>2, DropStep DEF StopFlushes
<1>3. CASE staged = <<>>
  <2>1. control' = "stopped" /\ UNCHANGED <<pools, staged>>
    BY <1>3 DEF StopFlushes
  <2>2. SenderInv'
    BY <1>1, <2>1 DEF SenderInv
  <2>3. PeerTypes' /\ CountersKept
    BY <1>1, <2>1 DEF PeerTypes, Controls, CountersKept
  <2> QED BY <1>1, <2>1, <2>2, <2>3, ControlMoves
<1> QED BY <1>2, <1>3

\* The queue of a peer that does not run has no nil.
LEMMA HeadOfQueue ==
    ASSUME Inv, outbound # <<>>, control \in {"starting", "removed"}
    PROVE  Head(outbound) \in Container
<1> USE PartsOfInv
<1>1. Nil \notin Range(outbound)
  BY DEF SenderInv
<1>2. Head(outbound) \in Maybe /\ Head(outbound) \in Range(outbound)
  BY TailFacts DEF QueueTypes, PlaceInv
<1> QED BY <1>1, <1>2 DEF Maybe

LEMMA FlushQueueSteps == Inv /\ (StartFlushes \/ Finalizer) => Inv'
<1> SUFFICES ASSUME Inv, StartFlushes \/ Finalizer PROVE Inv'
  OBVIOUS
<1> USE PartsOfInv
<1>1. CASE /\ FlushOne /\ control \in {"starting", "removed"}
           /\ UNCHANGED <<staged, encryption, thread, sender, keys, sendNonce, control, history>>
  <2>1. Head(outbound) \in Container
    BY <1>1, HeadOfQueue DEF FlushOne
  <2> QED BY <1>1, <2>1, Flushed
<1>2. CASE /\ control = "starting" /\ outbound = <<>> /\ sender' = [pc |-> "idle", c |-> Nil]
           /\ control' = "started" /\ UNCHANGED <<pools, outbound>>
           /\ UNCHANGED <<staged, encryption, thread, keys, sendNonce, history>>
  <2>1. UNCHANGED <<elem, cont, elemPool, contPool, staged, encryption, history>> /\ UNCHANGED packets
    BY <1>2 DEF pools, history
  <2>2. sender'.c = sender.c /\ sender' \in [pc : {"idle", "send", "return", "off"}, c : Maybe]
    BY <1>2 DEF SenderInv, Maybe
  <2>3. SenderInv'
    BY <1>2, EmptyFacts DEF SenderInv
  <2>4. PeerTypes' /\ CountersKept
    BY <1>2, <2>1 DEF PeerTypes, Controls, CountersKept
  <2>5. thread' \in [Thread -> Local] /\ \A t \in Thread : thread'[t] = thread[t]
    BY <1>2 DEF QueueTypes
  <2>6. outbound' = outbound
    BY <1>2
  <2> QED BY <2>1, <2>2, <2>3, <2>4, <2>5, <2>6, QuietStep
<1> QED BY <1>1, <1>2 DEF StartFlushes, Finalizer, peerState

LEMMA AddNonceStep == ASSUME NEW t \in Thread PROVE Inv /\ AddNonce(t) => Inv'
BY AcceptedStep, RefusedStep

LEMMA ThreadSteps == ASSUME NEW t \in Thread PROVE Inv /\ ThreadStep(t) => Inv'
BY StagePacketsStep, DropTooOldStep, StageKeepaliveStep, FlushSteps, TopStep, TakeStep,
   AddNonceStep,
   StoreStep, CheckRunningStep, PushedToSender, PushedToWorkers DEF ThreadStep

LEMMA InvNext == Inv /\ [Next]_vars => Inv'
<1> SUFFICES ASSUME Inv, [Next]_vars PROVE Inv'
  OBVIOUS
<1>1. ASSUME NEW n \in 1 .. Batch, ReadFromTUN(n) PROVE Inv'
  BY <1>1, ReadStep
<1>2. CASE StageIfRunning
  BY <1>2, StageIfRunningStep
<1>3. ASSUME NEW t \in Thread, SendKeepalive(t) \/ StartFlush(t) \/ ReceivedWithKeypair(t) PROVE Inv'
  BY <1>3, SendKeepaliveStep, FlushSteps, ReceivedStep
<1>4. ASSUME NEW t \in Thread, ThreadStep(t) PROVE Inv'
  BY <1>4, ThreadSteps
<1>5. ASSUME NEW i \in 1 .. Workers, Seal(i) PROVE Inv'
  BY <1>5, SealStep
<1>6. CASE SenderStep
  BY <1>6, TakenFromOutbound, Returned, SentOne DEF SenderStep
<1>7. CASE ExpireCurrentKeypairs \/ \E isInitiator \in BOOLEAN : NewKeypair(isInitiator)
  BY <1>7, KeypairSteps
<1>8. CASE Stop \/ StopStep \/ Start \/ RemovePeer
  BY <1>8, ControlSteps, StopPushesNilStep, StopFlushesStep DEF StopStep
<1>9. CASE StartFlushes \/ Finalizer
  BY <1>9, FlushQueueSteps
<1>10. CASE UNCHANGED vars
  <2>1. /\ UNCHANGED <<pools, staged, outbound, encryption, thread, sender, history>>
        /\ UNCHANGED <<keys, sendNonce, control, packets>>
    BY <1>10 DEF vars, peerState, history
  <2>2. PeerTypes' /\ SenderInv' /\ CountersKept
    BY <2>1, PartsOfInv DEF PeerTypes, SenderInv, CountersKept
  <2> QED BY <2>1, <2>2, ControlMoves
<1> QED BY <1>1, <1>2, <1>3, <1>4, <1>5, <1>6, <1>7, <1>8, <1>9, <1>10 DEF Next, Other

-----------------------------------------------------------------------------
(* The invariant, nonces and order *)

LEMMA InvInit == Init => Inv
<1> SUFFICES ASSUME Init PROVE Inv
  OBVIOUS
<1>1. /\ <<>> \in Seq(Elem) /\ <<>> \in Seq(Container) /\ <<>> \in Seq(Maybe) /\ <<>> \in Seq(Int)
      /\ <<>> \in Seq(Sent) /\ DOMAIN <<>> = {} /\ Range(<<>>) = {} /\ IsInjective(<<>>)
  BY EmptyFacts
<1>2. /\ \A c \in Container : cont[c] = Empty
      /\ \A e \in Elem : elem[e] = Blank
      /\ elemPool.free = Elem /\ elemPool.count = 0 /\ contPool.free = Container /\ contPool.count = 0
      /\ staged = <<>> /\ outbound = <<>> /\ encryption = <<>> /\ queued = <<>> /\ wire = <<>>
      /\ sealed = {}
      /\ \A t \in Thread : thread[t] = Idle
      /\ sender.pc = "idle" /\ sender.c = Nil /\ control = "started"
      /\ packets.read = 0 /\ packets.keepalives = 0
  BY DEF Init
<1>3. PoolTypes
  BY EmptyFacts DEF Init, PoolTypes
<1>4. QueueTypes
  BY <1>1, IdleFacts DEF Init, QueueTypes, Maybe
<1>5. PeerTypes
  BY Facts DEF Init, PeerTypes, Controls
<1>6. \A t \in Thread : thread[t].pc = "idle" /\ Hand(thread[t]) = {} /\ LocalOK(thread[t])
  BY <1>2, IdleFacts
<1>7. Staged = {} /\ Out = {} /\ Sending = {}
  BY <1>1, <1>2 DEF Staged, Out, Sending
<1>8. \A c \in Container : DrawnFor(c) = {} /\ Elems(c) = {} /\ Own(c) = {}
  BY <1>1, <1>2, <1>6, EmptyFacts DEF DrawnFor, Busy, Drawing, Elems, Own
<1>9. PlaceInv
  <2>1. Hands = [t \in Thread |-> {}]
    BY <1>6 DEF Hands
  <2>2. Container \ contPool.free = {}
    BY <1>2
  <2>3. contPool.count = Cardinality(Container \ contPool.free)
    BY <1>2, <2>2, FS_EmptySet
  <2>4. Places(contPool.free, Staged, Out, Sending, Hands)
    BY <1>2, <1>7, <2>1 DEF Places
  <2> QED BY <1>1, <1>2, <2>3, <2>4 DEF PlaceInv
<1>10. SenderInv
  BY <1>1, <1>2 DEF SenderInv
<1>11. ThreadInv
  BY <1>6 DEF ThreadInv, Busy, Drawing
<1>12. Raw = {} /\ Cooked = {}
  BY <1>6, <1>7 DEF Raw, Cooked, Fresh, Drawing, Done
<1>13. ContainerInv
  BY <1>1, <1>2, <1>12, EmptyFacts DEF ContainerInv
<1>14. LockInv
  BY <1>1, <1>2, <1>6 DEF LockInv, Done
<1>15. ElementInv
  <2>1. Elem \ elemPool.free = {}
    BY <1>2
  <2>2. elemPool.count = Cardinality(Elem \ elemPool.free)
    BY <1>2, <2>1, FS_EmptySet
  <2>3. Shares(elemPool.free, Owned)
    BY <1>2, <1>8 DEF Shares, Owned
  <2> QED BY <1>2, <2>2, <2>3 DEF ElementInv
<1>16. NonceInv
  BY <1>2, EmptyFacts DEF NonceInv, NonceOnce
<1>17. KeyInv
  BY <1>6, <1>12 DEF KeyInv, Busy, Drawing
<1>18. CounterInv
  <2> SUFFICES ASSUME NEW k \in Key PROVE sendNonce[k] <= RejectAfter + Cardinality(Storing(k))
    BY DEF CounterInv
  <2>1. Storing(k) = {}
    BY <1>6 DEF Storing
  <2>2. Cardinality(Storing(k)) = 0 /\ sendNonce[k] = 0
    BY <2>1, FS_EmptySet DEF Init
  <2> QED BY <2>2, Facts
<1>19. PacketInv
  BY <1>1, <1>2, <1>7, <1>8 DEF PacketInv
<1>20. OrderInv
  BY <1>1, <1>2, <1>7 DEF OrderInv, SentAsQueued
<1> QED BY <1>3, <1>4, <1>5, <1>9, <1>10, <1>11, <1>13, <1>14, <1>15, <1>16, <1>17, <1>18, <1>19,
           <1>20
        DEF Inv, PoolInv

LEMMA Invariance == Spec => []Inv
BY InvInit, InvNext, PTL DEF Spec

\* The goroutine that draws nonces for a container is the only one at it.
LEMMA ContentsOwned == ASSUME Inv, NEW c \in Container PROVE Contents(c) = Own(c)
<1> USE PartsOfInv
<1>1. CASE \E t \in Thread : thread[t].c = c /\ thread[t].pc \in {"nonce", "store"}
  <2>1. PICK t \in Thread : thread[t].c = c /\ thread[t].pc \in {"nonce", "store"}
    BY <1>1
  <2>2. Busy(t) /\ c \in Hand(thread[t]) /\ DrawnFor(c) = {t}
    BY <2>1, HandFacts, NotDrawn DEF Busy, Drawing
  <2>3. Hand(thread[t]) \cap (Out \cup Sending) = {}
        /\ \A u \in Thread : u # t => Hand(thread[t]) \cap Hand(thread[u]) = {}
    BY HandFacts
  <2>4. ASSUME NEW u \in Thread, thread[u].c = c PROVE u = t
    <3>1. CASE thread[u].pc = "encryption"
      BY <2>2, <2>3, <2>4, <3>1 DEF LockInv
    <3>2. CASE thread[u].pc # "encryption"
      <4>1. c \in Hand(thread[u])
        BY <2>4, <3>2, Facts DEF Hand
      <4> QED BY <2>2, <2>3, <4>1
    <3> QED BY <3>1, <3>2
  <2>5. (CHOOSE u \in Thread : thread[u].c = c) = t
    BY <2>1, <2>4
  <2>6. Contents(c) = Range(thread[t].kept) \cup Rest(thread[t], cont[c].elems)
    BY <1>1, <2>5 DEF Contents, Rest
  <2> QED BY <2>1, <2>2, <2>6, OwnFacts
<1>2. CASE ~\E t \in Thread : thread[t].c = c /\ thread[t].pc \in {"nonce", "store"}
  <2>1. DrawnFor(c) = {}
    BY <1>2 DEF DrawnFor, Busy, Drawing
  <2>2. Contents(c) = Elems(c)
    BY <1>2 DEF Contents
  <2> QED BY <2>1, <2>2, OwnFacts
<1> QED BY <1>1, <1>2

LEMMA OnePlace ==
    ASSUME Inv, NEW c \in Container PROVE PlacesOf(c) = IF c \in contPool.free THEN 0 ELSE 1
<1> USE PartsOfInv
<1> DEFINE Lists == {i \in DOMAIN Held : c \in Held[i]}
           Holders == {t \in Thread : c \in InHand(t)}
<1>1. DOMAIN Held = {1, 2, 3} /\ Held[1] = Staged /\ Held[2] = Out /\ Held[3] = Sending
  BY DEF Held, Staged, Out, Sending
<1>2. /\ Places(contPool.free, Staged, Out, Sending, Hands)
      /\ \A t \in Thread : Hands[t] = InHand(t)
  BY HandFacts DEF PlaceInv, Hands
<1>3. PlacesOf(c) = Cardinality(Lists) + Cardinality(Holders)
  BY DEF PlacesOf
<1>4. Lists = {i \in {1, 2, 3} : c \in Held[i]}
  BY <1>1
<1> HIDE DEF Lists, Holders
<1>5. Cardinality({}) = 0 /\ Cardinality({1}) = 1 /\ Cardinality({2}) = 1 /\ Cardinality({3}) = 1
      /\ \A t \in Thread : Cardinality({t}) = 1
  BY FS_EmptySet, FS_Singleton
<1>6. CASE c \in contPool.free
  <2>1. Lists = {} /\ Holders = {}
    BY <1>1, <1>2, <1>4, <1>6 DEF Places, Holders
  <2> QED BY <1>3, <1>5, <1>6, <2>1
<1>7. CASE c \in Staged
  <2>1. Lists = {1} /\ Holders = {} /\ c \notin contPool.free
    BY <1>1, <1>2, <1>4, <1>7 DEF Places, Holders
  <2>2. Cardinality(Lists) = 1 /\ Cardinality(Holders) = 0
    BY <1>5, <2>1
  <2> QED BY <1>3, <2>1, <2>2
<1>8. CASE c \in Out
  <2>1. Lists = {2} /\ Holders = {} /\ c \notin contPool.free
    BY <1>1, <1>2, <1>4, <1>8 DEF Places, Holders
  <2>2. Cardinality(Lists) = 1 /\ Cardinality(Holders) = 0
    BY <1>5, <2>1
  <2> QED BY <1>3, <2>1, <2>2
<1>9. CASE c \in Sending
  <2>1. Lists = {3} /\ Holders = {} /\ c \notin contPool.free
    BY <1>1, <1>2, <1>4, <1>9 DEF Places, Holders
  <2>2. Cardinality(Lists) = 1 /\ Cardinality(Holders) = 0
    BY <1>5, <2>1
  <2> QED BY <1>3, <2>1, <2>2
<1>10. CASE \E t \in Thread : c \in Hands[t]
  <2>1. PICK t \in Thread : c \in Hands[t]
    BY <1>10
  <2>2. Lists = {} /\ c \notin contPool.free
    BY <1>1, <1>2, <1>4, <2>1 DEF Places
  <2>3. Holders = {t}
    BY <1>2, <2>1 DEF Places, Holders
  <2> QED BY <1>3, <1>5, <2>2, <2>3
<1> QED BY <1>2, <1>6, <1>7, <1>8, <1>9, <1>10 DEF Places

LEMMA OneContainer ==
    ASSUME Inv, NEW e \in Elem
    PROVE  Cardinality({c \in Container \ contPool.free : e \in Contents(c)})
             = IF e \in elemPool.free THEN 0 ELSE 1
<1> USE PartsOfInv
<1> DEFINE Owners == {c \in Container \ contPool.free : e \in Contents(c)}
<1>1. Owners = {c \in Container \ contPool.free : e \in Own(c)}
  BY ContentsOwned
<1>2. \A c \in contPool.free : Own(c) = {}
  BY NotDrawn, OwnFacts, EmptyFacts DEF ContainerInv, Elems
<1>3. /\ \A c \in Container : Own(c) \cap elemPool.free = {}
      /\ \A c, d \in Container : c # d => Own(c) \cap Own(d) = {}
      /\ e \in elemPool.free \/ \E c \in Container : e \in Own(c)
  BY DEF ElementInv, Shares, Owned
<1> HIDE DEF Owners
<1>4. CASE e \in elemPool.free
  <2>1. Owners = {}
    BY <1>1, <1>3, <1>4
  <2> QED BY <1>4, <2>1, FS_EmptySet DEF Owners
<1>5. CASE e \notin elemPool.free
  <2>1. PICK c \in Container : e \in Own(c)
    BY <1>3, <1>5
  <2>2. Owners = {c}
    BY <1>1, <1>2, <1>3, <2>1
  <2> QED BY <1>5, <2>2, FS_Singleton DEF Owners
<1> QED BY <1>4, <1>5

-----------------------------------------------------------------------------
(* The results *)

\* A nonce is used once under a keypair and stays below RejectAfterMessages,
\* though goroutines in SendStagedPackets draw from sendNonce at once, put it
\* back to the limit while others draw, and ExpireCurrentKeypairs sets it.
THEOREM NoncesAreFresh == Spec => []NonceOnce
<1>1. Inv => NonceOnce
  BY DEF Inv, NonceInv
<1> QED BY Invariance, <1>1, PTL

\* RoutineSequentialSender hands only sealed packets to SendBuffers, and in the
\* order of the outbound queue, with any number of encryption workers.
THEOREM QueueOrderIsKept == Spec => []SentAsQueued
<1>1. Inv => SentAsQueued
  BY DEF Inv, OrderInv
<1> QED BY Invariance, <1>1, PTL

\* Every element and container that was taken from its pool is in one place and
\* goes back once, wherever Stop, Start, the timers and the removal of the peer
\* meet the packets; what an encryption worker has is still locked.
THEOREM PoolsAreExact == Spec => []PoolsExact
<1>1. ASSUME Inv PROVE PoolsExact
  <2>1. \A c \in Container : PlacesOf(c) = IF c \in contPool.free THEN 0 ELSE 1
    BY <1>1, OnePlace
  <2>2. \A e \in Elem : Cardinality({c \in Container \ contPool.free : e \in Contents(c)})
                          = IF e \in elemPool.free THEN 0 ELSE 1
    BY <1>1, OneContainer
  <2>3. elemPool.count = Cardinality(Elem \ elemPool.free)
        /\ contPool.count = Cardinality(Container \ contPool.free)
        /\ \A c \in Range(encryption) : cont[c].locked
    BY <1>1 DEF Inv, PoolInv, PlaceInv, ElementInv, LockInv
  <2> QED BY <2>1, <2>2, <2>3 DEF PoolsExact
<1> QED BY Invariance, <1>1, PTL
===============================================================================
