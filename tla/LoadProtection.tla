---------------------------- MODULE LoadProtection ----------------------------
(***************************************************************************)
(* What RoutineHandshake does with handshake messages when the device is   *)
(* under load (device/receive.go, device/cookie.go, ratelimiter/): the     *)
(* message must carry a MAC made with the cookie of its source address,    *)
(* else a cookie reply is sent, and the source must not have used up its   *)
(* tokens.  The initiator (CookieGenerator) takes the cookie out of a      *)
(* reply and uses it in its next messages; its address may change.         *)
(*                                                                         *)
(* A cookie is the pair of the secret and the address it is derived from;  *)
(* mac1 is the number of the message with the public key it is for.  Time  *)
(* is counted in seconds (garbageCollectTime is 1), in which the tokens of *)
(* an entry are filled up completely: 20 packets per second, bursts of 5.  *)
(* The steps between two ticks are a burst: they take no time that would   *)
(* fill tokens, or just enough for the comparison in Allow (passed).       *)
(*                                                                         *)
(* The network may lose, repeat and reorder messages.                      *)
(*                                                                         *)
(* A "mutant:" comment marks a deliberately wrong variant of the           *)
(* definition that follows it; the properties tell the two apart.          *)
(***************************************************************************)
EXTENDS Integers, FiniteSets

CONSTANTS
    Worker,             \* handshake workers
    Addr,               \* addresses of the initiator
    None,
    CookieRefreshTime,  \* 120 s
    Burst,              \* packetsBurstable
    MaxTime,            \* bound: seconds
    MaxMessages,        \* bound: messages of the initiator
    MaxSecrets,         \* bound: secrets the responder draws
    MaxKeys             \* bound: private keys of the responder

ASSUME LoadAssumption ==
    /\ {CookieRefreshTime, Burst, MaxMessages, MaxSecrets, MaxKeys} \subseteq Nat \ {0}
    /\ MaxTime \in Nat
    /\ IsFiniteSet(Addr) /\ Addr # {} /\ IsFiniteSet(Worker) /\ Worker # {}

\* garbageCollectTime, and a time that is long ago.
GarbageCollectTime == 1
Never == -CookieRefreshTime - 1

Secret == 0 .. MaxSecrets
Cookie == Secret \X Addr
Message == [mac1 : 1 .. MaxMessages, key : 1 .. MaxKeys, src : Addr, mac2 : Cookie \cup {None}]
Reply == [mac1 : 1 .. MaxMessages, key : 1 .. MaxKeys, to : Addr, cookie : Cookie]

ASSUME NoneAssumption == None \notin Addr \cup Worker \cup Cookie \cup Int

VARIABLES
    now,
    checker,    \* CookieChecker: static key, secret, secretSet
    gen,        \* CookieGenerator of the initiator, and its address
    messages,   \* messages on their way to the responder
    replies,    \* cookie replies on their way to the initiator
    worker,     \* variables of the handshake workers
    entry,      \* RatelimiterEntry: the entries that somebody refers to
    table,      \* Ratelimiter.table
    mu,         \* who holds Ratelimiter.mu for writing, or None
    stopReset,  \* whether this channel is "open" or "closed"
    gc,         \* the garbage collection routine
    ticker      \* when its ticker ticked or was started, or None if it is stopped

vars == <<now, checker, gen, messages, replies, worker, entry, table, mu, stopReset, gc, ticker>>
cookies == <<checker, gen, messages, replies>>
limiter == <<entry, table, mu, stopReset, gc, ticker>>

Idle == [pc |-> "idle", msg |-> None, entry |-> None, lastTime |-> None]

\* served is history: the messages that the entry let pass since the last tick.
\* One entry for each address and one that each worker still refers to.
Entry == 1 .. Cardinality(Addr) + Cardinality(Worker)
Unused == [lastTime |-> 0, tokens |-> 0, served |-> 0]

Init ==
    /\ now = 0
    /\ checker = [key |-> 1, secret |-> 0, drawn |-> 0, secretSet |-> Never]
    /\ gen \in [key : {1}, cookie : {None}, cookieSet : {Never}, lastMAC1 : {None}, sent : {0},
               answers : {0}, addr : Addr]
    /\ messages = {} /\ replies = {}
    /\ worker = [w \in Worker |-> Idle]
    /\ mu = None /\ stopReset = "open" /\ gc = "select"
    /\ \/ /\ table = [a \in Addr |-> None] /\ ticker = None
          /\ entry = [e \in Entry |-> Unused]
       \/ \E other \in Addr \ {gen.addr} :  \* another host was allowed just before
          /\ table = [a \in Addr |-> IF a = other THEN 1 ELSE None] /\ ticker = 0
          /\ entry = [e \in Entry |-> [Unused EXCEPT !.tokens = IF e = 1 THEN Burst - 1 ELSE 0]]

At(w, pc) == worker[w].pc = pc
Goto(w, pc) == worker' = [worker EXCEPT ![w].pc = pc]
Skip(w) == worker' = [worker EXCEPT ![w] = Idle]

-----------------------------------------------------------------------------
(* CookieGenerator. *)

\* AddMacs: mac1 is remembered; mac2 is set if the cookie is not too old.
AddMacs ==
    /\ gen.sent < MaxMessages
    /\ messages' = messages \cup
         {[mac1 |-> gen.sent + 1, key |-> gen.key, src |-> gen.addr,
           mac2 |-> IF now - gen.cookieSet > CookieRefreshTime THEN None ELSE gen.cookie]}
    /\ gen' = [gen EXCEPT !.sent = @ + 1, !.lastMAC1 = gen.sent + 1]
    /\ UNCHANGED <<now, checker, replies, worker, limiter>>

\* mutant: any reply of the responder is opened.
OpensAny(r) == gen.lastMAC1 # None
Opens(r) == gen.lastMAC1 # None /\ r.mac1 = gen.lastMAC1

\* ConsumeReply: the cookie is sealed with the key of the responder and bound
\* to mac1 of the message it answers.
ConsumeReply(r) ==
    /\ Opens(r) /\ r.key = gen.key
    /\ gen' = [gen EXCEPT !.cookie = r.cookie, !.cookieSet = now, !.answers = r.mac1]
    /\ UNCHANGED <<now, checker, messages, replies, worker, limiter>>

\* The initiator's address changes, or it is configured with the new key of the
\* responder (NewPeer, CookieGenerator.Init).
Roam(a) ==
    /\ a # gen.addr
    /\ gen' = [gen EXCEPT !.addr = a]
    /\ UNCHANGED <<now, checker, messages, replies, worker, limiter>>

InitGenerator ==
    /\ gen.key # checker.key
    /\ gen' = [gen EXCEPT !.key = checker.key, !.cookie = None, !.cookieSet = Never,
                       !.lastMAC1 = None, !.answers = 0]
    /\ UNCHANGED <<now, checker, messages, replies, worker, limiter>>

-----------------------------------------------------------------------------
(* CookieChecker. *)

\* CookieChecker.Init, called by SetPrivateKey.
InitChecker ==
    /\ checker.key < MaxKeys
    /\ checker' = [checker EXCEPT !.key = @ + 1, !.secretSet = Never]
    /\ UNCHANGED <<now, gen, messages, replies, worker, limiter>>

Expired == now - checker.secretSet > CookieRefreshTime

\* mutant: the cookie is derived from the secret alone.
SameForAll(a) == <<checker.secret, CHOOSE x \in Addr : TRUE>>
CookieOf(a) == <<checker.secret, a>>

CheckMAC1(m) == m.key = checker.key
CheckMAC2(m) == ~Expired /\ m.mac2 = CookieOf(m.src)

\* RoutineHandshake takes a message: without load it is handled at once.
Handle(w, m) ==
    /\ At(w, "idle")
    /\ CheckMAC1(m)
    /\ worker' = [worker EXCEPT ![w] =
                    [Idle EXCEPT !.pc = IF CheckMAC2(m) THEN "lookup" ELSE "createReply", !.msg = m]]
    /\ UNCHANGED <<now, cookies, limiter>>

\* CreateReply: the age of the secret is checked under RLock; the lock is given
\* up for a refresh.
NeedsRefresh(w) ==
    /\ At(w, "createReply") /\ Expired
    /\ Goto(w, "refresh")
    /\ UNCHANGED <<now, cookies, limiter>>

Refresh(w) ==
    /\ At(w, "refresh")
    /\ checker.drawn < MaxSecrets
    /\ checker' = [checker EXCEPT !.secret = checker.drawn + 1, !.drawn = @ + 1, !.secretSet = now]
    /\ Goto(w, "derive")
    /\ UNCHANGED <<now, gen, messages, replies, limiter>>

CreateReply(w) ==
    /\ (At(w, "createReply") /\ ~Expired) \/ At(w, "derive")
    /\ replies' = replies \cup
         {[mac1 |-> worker[w].msg.mac1, key |-> checker.key, to |-> worker[w].msg.src,
           cookie |-> CookieOf(worker[w].msg.src)]}
    /\ Skip(w)
    /\ UNCHANGED <<now, checker, gen, messages, limiter>>

-----------------------------------------------------------------------------
(* Ratelimiter. *)

Lookup(w) ==
    /\ At(w, "lookup") /\ mu = None
    /\ worker' = [worker EXCEPT ![w].entry = table[worker[w].msg.src],
                                ![w].pc = IF table[worker[w].msg.src] = None THEN "new" ELSE "take"]
    /\ UNCHANGED <<now, cookies, limiter>>

\* The clock is read before mu is locked.
ReadClock(w) ==
    /\ At(w, "new")
    /\ worker' = [worker EXCEPT ![w].lastTime = now, ![w].pc = "insert"]
    /\ UNCHANGED <<now, cookies, limiter>>

NewEntry ==
    CHOOSE e \in Entry : \A a \in Addr, w \in Worker : table[a] # e /\ worker[w].entry # e

Entries(t) == {t[a] : a \in Addr} \ {None}

\* Entries that nobody refers to any more are gone.
Kept(entries, t, ws) ==
    [e \in Entry |-> IF e \in Entries(t) \cup {ws[w].entry : w \in Worker} THEN entries[e] ELSE Unused]

\* A new entry; the first one of the table resets the ticker, under mu.
Insert(w) ==
    /\ At(w, "insert") /\ mu = None
    /\ table' = [table EXCEPT ![worker[w].msg.src] = NewEntry]
    /\ IF Cardinality(Entries(table')) = 1 THEN mu' = w /\ Goto(w, "reset")
                                           ELSE Skip(w) /\ UNCHANGED mu
    /\ entry' = Kept([entry EXCEPT ![NewEntry] = [lastTime |-> worker[w].lastTime, tokens |-> Burst - 1,
                                                   served |-> 1]], table', worker')
    /\ UNCHANGED <<now, cookies, stopReset, gc, ticker>>

\* mutant: a reset that the routine is not ready to receive is dropped.
ResetIfReceived(w) ==
    /\ At(w, "reset") /\ stopReset = "open"
    /\ ticker' = IF gc = "select" THEN now ELSE ticker
    /\ mu' = None
    /\ Skip(w)
    /\ UNCHANGED <<now, cookies, entry, table, stopReset, gc>>

\* rate.stopReset <- struct{}{}: the routine stops its ticker and starts one.
Reset(w) ==
    /\ At(w, "reset") /\ stopReset = "open" /\ gc = "select"
    /\ ticker' = now
    /\ mu' = None
    /\ Skip(w)
    /\ UNCHANGED <<now, cookies, entry, table, stopReset, gc>>

Filled(e) == IF entry[e].lastTime < now THEN Burst ELSE entry[e].tokens

\* mutant: the packet costs nothing.
NoCost(tokens) == tokens
Spend(tokens) == tokens - 1

\* tokens > packetCost: if one is left, some time must have passed since the
\* last packet.
Enough(tokens, passed) == tokens > 1 \/ (tokens = 1 /\ passed)

\* The entry, which may not be in the table any more, is filled and a packet is
\* taken from it.
TakeToken(w, passed) ==
    LET e == worker[w].entry
        enough == Enough(Filled(e), passed)
    IN
    /\ At(w, "take")
    /\ Skip(w)
    /\ entry' = Kept([entry EXCEPT ![e] =
                        IF enough THEN [lastTime |-> now, tokens |-> Spend(Filled(e)), served |-> @.served + 1]
                                  ELSE [lastTime |-> now, tokens |-> Filled(e), served |-> @.served]],
                     table, worker')
    /\ UNCHANGED <<now, cookies, table, mu, stopReset, gc, ticker>>

\* The garbage collection routine: a tick, cleanup under mu, and the ticker is
\* stopped if the table is empty.
GcTick ==
    /\ gc = "select" /\ ticker # None /\ now > ticker
    /\ gc' = "cleanup"
    /\ ticker' = now
    /\ UNCHANGED <<now, cookies, worker, entry, table, mu, stopReset>>

Cleanup ==
    /\ gc = "cleanup" /\ mu = None
    /\ table' = [a \in Addr |->
         IF table[a] # None /\ now - entry[table[a]].lastTime > GarbageCollectTime THEN None
                                                                                   ELSE table[a]]
    /\ gc' = IF Entries(table') = {} THEN "stop" ELSE "select"
    /\ entry' = Kept(entry, table', worker)
    /\ UNCHANGED <<now, cookies, worker, mu, stopReset, ticker>>

StopTicker ==
    /\ gc = "stop"
    /\ ticker' = None
    /\ gc' = "select"
    /\ UNCHANGED <<now, cookies, worker, entry, table, mu, stopReset>>

\* Ratelimiter.Close, called once by Device.Close, which waits neither for the
\* handshake workers nor for what is in their queue.
Close ==
    /\ stopReset = "open" /\ mu = None
    /\ stopReset' = "closed"
    /\ UNCHANGED <<now, cookies, worker, entry, table, mu, gc, ticker>>

GcEnd ==
    /\ gc = "select" /\ stopReset = "closed"
    /\ gc' = "ended" /\ ticker' = None
    /\ UNCHANGED <<now, cookies, worker, entry, table, mu, stopReset>>

\* A send on the closed channel is the end of the process.
Panic(w) ==
    /\ At(w, "reset") /\ stopReset = "closed"
    /\ Goto(w, "panicked")
    /\ UNCHANGED <<now, cookies, limiter>>

Panicked == \E w \in Worker : At(w, "panicked")

Tick ==
    /\ now < MaxTime
    /\ now' = now + 1
    /\ entry' = [e \in Entry |-> [entry[e] EXCEPT !.served = 0]]
    /\ UNCHANGED <<cookies, worker, table, mu, stopReset, gc, ticker>>

-----------------------------------------------------------------------------

WorkerStep(w) ==
    \/ NeedsRefresh(w) \/ Refresh(w) \/ CreateReply(w)
    \/ Lookup(w) \/ ReadClock(w) \/ Insert(w) \/ Reset(w) \/ Panic(w)
    \/ \E passed \in BOOLEAN : TakeToken(w, passed)

GcStep == GcTick \/ Cleanup \/ StopTicker \/ GcEnd

\* What the initiator does after Close does not reach the device any more.
InitiatorStep ==
    \/ AddMacs \/ \E r \in replies : ConsumeReply(r)
    \/ \E a \in Addr : Roam(a)
    \/ InitGenerator

Next ==
    /\ ~Panicked
    /\ \/ stopReset = "open" /\ InitiatorStep
       \/ InitChecker
       \/ \E w \in Worker : WorkerStep(w) \/ \E m \in messages : Handle(w, m)
       \/ GcStep \/ Close \/ Tick

Spec == Init /\ [][Next]_vars

\* Goroutines that can run do, and the ticker ticks.
FairSpec == Spec /\ WF_vars(GcStep) /\ \A w \in Worker : WF_vars(WorkerStep(w))

-----------------------------------------------------------------------------
(* Properties. *)

\* Every variable keeps its type, and the tokens of an entry never exceed the
\* burst, however long it has not been used (Allow, maxTokens).
TypeOK ==
    /\ checker.secret \in Secret /\ checker.secretSet \in Never .. MaxTime
    /\ gen.cookie \in Cookie \cup {None} /\ gen.cookieSet \in Never .. MaxTime
    /\ messages \subseteq Message /\ replies \subseteq Reply
    /\ entry \in [Entry -> [lastTime : 0 .. MaxTime, tokens : 0 .. Burst, served : Nat]]
    /\ table \in [Addr -> Entry \cup {None}]
    /\ mu \in Worker \cup {None} /\ ticker \in (0 .. MaxTime) \cup {None}
    /\ gc \in {"select", "cleanup", "stop", "ended"}

\* A message that gets past the cookie check comes from an address to which its
\* cookie was sent (CheckMAC2, CreateReply), wherever the initiator has moved,
\* however replies are repeated and whoever refreshes the secret meanwhile.
CookieFromItsAddress ==
    \A w \in Worker : worker[w].pc \in {"lookup", "new", "insert", "take", "reset"} =>
        \E r \in replies : r.cookie = worker[w].msg.mac2 /\ r.to = worker[w].msg.src

\* A late or repeated reply never replaces the cookie by one that answers an
\* earlier message (ConsumeReply, lastMAC1).
CookieNeverOlder == [][gen'.key = gen.key => gen'.answers >= gen.answers]_gen

\* Whenever mu is free, a table with entries has a ticker that runs and is not
\* about to be stopped, until Close: no interleaving of the workers with cleanup
\* leaves entries that nothing collects (Init, cleanup, Allow).  A worker that
\* holds mu may wait for ever, see AllowReturns.
TickerWatchesTable ==
    stopReset = "open" /\ mu = None /\ Entries(table) # {} => ticker # None /\ gc # "stop"

\* In a burst an entry lets no more than packetsBurstable messages pass besides
\* the one that it was made for, whichever workers share it and whether or not
\* it is still in the table (Allow, cleanup).
BurstPerEntry == \A e \in Entry : entry[e].served <= Burst + 1

\* An address has one entry, so that in a burst it is allowed what one entry
\* lets pass (ratelimiter_test.go: "after burst").
OneEntry == \A w \in Worker : At(w, "take") => worker[w].entry = table[worker[w].msg.src]

\* A handshake worker never sends on the channel that Close has closed.
NoSendOnClosed == ~Panicked

\* Allow returns: the reset it sends under mu is received by the routine that
\* collects entries.
AllowReturns == \A w \in Worker : At(w, "reset") ~> ~At(w, "reset")
===============================================================================
